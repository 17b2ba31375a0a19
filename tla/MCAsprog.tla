------------------------------ MODULE MCAsprog ------------------------------
EXTENDS Asprog

W(cs, n) == [op |-> "SPIWrite", cs |-> cs, n |-> n, id |-> 0]
R(cs, n) == [op |-> "SPIRead", cs |-> cs, n |-> n, id |-> 0]

MCJobsOf(b) ==
  CASE b = "spi" -> {W(0, 1), W(1, 4), R(1, 2), R(1, 4), R(0, 1)}
    [] b = "i2c" -> {[op |-> "I2CReadWrite", w |-> 2, r |-> 0, id |-> 0],
                     [op |-> "I2CReadWrite", w |-> 1, r |-> 4, id |-> 0],
                     [op |-> "I2CReadWrite", w |-> 2, r |-> 2, id |-> 0],
                     [op |-> "I2CStart", id |-> 0], [op |-> "I2CStop", id |-> 0],
                     [op |-> "I2CWriteByte", id |-> 0]}
    [] b = "mw"  -> {[op |-> "MWWrite", cs |-> 0, bits |-> 11, id |-> 0],
                     [op |-> "MWWrite", cs |-> 1, bits |-> 24, id |-> 0],
                     [op |-> "MWRead", cs |-> 1, n |-> 4, id |-> 0],
                     [op |-> "MWIsBusy", id |-> 0]}
=============================================================================
