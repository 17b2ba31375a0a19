------------------------------ MODULE MCUsbAsp ------------------------------
EXTENDS UsbAsp

MCModes == {[bus |-> "spi", sck |-> 10], [bus |-> "spi", sck |-> 7],
            [bus |-> "i2c", sck |-> 0], [bus |-> "isp", sck |-> 0],
            [bus |-> "isp", sck |-> 6], [bus |-> "mw", sck |-> 6]}

W(cs, n) == [op |-> "SPIWrite", cs |-> cs, n |-> n, id |-> 0]
R(cs, n) == [op |-> "SPIRead", cs |-> cs, n |-> n, id |-> 0]

MCJobsOf(b) ==
  CASE b = "spi" -> {W(0, 3), W(1, 2), R(1, 1), R(1, 4), R(0, 3)}
    [] b = "i2c" -> {[op |-> "I2CReadWrite", w |-> 3, r |-> 0, id |-> 0],
                     [op |-> "I2CReadWrite", w |-> 2, r |-> 3, id |-> 0],
                     [op |-> "I2CStart", id |-> 0], [op |-> "I2CStop", id |-> 0],
                     [op |-> "I2CWriteByte", id |-> 0],
                     [op |-> "I2CReadByte", ack |-> "ack", id |-> 0]}
    [] b = "mw"  -> {[op |-> "MWWrite", cs |-> 0, bits |-> 11, id |-> 0],
                     [op |-> "MWWrite", cs |-> 1, bits |-> 24, id |-> 0],
                     [op |-> "MWRead", cs |-> 1, n |-> 3, id |-> 0],
                     [op |-> "MWIsBusy", id |-> 0]}
    [] b = "isp" -> {[op |-> "Instruction", id |-> 0],
                     [op |-> "READFLASH", addr |-> 3, blocks |-> <<2>>, id |-> 0],
                     [op |-> "READEEPROM", addr |-> 0, blocks |-> <<3>>, id |-> 0],
                     [op |-> "WRITEFLASH", addr |-> 2, page |-> 2, blocks |-> <<3, 1>>, id |-> 0],
                     [op |-> "WRITEFLASH", addr |-> 4, page |-> 4, blocks |-> <<4>>, id |-> 0],
                     [op |-> "WRITEFLASH", addr |-> 0, page |-> 3, blocks |-> <<2>>, id |-> 0],
                     [op |-> "WRITEFLASH", addr |-> 5, page |-> 0, blocks |-> <<1>>, id |-> 0],
                     [op |-> "WRITEEEPROM", addr |-> 1, blocks |-> <<2>>, id |-> 0]}
=============================================================================
