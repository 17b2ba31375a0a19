------------------------------ MODULE MCAvrIsp ------------------------------
EXTENDS AvrIsp

MCModes == {[bus |-> "spi", sck |-> 0], [bus |-> "i2c", sck |-> 0], [bus |-> "mw", sck |-> 1],
            [bus |-> "isp", sck |-> 1], [bus |-> "isp", sck |-> 2]}

W(cs, n) == [op |-> "SPIWrite", cs |-> cs, n |-> n, id |-> 0]
R(cs, n) == [op |-> "SPIRead", cs |-> cs, n |-> n, id |-> 0]
Mem(op, addr, paged, blocks) ==
  [op |-> op, addr |-> addr, extended |-> op \in {"READ_FLASH", "PROGRAM_FLASH"},
   paged |-> paged, blocks |-> blocks, id |-> 0]

MCJobsOf(b) ==
  CASE b = "spi" -> {W(0, 2), W(0, 3), W(1, 1), R(1, 1), R(1, 3), R(0, 4)}
    [] b = "i2c" -> {[op |-> "I2CReadWrite", w |-> 2, r |-> 0, id |-> 0],
                     [op |-> "I2CReadWrite", w |-> 4, r |-> 0, id |-> 0],
                     [op |-> "I2CStart", id |-> 0], [op |-> "I2CStop", id |-> 0],
                     [op |-> "I2CWriteByte", id |-> 0],
                     [op |-> "I2CReadByte", ack |-> "ack", id |-> 0],
                     [op |-> "I2CReadByte", ack |-> "nack", id |-> 0]}
    [] b = "mw"  -> {[op |-> "MWWrite", cs |-> 0, bits |-> 11, id |-> 0],
                     [op |-> "MWWrite", cs |-> 1, bits |-> 16, id |-> 0],
                     [op |-> "MWRead", cs |-> 1, n |-> 3, id |-> 0],
                     [op |-> "MWIsBusy", id |-> 0]}
    [] b = "isp" -> {Mem("READ_FLASH", 1, FALSE, <<4>>), Mem("READ_EEPROM", 1, FALSE, <<1, 2>>),
                     Mem("PROGRAM_FLASH", 0, TRUE, <<4, 4>>), Mem("PROGRAM_FLASH", 1, FALSE, <<2>>),
                     Mem("PROGRAM_EEPROM", 0, TRUE, <<2>>), Mem("PROGRAM_EEPROM", 1, FALSE, <<3>>),
                     [op |-> "CHIP_ERASE", id |-> 0], [op |-> "READ_FUSE", id |-> 0],
                     [op |-> "PROGRAM_FUSE", id |-> 0], [op |-> "SPI_MULTI", n |-> 4, id |-> 0]}
=============================================================================
