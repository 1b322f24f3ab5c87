---------------------------- MODULE MCEepromBus ----------------------------
(***************************************************************************)
(* EepromBus for TLC: two pages of two bytes.  A read runs over the end of *)
(* the memory, and the writes take a page, its first and its last byte.    *)
(***************************************************************************)
EXTENDS EepromBus

MCValues == {"old", "new"}
MCReads  == {ext_eeprom_read_word(1), ext_eeprom_read_word(3),
             ext_eeprom_read_byte(2)}
MCWrites == {<<2, 2>>, <<2, 1>>, <<1, 1>>}
=============================================================================
