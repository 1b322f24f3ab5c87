--------------------------- MODULE MCEepromWrite ---------------------------
(***************************************************************************)
(* EepromWrite for TLC: four pages of four bytes.                          *)
(***************************************************************************)
EXTENDS EepromWrite

AllCalls == (0 .. MemSize - 1) \X (1 .. MemSize - 1)

(* Calls from the beginning of a page on, which the write-back's are, and  *)
(* calls of at most a page, also across the end of one: they hold those    *)
(* for single values.                                                      *)
SplitCalls ==
  {c \in AllCalls : /\ c[1] + c[2] <= MemSize
                    /\ c[1] % PageSize = 0 \/ c[2] <= PageSize}

ASSUME \A a \in 0 .. MemSize - 4 :
         {ext_eeprom_write_byte(a), ext_eeprom_write_word(a),
          ext_eeprom_write_dword(a)} \subseteq SplitCalls
=============================================================================
