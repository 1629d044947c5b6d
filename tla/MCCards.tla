------------------------------ MODULE MCCards ------------------------------
(***************************************************************************)
(* Four cards, one of each kind the code tells apart: two licences that    *)
(* answer the same ATR, a car inspection card whose ATR has the licence    *)
(* prefix, and a phone that draws its UID afresh.                          *)
(***************************************************************************)
MCCard == {"licence1", "licence2", "shaken", "phone"}
MCNoCard == "nocard"
MCNoText == ""
MCText == {"", "e1", "e2", "u1", "u2", "E1", "E2", "U1", "U2"}
MCAtr == {"atrLicence", "atrOther"}
MCAtrOf == [c \in MCCard |-> IF c = "phone" THEN "atrOther" ELSE "atrLicence"]
MCLicenceAtr == {"atrLicence"}
MCShakenCard == {"shaken"}
MCUidsOf == [c \in MCCard |->
  CASE c = "licence1" -> {"u1"}
    [] c = "licence2" -> {""}
    [] c = "shaken"   -> {"u2"}
    [] c = "phone"    -> {"u1", "u2"}]
MCExpiryOf == [c \in MCCard |->
  CASE c = "licence1" -> "e1" [] c = "licence2" -> "e2" [] OTHER -> ""]
MCUpper == [t \in MCText |->
  CASE t = "e1" -> "E1" [] t = "e2" -> "E2"
    [] t = "u1" -> "U1" [] t = "u2" -> "U2" [] OTHER -> t]
=============================================================================
