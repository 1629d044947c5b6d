----------------------------- MODULE MCMonitor ------------------------------
(* Two licences of one ATR and a card of another kind, put on the readers   *)
(* at most MaxVisits times in all.                                          *)
EXTENDS CardMonitor

MCCard == {"licence1", "licence2", "phone"}
MCNoCard == "nocard"
MCNoText == ""
MCText == {"", "e", "u", "E", "U"}
MCAtr == {"atrLicence", "atrOther"}
MCAtrOf == [c \in MCCard |-> IF c = "phone" THEN "atrOther" ELSE "atrLicence"]
MCLicenceAtr == {"atrLicence"}
MCShakenCard == {}
MCUidsOf == [c \in MCCard |-> IF c = "phone" THEN {"u"} ELSE {""}]
MCExpiryOf == [c \in MCCard |-> IF c = "phone" THEN "" ELSE "e"]
MCUpper == [t \in MCText |-> CASE t = "e" -> "E" [] t = "u" -> "U" [] OTHER -> t]
=============================================================================
