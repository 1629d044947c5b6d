------------------------------- MODULE Cards -------------------------------
(***************************************************************************)
(* What the reader can learn of a card, and what LicenseReader.ReadCard    *)
(* makes of it (internal/nfc/license_reader.go).  Pure definitions: the    *)
(* APDU session itself is CardRead, the loop that calls it is CardMonitor. *)
(*                                                                         *)
(* A hex string is a member of Text, the empty string is NoText.           *)
(***************************************************************************)

CONSTANTS
  Card,         \* the physical cards
  NoCard,       \* an empty slot
  Text,         \* hex strings: IDm, expiry date, CardID
  NoText,       \* ""
  Atr,          \* answers to reset
  AtrOf,        \* the ATR each card answers
  LicenceAtr,   \* the ATRs with prefix 3B888001000000
  ShakenCard,   \* cards that answer CHECK_SHAKEN with 067877810280
  UidsOf,       \* what a card may answer to GET_FELICA_IDM: a mobile one draws
                \* a fresh 4-byte number each time, one without an IDm NoText
  ExpiryOf,     \* what a card answers to READ_EXPIRE
  Upper         \* strings.ToUpper

ASSUME CardsAssumption ==
  /\ NoCard \notin Card
  /\ NoText \in Text
  /\ AtrOf \in [Card -> Atr]
  /\ LicenceAtr \subseteq Atr
  /\ ShakenCard \subseteq Card
  /\ UidsOf \in [Card -> (SUBSET Text) \ {{}}]
  /\ ExpiryOf \in [Card -> Text]
  /\ Upper \in [Text -> Text]
  /\ \A t \in Text : Upper[t] = NoText <=> t = NoText

CardTypes == {"driver_license", "car_inspection", "other"}

NoDefaultType(c) == IF AtrOf[c] \in LicenceAtr THEN "driver_license" ELSE "nil"

(* The type that the ATR alone gives, and the one detectCardType returns:   *)
(* without the six bytes it expects of CHECK_SHAKEN the ATR decides.        *)
TypeByAtr(c) == IF AtrOf[c] \in LicenceAtr THEN "driver_license" ELSE "other"

AtrFirst(c, shakenAnswered) ==
  IF AtrOf[c] \in LicenceAtr THEN "driver_license"
  ELSE IF shakenAnswered /\ c \in ShakenCard THEN "car_inspection" ELSE "other"

DetectCardType(c, shakenAnswered) ==
  IF shakenAnswered /\ c \in ShakenCard THEN "car_inspection" ELSE TypeByAtr(c)

(* The CardID of a licence is its expiry date, of any other card its UID.   *)
CardID(type, uid, expiry) ==
  Upper[IF type = "driver_license" THEN expiry ELSE uid]

LicenseData == [type : CardTypes, uid : Text, expiry : Text, id : Text]

(* The *LicenseData that is nil in Go.                                      *)
NoData == [type |-> "nil", uid |-> NoText, expiry |-> NoText, id |-> NoText]

MkData(type, uid, expiry) ==
  [type |-> type, uid |-> uid, expiry |-> expiry,
   id |-> CardID(type, uid, expiry)]

(* What ReadCard returns: (nil, err) or (data, nil).                        *)
Result == [data : LicenseData \cup {NoData}, err : BOOLEAN]
ReadError == [data |-> NoData, err |-> TRUE]
Returned(data) == [data |-> data, err |-> FALSE]

(* The expiry date that a type lets readDriverLicenseData look for.         *)
ExpiriesRead(c, type) ==
  IF type = "driver_license" THEN {NoText, ExpiryOf[c]} ELSE {NoText}

(* Every result a call connected to card c can return: GET_FELICA_IDM,      *)
(* CHECK_SHAKEN and the expiry exchanges may each fail without ending it.   *)
ReadResults(c) ==
  {ReadError} \cup
  UNION { { Returned(MkData(DetectCardType(c, s), uid, expiry)) :
              uid \in UidsOf[c] \cup {NoText},
              expiry \in ExpiriesRead(c, DetectCardType(c, s)) } :
          s \in BOOLEAN }

(* What a card is, and the result that says so: a licence is a card of the  *)
(* licences' ATR other than a car inspection certificate, which shares it.  *)
TrueType(c) ==
  CASE c \in ShakenCard -> "car_inspection"
    [] c \notin ShakenCard /\ AtrOf[c] \in LicenceAtr -> "driver_license"
    [] c \notin ShakenCard /\ AtrOf[c] \notin LicenceAtr -> "other"

TrueResults(c) ==
  LET type == TrueType(c)
      expiry == IF type = "driver_license" THEN ExpiryOf[c] ELSE NoText
  IN  { Returned(MkData(type, uid, expiry)) : uid \in UidsOf[c] }
=============================================================================
