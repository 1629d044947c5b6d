---------------------------- MODULE CardsProofs -----------------------------
(***************************************************************************)
(* Lemmas on the results of ReadCard.                                      *)
(***************************************************************************)
EXTENDS Cards, TLAPS

(* A call of ReadCard returns an error and no data, or data and no error.   *)
LEMMA ReadResultsType ==
  ASSUME NEW c \in Card
  PROVE  \A res \in ReadResults(c) :
           \/ res = ReadError
           \/ \E d \in LicenseData : res = Returned(d)
<1> SUFFICES ASSUME NEW res \in ReadResults(c), res # ReadError
             PROVE  \E d \in LicenseData : res = Returned(d)
  OBVIOUS
<1>1. PICK s \in BOOLEAN :
        \E uid \in UidsOf[c] \cup {NoText} :
          \E expiry \in ExpiriesRead(c, DetectCardType(c, s)) :
            res = Returned(MkData(DetectCardType(c, s), uid, expiry))
  BY DEF ReadResults
<1>2. PICK uid \in UidsOf[c] \cup {NoText} :
        \E expiry \in ExpiriesRead(c, DetectCardType(c, s)) :
          res = Returned(MkData(DetectCardType(c, s), uid, expiry))
  BY <1>1
<1>3. PICK expiry \in ExpiriesRead(c, DetectCardType(c, s)) :
        res = Returned(MkData(DetectCardType(c, s), uid, expiry))
  BY <1>2
<1>4. DetectCardType(c, s) \in CardTypes
  BY DEF DetectCardType, TypeByAtr, CardTypes
<1>5. uid \in Text /\ expiry \in Text
  BY CardsAssumption DEF ExpiriesRead
<1>6. CardID(DetectCardType(c, s), uid, expiry) \in Text
  BY <1>5, CardsAssumption DEF CardID
<1>7. MkData(DetectCardType(c, s), uid, expiry) \in LicenseData
  BY <1>4, <1>5, <1>6 DEF MkData, LicenseData
<1> QED
  BY <1>3, <1>7

(* nil is not data.                                                         *)
LEMMA NoDataIsNil == NoData \notin LicenseData
  BY DEF NoData, LicenseData, CardTypes

(* Whatever a card answers, detectCardType settles on one of the types.     *)
LEMMA DetectedType ==
  ASSUME NEW c, NEW s \in BOOLEAN
  PROVE  DetectCardType(c, s) \in CardTypes
  BY DEF DetectCardType, TypeByAtr, CardTypes

(* The error ReadCard returns is a result.                                  *)
LEMMA ErrorIsResult == ReadError \in Result
<1>1. TRUE \in BOOLEAN /\ NoData \in LicenseData \cup {NoData}
  BY Zenon
<1> QED
  BY <1>1, Zenon DEF ReadError, Result

(* So is the data of a call without error.                                  *)
LEMMA DataIsResult ==
  ASSUME NEW d \in LicenseData
  PROVE  Returned(d) \in Result
<1>1. FALSE \in BOOLEAN /\ d \in LicenseData \cup {NoData}
  BY Zenon
<1> QED
  BY <1>1, Zenon DEF Returned, Result

(* A result with a UID and an expiry date of the card, or without either,   *)
(* and a type that detectCardType gives for the card, is one a call can     *)
(* return.                                                                  *)
LEMMA PartsMakeResult ==
  ASSUME NEW c \in Card, NEW s \in BOOLEAN, NEW uid \in UidsOf[c] \cup {NoText},
         NEW expiry \in ExpiriesRead(c, DetectCardType(c, s))
  PROVE  Returned(MkData(DetectCardType(c, s), uid, expiry)) \in ReadResults(c)
<1> DEFINE R(t) ==
      { Returned(MkData(DetectCardType(c, t), u, e)) :
          u \in UidsOf[c] \cup {NoText}, e \in ExpiriesRead(c, DetectCardType(c, t)) }
<1>1. Returned(MkData(DetectCardType(c, s), uid, expiry)) \in R(s)
  OBVIOUS
<1>2. ReadResults(c) = {ReadError} \cup UNION { R(t) : t \in BOOLEAN }
  BY DEF ReadResults
<1> HIDE DEF R
<1>3. R(s) \in { R(t) : t \in BOOLEAN }
  BY Zenon
<1> QED
  BY <1>1, <1>2, <1>3, Zenon

(* With CHECK_SHAKEN answered, detectCardType tells what the card is: the   *)
(* ATR test comes second, so the ATR a licence and a car inspection         *)
(* certificate share does not confuse them.                                 *)
LEMMA DetectedIsTrueType ==
  ASSUME NEW c
  PROVE  DetectCardType(c, TRUE) = TrueType(c)
  BY DEF DetectCardType, TypeByAtr, TrueType

(* A call in which every exchange was answered returns one of the results   *)
(* any call can return.                                                     *)
LEMMA TrueResultsAreResults ==
  ASSUME NEW c \in Card
  PROVE  TrueResults(c) \subseteq ReadResults(c)
<1> SUFFICES ASSUME NEW res \in TrueResults(c) PROVE res \in ReadResults(c)
  OBVIOUS
<1> DEFINE type == TrueType(c)
           expiry == IF type = "driver_license" THEN ExpiryOf[c] ELSE NoText
<1>1. PICK uid \in UidsOf[c] : res = Returned(MkData(type, uid, expiry))
  BY DEF TrueResults
<1>2. expiry \in ExpiriesRead(c, type)
  BY DEF ExpiriesRead
<1>3. TRUE \in BOOLEAN
  BY Zenon
<1>4. type = DetectCardType(c, TRUE)
  BY DetectedIsTrueType
<1> HIDE DEF type, expiry
<1> QED
  BY <1>1, <1>2, <1>3, <1>4, PartsMakeResult

(* What the data of a call can be, part by part: a type that is the card's, *)
(* or, of a certificate that did not answer CHECK_SHAKEN, the one its ATR   *)
(* stands for; a UID and an expiry date that are the card's or missing; and *)
(* the CardID these make, which is missing when the part it is made of is.  *)
LEMMA PartsOfResult ==
  ASSUME NEW c \in Card, NEW d, d # NoData, Returned(d) \in ReadResults(c)
  PROVE  /\ d.type = TrueType(c) \/ (c \in ShakenCard /\ d.type = TypeByAtr(c))
         /\ d.uid \in UidsOf[c] \cup {NoText}
         /\ d.expiry \in ExpiriesRead(c, d.type)
         /\ d.id = CardID(d.type, d.uid, d.expiry)
         /\ d.id = NoText <=> IF d.type = "driver_license" THEN d.expiry = NoText
                              ELSE d.uid = NoText
<1>1. Returned(d) # ReadError
  BY DEF Returned, ReadError
<1>2. PICK s \in BOOLEAN :
        \E uid \in UidsOf[c] \cup {NoText} :
          \E expiry \in ExpiriesRead(c, DetectCardType(c, s)) :
            Returned(d) = Returned(MkData(DetectCardType(c, s), uid, expiry))
  BY <1>1 DEF ReadResults
<1>3. PICK uid \in UidsOf[c] \cup {NoText},
           expiry \in ExpiriesRead(c, DetectCardType(c, s)) :
        Returned(d) = Returned(MkData(DetectCardType(c, s), uid, expiry))
  BY <1>2
<1>4. d = MkData(DetectCardType(c, s), uid, expiry)
  <2>1. \A e : Returned(e).data = e
    BY DEF Returned
  <2> QED
    BY <1>3, <2>1
<1>5. /\ d.type = DetectCardType(c, s) /\ d.uid = uid /\ d.expiry = expiry
      /\ d.id = CardID(d.type, d.uid, d.expiry)
  BY <1>4 DEF MkData
<1>6. d.type = TrueType(c) \/ (c \in ShakenCard /\ d.type = TypeByAtr(c))
  BY <1>5 DEF DetectCardType, TypeByAtr, TrueType
<1>7. uid \in Text /\ expiry \in Text
  BY CardsAssumption DEF ExpiriesRead
<1>8. d.id = NoText <=> IF d.type = "driver_license" THEN d.expiry = NoText
                       ELSE d.uid = NoText
  BY <1>5, <1>7, CardsAssumption DEF CardID
<1> QED
  BY <1>3, <1>5, <1>6, <1>8
=============================================================================
