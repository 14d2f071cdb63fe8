-------------------------- MODULE LoginCode_proofs --------------------------
(* Proofs about LoginCode, for any pages, messages, codes, users and life.  *)
EXTENDS LoginCode, TLAPS

USE ConstantsAssumption

LEMMA IInvInit == Init => IInv
BY DEF Init, IInv, TypeOK, TokenAnswered, KnownUser, MarkedSince, StreamOutlives, CallsPlaced,
   PageStates, MsgStates, Replies, Listening

LEMMA AskStep ==
  ASSUME IInv, NEW p \in Pages, NEW c \in Codes, GenerateLoginCode(p, c)
  PROVE  IInv'
<1> USE DEF IInv, GenerateLoginCode, Set, calls, stream
<1>1. TypeOK'
  <2>1. login' \in [Codes -> OpenIds \cup {Absent, Waiting}] /\ ttl' \in [Codes -> 0 .. Life]
    BY DEF TypeOK
  <2>2. \A d \in Codes : login'[d] = Absent <=> ttl'[d] = 0
    BY DEF TypeOK
  <2>3. pcode' \in [Pages -> Codes \cup {None}] /\ page' \in [Pages -> PageStates]
    BY DEF TypeOK, PageStates
  <2> QED
    BY <2>1, <2>2, <2>3 DEF TypeOK
<1>2. /\ page[p] = "new" /\ page'[p] \in {"asked", "closed"} /\ pcode'[p] = c
      /\ \A q \in Pages \ {p} : page'[q] = page[q] /\ pcode'[q] = pcode[q]
      /\ \A d \in Codes : (login'[d] = login[d] /\ ttl'[d] = ttl[d]) \/ (d = c /\ login'[d] = Waiting)
      /\ page'[p] = "asked" => login'[c] = Waiting
      /\ UNCHANGED <<users, left, due, shown, token, msg, text, answered>>
  BY DEF TypeOK
<1>3. TokenAnswered' /\ KnownUser' /\ CallsPlaced'
  BY <1>2 DEF TokenAnswered, KnownUser, CallsPlaced
<1>4. MarkedSince'
  BY <1>2 DEF MarkedSince, Listening
<1>5. StreamOutlives'
  <2> SUFFICES ASSUME NEW q \in Pages, page'[q] = "open", login'[pcode'[q]] = Waiting,
                      \A z \in Pages \ {q} : pcode'[z] # pcode'[q]
               PROVE  ttl'[pcode'[q]] <= left'[q]
    BY DEF StreamOutlives
  <2>1. q # p /\ pcode[q] # c /\ pcode[q] \in Codes
    BY <1>2 DEF MarkedSince, Listening
  <2>2. \A z \in Pages \ {q} : pcode[z] # pcode[q]
    BY <1>2, <2>1 DEF MarkedSince
  <2> QED
    BY <1>2, <2>1, <2>2 DEF StreamOutlives
<1> QED
  BY <1>1, <1>3, <1>4, <1>5

LEMMA PageStep ==
  ASSUME IInv, NEW p \in Pages, OpenStream(p) \/ Poll(p) \/ Timeout(p) \/ Drop(p)
  PROVE  IInv'
<1> USE DEF IInv, calls, stream
<1>1. /\ login' = login /\ ttl' = ttl /\ users' = users /\ pcode' = pcode
      /\ msg' = msg /\ text' = text /\ answered' = answered
  BY DEF OpenStream, Poll, Timeout, Drop
<1>2. TypeOK'
  <2>1. page' \in [Pages -> PageStates]
    BY DEF TypeOK, OpenStream, Poll, Timeout, Drop, Finish, PageStates
  <2>2. left' \in [Pages -> 0 .. Life] /\ due' \in [Pages -> BOOLEAN]
    <3>1. left' = left \/ left' = [left EXCEPT ![p] = Life]
      BY DEF OpenStream, Poll, Timeout, Drop
    <3>2. due' = due \/ due' = [due EXCEPT ![p] = FALSE]
      BY DEF OpenStream, Poll, Timeout, Drop
    <3>3. left' \in [Pages -> 0 .. Life]
      BY <3>1 DEF TypeOK
    <3>4. due' \in [Pages -> BOOLEAN]
      BY <3>2, Zenon DEF TypeOK
    <3> QED
      BY <3>3, <3>4
  <2>3. /\ shown' \in [Pages -> {"nothing", "waiting", "success", "expired"}]
        /\ token' \in [Pages -> OpenIds \cup {None}]
    BY DEF TypeOK, OpenStream, Poll, Timeout, Drop, Finish
  <2> QED
    BY <1>1, <2>1, <2>2, <2>3 DEF TypeOK
<1>3. \A q \in Pages \ {p} :
        page'[q] = page[q] /\ left'[q] = left[q] /\ shown'[q] = shown[q] /\ token'[q] = token[q]
  BY DEF TypeOK, OpenStream, Poll, Timeout, Drop, Finish
<1>4. page[p] \in Listening /\ page'[p] # "new"
  BY DEF TypeOK, OpenStream, Poll, Timeout, Drop, Finish, Listening
<1>5. \/ token'[p] = token[p] /\ shown'[p] # "success"
      \/ token'[p] = token[p] /\ shown'[p] = shown[p]
      \/ token'[p] = login[pcode[p]] /\ login[pcode[p]] \in OpenIds
  BY DEF TypeOK, OpenStream, Poll, Timeout, Drop, Finish
<1>6. page'[p] = "open" => left'[p] = Life \/ (page[p] = "open" /\ left'[p] = left[p])
  BY DEF TypeOK, OpenStream, Poll, Timeout, Drop, Finish
<1>7. TokenAnswered'
  BY <1>1, <1>3, <1>4, <1>5 DEF TokenAnswered, MarkedSince
<1>8. KnownUser'
  BY <1>1, <1>3, <1>4, <1>5 DEF KnownUser, MarkedSince, TypeOK
<1>9. MarkedSince'
  BY <1>1, <1>3, <1>4 DEF MarkedSince, Listening
<1>10. StreamOutlives'
  <2>1. ttl[pcode[p]] <= Life
    BY <1>4 DEF MarkedSince, TypeOK
  <2> QED
    BY <1>1, <1>3, <1>6, <2>1 DEF StreamOutlives
<1>11. CallsPlaced'
  BY <1>1 DEF CallsPlaced
<1> QED
  BY <1>2, <1>7, <1>8, <1>9, <1>10, <1>11

LEMMA CallStep ==
  ASSUME IInv, NEW m \in Messages,
         \/ \E c \in Codes, o \in OpenIds : GetLoginCode(m, c, o)
         \/ Handle(m) \/ FailMessage(m)
  PROVE  IInv'
<1> USE DEF IInv, pages, stream, Goto, Set
<1>0. msg[m] \in {"lookup", "create", "write"} =>
        text[m].code \in Codes /\ text[m].openid \in OpenIds
  BY DEF CallsPlaced, TypeOK
<1>1. CASE \E c \in Codes, o \in OpenIds : GetLoginCode(m, c, o)
  <2>1. PICK c \in Codes, o \in OpenIds : GetLoginCode(m, c, o)
    BY <1>1
  <2>2. TypeOK'
    <3>1. msg' \in [Messages -> MsgStates]
      BY <2>1 DEF GetLoginCode, TypeOK, MsgStates, Replies
    <3>2. text' \in [Messages -> [code : Codes, openid : OpenIds] \cup {None}]
      BY <2>1 DEF GetLoginCode, TypeOK
    <3> QED
      BY <2>1, <3>1, <3>2 DEF GetLoginCode, TypeOK
  <2>3. CallsPlaced'
    <3>1. text'[m] = [code |-> c, openid |-> o] /\ msg'[m] # "write"
      BY <2>1 DEF GetLoginCode, TypeOK
    <3>2. text'[m] \in [code : Codes, openid : OpenIds]
      BY <3>1
    <3> QED
      BY <2>1, <3>1, <3>2 DEF GetLoginCode, CallsPlaced, TypeOK
  <2> QED
    BY <2>1, <2>2, <2>3 DEF GetLoginCode, TokenAnswered, KnownUser, MarkedSince, StreamOutlives
<1>2. CASE GetByOpenID(m) \/ FailMessage(m)
  <2>1. TypeOK' /\ CallsPlaced'
    BY <1>2 DEF GetByOpenID, FailMessage, TypeOK, CallsPlaced, MsgStates, Replies
  <2> QED
    BY <1>2, <2>1 DEF GetByOpenID, FailMessage, TokenAnswered, KnownUser, MarkedSince, StreamOutlives
<1>3. CASE CreateUser(m)
  <2>1. TypeOK' /\ CallsPlaced'
    BY <1>0, <1>3 DEF CreateUser, TypeOK, CallsPlaced, MsgStates, Replies
  <2> QED
    BY <1>3, <2>1 DEF CreateUser, TokenAnswered, KnownUser, MarkedSince, StreamOutlives
<1>4. CASE UpdateLoginCode(m)
  <2> DEFINE c == text[m].code
             o == text[m].openid
  <2>1. c \in Codes /\ o \in OpenIds /\ o \in users
    BY <1>0, <1>4 DEF UpdateLoginCode, CallsPlaced
  <2>2. /\ \A d \in Codes : login'[d] = (IF d = c THEN o ELSE login[d])
                            /\ (d # c => ttl'[d] = ttl[d])
        /\ \A p \in Pages : answered'[p] = IF pcode[p] = c THEN answered[p] \cup {o} ELSE answered[p]
        /\ UNCHANGED <<users, page, pcode, left, due, shown, token, text>>
    BY <1>4, <2>1 DEF UpdateLoginCode, TypeOK
  <2>3. TypeOK' /\ CallsPlaced'
    BY <1>4, <2>1 DEF UpdateLoginCode, TypeOK, CallsPlaced, MsgStates, Replies
  <2> HIDE DEF c, o
  <2>4. TokenAnswered' /\ KnownUser'
    BY <2>1, <2>2 DEF TokenAnswered, KnownUser
  <2>5. MarkedSince'
    BY <2>1, <2>2 DEF MarkedSince
  <2>6. StreamOutlives'
    BY <2>1, <2>2 DEF StreamOutlives, MarkedSince, Listening
  <2> QED
    BY <2>3, <2>4, <2>5, <2>6
<1> QED
  BY <1>1, <1>2, <1>3, <1>4 DEF Handle

LEMMA TickStep == IInv /\ Tick => IInv'
<1> SUFFICES ASSUME IInv, Tick PROVE IInv'
  OBVIOUS
<1> USE DEF IInv, calls
<1>1. \A c \in Codes : /\ ttl'[c] = Less(ttl[c]) /\ ttl'[c] \in 0 .. Life
                       /\ login'[c] = IF ttl'[c] = 0 THEN Absent ELSE login[c]
                       /\ login'[c] \in {Absent, login[c]}
  BY DEF Tick, Less, TypeOK
<1>2. \A p \in Pages : /\ left'[p] \in 0 .. Life
                       /\ page[p] = "open" => left'[p] = Less(left[p])
  BY DEF Tick, Less, TypeOK
<1>3. UNCHANGED <<users, page, pcode, shown, token, msg, text, answered>>
  BY DEF Tick
<1>4. TypeOK'
  <2>1. login' \in [Codes -> OpenIds \cup {Absent, Waiting}] /\ ttl' \in [Codes -> 0 .. Life]
    BY <1>1 DEF Tick, TypeOK
  <2>2. left' \in [Pages -> 0 .. Life] /\ due' \in [Pages -> BOOLEAN]
    BY <1>2 DEF Tick, TypeOK
  <2>3. \A c \in Codes : login'[c] = Absent <=> ttl'[c] = 0
    BY <1>1 DEF TypeOK, Less
  <2> QED
    BY <1>3, <2>1, <2>2, <2>3 DEF TypeOK
<1>5. TokenAnswered' /\ KnownUser' /\ CallsPlaced'
  BY <1>1, <1>3 DEF TokenAnswered, KnownUser, CallsPlaced
<1>6. MarkedSince'
  BY <1>1, <1>3 DEF MarkedSince
<1>7. StreamOutlives'
  <2> SUFFICES ASSUME NEW p \in Pages, page[p] = "open", login'[pcode[p]] = Waiting,
                      \A q \in Pages \ {p} : pcode[q] # pcode[p]
               PROVE  ttl'[pcode[p]] <= left'[p]
    BY <1>3 DEF StreamOutlives
  <2>1. pcode[p] \in Codes
    BY DEF MarkedSince, Listening
  <2>2. ttl[pcode[p]] <= left[p]
    BY <1>1, <2>1 DEF StreamOutlives
  <2>3. ttl[pcode[p]] \in Nat /\ left[p] \in Nat
    BY <2>1 DEF TypeOK
  <2> QED
    BY <1>1, <1>2, <2>1, <2>2, <2>3 DEF Less
<1> QED
  BY <1>4, <1>5, <1>6, <1>7

LEMMA IInvStep == IInv /\ [Next]_vars => IInv'
<1> SUFFICES ASSUME IInv, [Next]_vars PROVE IInv'
  OBVIOUS
<1>1. CASE UNCHANGED vars
  BY <1>1 DEF vars, pages, stream, calls, IInv, TypeOK, TokenAnswered, KnownUser, MarkedSince,
     StreamOutlives, CallsPlaced
<1>2. CASE Next
  BY <1>2, AskStep, PageStep, CallStep, TickStep DEF Next
<1> QED
  BY <1>1, <1>2

THEOREM Invariance == Spec => []IInv
BY IInvInit, IInvStep, PTL DEF Spec

\* A code is in Redis exactly while it has time left, and everything has its type.
THEOREM TypeCorrect == Spec => []TypeOK
<1>1. IInv => TypeOK
  BY DEF IInv
<1> QED
  BY <1>1, Invariance, PTL

\* A page's token is of a user who answered its code since it asked.
THEOREM TokensAnswered == Spec => []TokenAnswered
<1>1. IInv => TokenAnswered
  BY DEF IInv
<1> QED
  BY <1>1, Invariance, PTL

\* Tokens are of users the table has.
THEOREM UsersKnown == Spec => []KnownUser
<1>1. IInv => KnownUser
  BY DEF IInv
<1> QED
  BY <1>1, Invariance, PTL

\* A page is not told too early that its code has expired.
THEOREM NeverTooEarly == Spec => ExpiredInTime
<1>1. ASSUME IInv, [Next]_vars
      PROVE  [\A p \in Pages :
                shown'[p] = "expired" /\ shown[p] # "expired" =>
                  \/ login[pcode[p]] # Waiting
                  \/ \E q \in Pages \ {p} : pcode[q] = pcode[p]]_vars
  <2>1. SUFFICES ASSUME NEW p \in Pages, shown'[p] = "expired", shown[p] # "expired",
                        login[pcode[p]] = Waiting, \A q \in Pages \ {p} : pcode[q] # pcode[p]
                 PROVE  FALSE
    OBVIOUS
  <2>2. TypeOK /\ MarkedSince /\ StreamOutlives
    BY <1>1 DEF IInv
  <2>3. Poll(p) \/ Timeout(p)
    BY <1>1, <2>1, <2>2 DEF Next, vars, pages, stream, GenerateLoginCode, OpenStream, Poll, Timeout, Drop, Finish,
       GetLoginCode, Handle, GetByOpenID, CreateUser, UpdateLoginCode, FailMessage, Tick, TypeOK
  <2>4. ~Poll(p)
    BY <2>1, <2>2 DEF Poll, Finish, TypeOK
  <2>5. page[p] = "open" /\ left[p] = 0
    BY <2>3, <2>4 DEF Timeout
  <2>6. pcode[p] \in Codes /\ ttl[pcode[p]] <= 0
    BY <2>1, <2>2, <2>5 DEF MarkedSince, StreamOutlives, Listening
  <2> QED
    BY <2>1, <2>2, <2>6 DEF TypeOK
<1> QED
  BY <1>1, Invariance, PTL DEF Spec, ExpiredInTime
=============================================================================
