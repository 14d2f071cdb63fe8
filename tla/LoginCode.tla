----------------------------- MODULE LoginCode -----------------------------
(***************************************************************************)
(* Logging in with a code.  A page asks for a code of five digits, which   *)
(* Redis keeps for five minutes, and listens for its status on an event    *)
(* stream that looks at the code every two seconds, for five minutes at    *)
(* most.  The user sends the code to the WeChat account, whose callback    *)
(* looks the code up, finds or creates the user and marks the code with a  *)
(* token.  Nothing locks a code: pages, streams, callbacks and the clock   *)
(* interleave, and every read may be stale when its result is written.     *)
(***************************************************************************)
EXTENDS Naturals

CONSTANTS
  Pages,     \* a page that asks for a code, once
  Messages,  \* a delivery of a WeChat message; it may be delivered again
  Codes, OpenIds,
  Life,      \* five minutes, in polls: of a code and of a stream
  Absent, Waiting, None

ASSUME ConstantsAssumption ==
  /\ Life \in Nat \ {0}
  /\ Absent # Waiting
  /\ {Absent, Waiting, None} \cap OpenIds = {}
  /\ None \notin Codes

VARIABLES
  login,     \* Redis: the status of a code; a user means success, with her token
  ttl,       \* how long Redis keeps it
  users,     \* the users table, by its unique openid
  page,      \* where a page is
  pcode,     \* the code it was given
  left,      \* polls until its stream times out
  due,       \* a tick waits to be served
  shown,     \* the last status it was sent
  token,     \* the user its token is for
  msg,       \* where the callback for a message is, or its reply
  text,      \* the code and the sender of a message
  answered   \* history: the users its code was marked with since the page asked

stream == <<left, due>>
pages  == <<page, pcode, stream, shown, token>>
calls  == <<msg, text>>
vars   == <<login, ttl, users, pages, calls, answered>>

PageStates == {"new", "asked", "open", "dropped", "closed"}
Replies    == {"success", "expired", "failed"}
MsgStates  == {"new", "lookup", "create", "write"} \cup Replies

Init ==
  /\ login = [c \in Codes |-> Absent]
  /\ ttl = [c \in Codes |-> 0]
  /\ users \in SUBSET OpenIds
  /\ page = [p \in Pages |-> "new"]
  /\ pcode = [p \in Pages |-> None]
  /\ left = [p \in Pages |-> 0]
  /\ due = [p \in Pages |-> FALSE]
  /\ shown = [p \in Pages |-> "nothing"]
  /\ token = [p \in Pages |-> None]
  /\ msg = [m \in Messages |-> "new"]
  /\ text = [m \in Messages |-> None]
  /\ answered = [p \in Pages |-> {}]

\* Mutant: a SET without an expiration.
SetForever(c, v) ==
  /\ login' = [login EXCEPT ![c] = v]
  /\ UNCHANGED ttl

\* SaveLoginCode and UpdateLoginCode: an unconditional SET that starts a new life.
Set(c, v) ==
  /\ login' = [login EXCEPT ![c] = v]
  /\ ttl' = [ttl EXCEPT ![c] = Life]

-----------------------------------------------------------------------------
(* A page *)

\* Mutant: SETs the code only when it is not there.
GenerateUnusedCode(p, c) ==
  /\ page[p] = "new"
  /\ pcode' = [pcode EXCEPT ![p] = c]
  /\ IF login[c] = Absent THEN Set(c, Waiting) ELSE UNCHANGED <<login, ttl>>
  /\ page' = [page EXCEPT ![p] = "asked"]
  /\ UNCHANGED <<users, stream, shown, token, calls, answered>>

\* LoginRequest: a random code, used by another page or not.  When Redis fails
\* the page gets an error; the SET may have happened nevertheless.
GenerateLoginCode(p, c) ==
  /\ page[p] = "new"
  /\ pcode' = [pcode EXCEPT ![p] = c]
  /\ \/ Set(c, Waiting) /\ page' = [page EXCEPT ![p] = "asked"]
     \/ Set(c, Waiting) /\ page' = [page EXCEPT ![p] = "closed"]
     \/ UNCHANGED <<login, ttl>> /\ page' = [page EXCEPT ![p] = "closed"]
  /\ UNCHANGED <<users, stream, shown, token, calls, answered>>

\* Mutant: the stream is a poll shorter than the code's life.
OpenShortStream(p) ==
  /\ page[p] \in {"asked", "dropped"}
  /\ page' = [page EXCEPT ![p] = "open"]
  /\ left' = [left EXCEPT ![p] = Life - 1]
  /\ due' = [due EXCEPT ![p] = FALSE]
  /\ shown' = [shown EXCEPT ![p] = "waiting"]
  /\ UNCHANGED <<login, ttl, users, pcode, token, calls, answered>>

\* The stream opens, again when it was dropped, and says "waiting" unread.
OpenStream(p) ==
  /\ page[p] \in {"asked", "dropped"}
  /\ page' = [page EXCEPT ![p] = "open"]
  /\ left' = [left EXCEPT ![p] = Life]
  /\ due' = [due EXCEPT ![p] = FALSE]
  /\ shown' = [shown EXCEPT ![p] = "waiting"]
  /\ UNCHANGED <<login, ttl, users, pcode, token, calls, answered>>

\* The last event of a stream.
Finish(p, status) ==
  /\ shown' = [shown EXCEPT ![p] = status]
  /\ page' = [page EXCEPT ![p] = "closed"]

\* GetLoginStatus on a tick.  A failed read waits for the next tick.
Poll(p) ==
  LET status == login[pcode[p]] IN
  /\ page[p] = "open" /\ due[p]
  /\ due' = [due EXCEPT ![p] = FALSE]
  /\ \/ status = Absent /\ Finish(p, "expired") /\ UNCHANGED token
     \/ /\ status \in OpenIds
        /\ Finish(p, "success")
        /\ token' = [token EXCEPT ![p] = status]
     \/ UNCHANGED <<page, shown, token>>
  /\ UNCHANGED <<login, ttl, users, pcode, left, calls, answered>>

\* Mutant: a waiting tick goes before the timeout.
TimeoutLast(p) ==
  /\ page[p] = "open" /\ left[p] = 0 /\ ~due[p]
  /\ Finish(p, "expired")
  /\ UNCHANGED <<login, ttl, users, pcode, stream, token, calls, answered>>

\* The five minutes are over.  A select takes this case or the tick, when both
\* are ready, and does not read the code once more.
Timeout(p) ==
  /\ page[p] = "open" /\ left[p] = 0
  /\ Finish(p, "expired")
  /\ UNCHANGED <<login, ttl, users, pcode, stream, token, calls, answered>>

\* The connection is lost, or the server stops or gives up on the request.
Drop(p) ==
  /\ page[p] = "open"
  /\ page' = [page EXCEPT ![p] = "dropped"]
  /\ UNCHANGED <<login, ttl, users, pcode, stream, shown, token, calls, answered>>

-----------------------------------------------------------------------------
(* VerifyLoginCode, called by the callback for a message *)

Goto(m, l) == msg' = [msg EXCEPT ![m] = l]

GetLoginCode(m, c, o) ==
  /\ msg[m] = "new"
  /\ text' = [text EXCEPT ![m] = [code |-> c, openid |-> o]]
  /\ Goto(m, IF login[c] = Absent THEN "expired" ELSE "lookup")
  /\ UNCHANGED <<login, ttl, users, pages, answered>>

\* Mutant: does not look whether the user is there.
TrustOpenID(m) ==
  /\ msg[m] = "lookup"
  /\ Goto(m, "write")
  /\ UNCHANGED <<login, ttl, users, pages, text, answered>>

GetByOpenID(m) ==
  /\ msg[m] = "lookup"
  /\ Goto(m, IF text[m].openid \in users THEN "write" ELSE "create")
  /\ UNCHANGED <<login, ttl, users, pages, text, answered>>

\* The openid is unique: the second of two concurrent creators fails.
CreateUser(m) ==
  /\ msg[m] = "create"
  /\ users' = users \cup {text[m].openid}
  /\ Goto(m, IF text[m].openid \in users THEN "failed" ELSE "write")
  /\ UNCHANGED <<login, ttl, pages, text, answered>>

\* Mutant: waits until the code is waiting.
UpdateWaitingCode(m) ==
  /\ msg[m] = "write"
  /\ login[text[m].code] = Waiting
  /\ Set(text[m].code, text[m].openid)
  /\ answered' = [p \in Pages |-> IF pcode[p] = text[m].code
                                  THEN answered[p] \cup {text[m].openid} ELSE answered[p]]
  /\ Goto(m, "success")
  /\ UNCHANGED <<users, pages, text>>

\* The code is marked, whatever it has become since it was read.  The SET may
\* happen and its answer be lost.
UpdateLoginCode(m) ==
  LET c == text[m].code
      o == text[m].openid IN
  /\ msg[m] = "write"
  /\ Set(c, o)
  /\ answered' = [p \in Pages |-> IF pcode[p] = c THEN answered[p] \cup {o} ELSE answered[p]]
  /\ Goto(m, "success") \/ Goto(m, "failed")
  /\ UNCHANGED <<users, pages, text>>

\* A read or write fails, or the process stops.
FailMessage(m) ==
  /\ msg[m] \in MsgStates \ Replies
  /\ Goto(m, "failed")
  /\ UNCHANGED <<login, ttl, users, pages, text, answered>>

Handle(m) == GetByOpenID(m) \/ CreateUser(m) \/ UpdateLoginCode(m)

-----------------------------------------------------------------------------
Less(n) == IF n = 0 THEN 0 ELSE n - 1

\* Two seconds pass.  A ticker keeps one tick at most.
Tick ==
  /\ ttl' = [c \in Codes |-> Less(ttl[c])]
  /\ login' = [c \in Codes |-> IF ttl'[c] = 0 THEN Absent ELSE login[c]]
  /\ left' = [p \in Pages |-> IF page[p] = "open" THEN Less(left[p]) ELSE left[p]]
  /\ due' = [p \in Pages |-> due[p] \/ page[p] = "open"]
  /\ UNCHANGED <<users, page, pcode, shown, token, calls, answered>>

Next ==
  \/ \E p \in Pages : \/ \E c \in Codes : GenerateLoginCode(p, c)
                      \/ OpenStream(p) \/ Poll(p) \/ Timeout(p) \/ Drop(p)
  \/ \E m \in Messages : \/ \E c \in Codes, o \in OpenIds : GetLoginCode(m, c, o)
                         \/ Handle(m) \/ FailMessage(m)
  \/ Tick

\* Time passes, a callback runs to its end, and a select with the timeout ready
\* takes it in the end (it chooses at random).  Nobody has to ask, open a stream
\* or send a message, and a poll may fail each time.
Fairness ==
  /\ WF_vars(Tick)
  /\ \A p \in Pages : WF_vars(Timeout(p))
  /\ \A m \in Messages : WF_vars(Handle(m))

Spec == Init /\ [][Next]_vars
FairSpec == Spec /\ Fairness

-----------------------------------------------------------------------------
(* Properties *)

\* Every code, page and message has its type; Redis keeps no dead code.
TypeOK ==
  /\ login \in [Codes -> OpenIds \cup {Absent, Waiting}]
  /\ ttl \in [Codes -> 0 .. Life]
  /\ users \in SUBSET OpenIds
  /\ page \in [Pages -> PageStates]
  /\ pcode \in [Pages -> Codes \cup {None}]
  /\ left \in [Pages -> 0 .. Life]
  /\ due \in [Pages -> BOOLEAN]
  /\ shown \in [Pages -> {"nothing", "waiting", "success", "expired"}]
  /\ token \in [Pages -> OpenIds \cup {None}]
  /\ msg \in [Messages -> MsgStates]
  /\ text \in [Messages -> [code : Codes, openid : OpenIds] \cup {None}]
  /\ answered \in [Pages -> SUBSET OpenIds]
  /\ \A c \in Codes : login[c] = Absent <=> ttl[c] = 0

\* The token a page receives is of a user whose message marked its code after the
\* page asked for it: what is left of an earlier life of the same five digits
\* never logs a page in.
TokenAnswered == \A p \in Pages : shown[p] = "success" => token[p] \in answered[p]

\* A token is of a user in the table: the row is there before the code is marked.
KnownUser ==
  /\ \A c \in Codes : login[c] \in OpenIds => login[c] \in users
  /\ \A p \in Pages : token[p] # None => token[p] \in users

\* Two clocks measure five minutes, Redis from the code and the server from the
\* stream.  A page whose code is its own is not told that it has expired while
\* the code still waits.
ExpiredInTime ==
  [][\A p \in Pages :
        shown'[p] = "expired" /\ shown[p] # "expired" =>
          \/ login[pcode[p]] # Waiting
          \/ \E q \in Pages \ {p} : pcode[q] = pcode[p]]_vars

\* Every stream comes to an end, even when no read of its code ever succeeds.
StreamEnds == \A p \in Pages : page[p] = "open" ~> page[p] # "open"

\* Every message gets a reply.
MessageReplied == \A m \in Messages : msg[m] = "lookup" ~> msg[m] \in Replies

\* A user told that the login succeeded, whose mark on the code her page waits for
\* is still there, does not meet the page saying that the code has expired.  (The
\* reply promises that she can go on in the browser; the page may have given up.)
SuccessNotExpired ==
  \A p \in Pages, m \in Messages :
    /\ msg[m] = "success" /\ text[m].code = pcode[p]
    /\ text[m].openid \in answered[p] /\ login[pcode[p]] = text[m].openid
    => shown[p] # "expired"

-----------------------------------------------------------------------------
(* The inductive invariant behind the safety properties *)

Listening == {"asked", "open", "dropped"}

\* The mark on a listening page's code was put there since the page asked.
MarkedSince ==
  \A p \in Pages :
    /\ page[p] = "new" => pcode[p] = None
    /\ page[p] \in Listening =>
         pcode[p] \in Codes /\ (login[pcode[p]] \in OpenIds => login[pcode[p]] \in answered[p])

\* A waiting code of one page only does not outlive its stream.
StreamOutlives ==
  \A p \in Pages :
    page[p] = "open" /\ login[pcode[p]] = Waiting /\ (\A q \in Pages \ {p} : pcode[q] # pcode[p])
      => ttl[pcode[p]] <= left[p]

\* A callback past the lookup knows its message, and its user before it writes.
CallsPlaced ==
  \A m \in Messages :
    /\ msg[m] \in {"lookup", "create", "write"} => text[m] \in [code : Codes, openid : OpenIds]
    /\ msg[m] = "write" => text[m].openid \in users

IInv == TypeOK /\ TokenAnswered /\ KnownUser /\ MarkedSince /\ StreamOutlives /\ CallsPlaced
=============================================================================
