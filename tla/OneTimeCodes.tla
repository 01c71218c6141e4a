---------------------------- MODULE OneTimeCodes ----------------------------
(***************************************************************************)
(* The one-time codes of the SMS login, for one phone number: the handlers *)
(* request-code and verify-code of auth.controller.js, the three places a  *)
(* code is kept in (the mirror in memory, the column 2FA of the table      *)
(* Subscribe, the sheet), and the sliding window that limits requests.     *)
(*                                                                         *)
(* Requests of several devices overlap: the column is read, cleared and    *)
(* written by separate statements, and the mirror is touched before and    *)
(* after them.  A code stands for the request that generated it.           *)
(***************************************************************************)
EXTENDS Integers, FiniteSets, Sequences

CONSTANTS
  Codes,      \* the codes of all requests
  NoCode,
  Checks,     \* verify-code requests that may be in flight together
  MaxSends,   \* AUTH_CODE_REQUEST_RATE_LIMIT_MAX_PER_USER
  MaxTries,   \* AUTH_CODE_LOCAL_MAX_ATTEMPTS
  MaxChecks,  \* AUTH_CODE_VERIFY_RATE_LIMIT_MAX_PER_USER; one window
  MaxLosses   \* bound: statements, gateways and processes that fail

ASSUME CodesAssumption ==
  /\ NoCode \notin Codes
  /\ MaxSends \in Nat \ {0} /\ MaxTries \in Nat \ {0}
  /\ MaxChecks \in Nat /\ MaxLosses \in Nat

VARIABLES
  asked,       \* each request-code: what became of it, its UPDATE and its SMS
  latest,      \* the request that generated a code last
  sendWindow,  \* authCodeRequestRateLimitByUser: the requests counted, in order
  aged,        \* requests made longer than the window ago
  mirror,      \* the entry of localAuthCodeStore
  column,      \* Subscribe.2FA
  expired,     \* codes older than AUTH_CODE_TTL_SECONDS
  check,       \* each verify-code request in flight
  checked,     \* verify-code requests counted in their window
  quiet,       \* history: since the last request nothing else was in flight and
               \* no check matched
  losses

codesVars == <<asked, latest, sendWindow, aged, mirror, column, expired,
               check, checked, quiet, losses>>
askVars   == <<asked, latest, sendWindow, aged, expired>>

NoMirror == [code |-> NoCode, left |-> 0]
NotAsked == [state |-> "new", db |-> "none", sms |-> "none"]
NoCheck  == [state |-> "idle", code |-> NoCode]

CodesInit ==
  /\ asked = [c \in Codes |-> NotAsked] /\ latest = NoCode
  /\ sendWindow = << >> /\ aged = {}
  /\ mirror = NoMirror /\ column = NoCode
  /\ expired = {} /\ quiet = "no"
  /\ check = [k \in Checks |-> NoCheck] /\ checked = 0
  /\ losses = 0

Lose == losses < MaxLosses /\ losses' = losses + 1
InFlight == \/ \E k \in Checks : check[k].state # "idle"
            \/ \E c \in Codes : asked[c].db = "pending"
\* A code that can still be verified without the sheet.
Verifiable(c) == column = c \/ mirror.code = c

-----------------------------------------------------------------------------
(* request-code.                                                           *)

\* consumeRateLimitEntry: what is left of the window.  Its requests age in the
\* order they were made.
CountedInWindow ==
  LET old == {i \in 1..Len(sendWindow) : sendWindow[i] \in aged}
  IN  SubSeq(sendWindow, Cardinality(old) + 1, Len(sendWindow))

\* Refused by the window, or, already counted, because a session exists.
RefuseRequest(c) ==
  /\ asked[c] = NotAsked
  /\ \/ /\ Len(CountedInWindow) >= MaxSends /\ sendWindow' = CountedInWindow
     \/ /\ Len(CountedInWindow) < MaxSends /\ sendWindow' = Append(CountedInWindow, c)
  /\ asked' = [asked EXCEPT ![c].state = "refused"]
  /\ UNCHANGED <<latest, aged, mirror, column, expired, check, checked,
                 quiet, losses>>

\* mutated: the code is not mirrored.
RequestUnmirrored(c) ==
  /\ asked[c] = NotAsked
  /\ Len(CountedInWindow) < MaxSends
  /\ sendWindow' = Append(CountedInWindow, c)
  /\ asked' = [asked EXCEPT ![c] = [state |-> "open", db |-> "pending", sms |-> "pending"]]
  /\ latest' = c
  /\ quiet' = IF InFlight THEN "no" ELSE "yes"
  /\ UNCHANGED <<aged, mirror, column, expired, check, checked, losses>>

\* The code is mirrored before anything is awaited; then its UPDATE and its
\* SMS run side by side, with whatever else is in flight.
RequestCode(c) ==
  /\ asked[c] = NotAsked
  /\ Len(CountedInWindow) < MaxSends
  /\ sendWindow' = Append(CountedInWindow, c)
  /\ asked' = [asked EXCEPT ![c] = [state |-> "open", db |-> "pending", sms |-> "pending"]]
  /\ latest' = c
  /\ mirror' = [code |-> c, left |-> MaxTries]
  /\ quiet' = IF InFlight THEN "no" ELSE "yes"
  /\ UNCHANGED <<aged, column, expired, check, checked, losses>>

\* setAuthCode.
SaveCode(c) ==
  /\ asked[c].db = "pending"
  /\ asked' = [asked EXCEPT ![c].db = "saved"]
  /\ column' = c
  /\ UNCHANGED <<latest, sendWindow, aged, mirror, expired, check, checked,
                 quiet, losses>>

SaveFails(c) ==
  /\ asked[c].db = "pending"
  /\ asked' = [asked EXCEPT ![c].db = "failed"]
  /\ Lose
  /\ UNCHANGED <<latest, sendWindow, aged, mirror, column, expired, check,
                 checked, quiet>>

SendSms(c) ==
  /\ asked[c].sms = "pending"
  /\ asked' = [asked EXCEPT ![c].sms = "sent"]
  /\ UNCHANGED <<latest, sendWindow, aged, mirror, column, expired, check,
                 checked, quiet, losses>>

AnswerRequest(c) ==
  /\ asked[c].state = "open"
  /\ asked[c].db # "pending" /\ asked[c].sms = "sent"
  /\ asked' = [asked EXCEPT ![c].state = "answered"]
  /\ UNCHANGED <<latest, sendWindow, aged, mirror, column, expired, check,
                 checked, quiet, losses>>

\* The gateway refuses or times out: rollbackRateLimitEntry takes the newest
\* entry back, whoever made it.  The UPDATE goes on.
Rollback == IF sendWindow = << >> THEN sendWindow
            ELSE SubSeq(sendWindow, 1, Len(sendWindow) - 1)
SmsFails(c) ==
  /\ asked[c].sms = "pending"
  /\ asked' = [asked EXCEPT ![c].sms = "failed", ![c].state = "failed"]
  /\ sendWindow' = Rollback
  /\ Lose
  /\ UNCHANGED <<latest, aged, mirror, column, expired, check, checked,
                 quiet>>

-----------------------------------------------------------------------------
(* verify-code.                                                            *)

BeginCheck(k, c) ==
  /\ check[k] = NoCheck /\ checked < MaxChecks
  /\ check' = [check EXCEPT ![k] = [state |-> "reading", code |-> c]]
  /\ checked' = checked + 1
  /\ UNCHANGED <<askVars, mirror, column, quiet, losses>>

MatchesColumn(c) == column = c /\ c \notin expired

\* verifyAuthCode reads the column ...
ReadColumn(k) ==
  /\ check[k].state = "reading"
  /\ check' = [check EXCEPT ![k].state =
       IF MatchesColumn(check[k].code) THEN "matched" ELSE "mismatch"]
  /\ quiet' = IF MatchesColumn(check[k].code) THEN "no" ELSE quiet
  /\ UNCHANGED <<askVars, mirror, column, checked, losses>>

ReadColumnFails(k) ==
  /\ check[k].state = "reading"
  /\ check' = [check EXCEPT ![k].state = "unavailable"]
  /\ Lose
  /\ UNCHANGED <<askVars, mirror, column, checked, quiet>>

\* ... and clears it, whatever it holds by now; an error is not fatal.
ClearColumn(k) ==
  /\ check[k].state = "matched"
  /\ check' = [check EXCEPT ![k].state = "verified"]
  /\ \/ column' = NoCode /\ UNCHANGED losses
     \/ Lose /\ UNCHANGED column
  /\ UNCHANGED <<askVars, mirror, checked, quiet>>

\* The mirror goes too, whatever it holds, and the session is created.
Accept(k) ==
  /\ check[k].state = "verified"
  /\ check' = [check EXCEPT ![k] = NoCheck]
  /\ mirror' = NoMirror
  /\ UNCHANGED <<askVars, column, checked, quiet, losses>>

\* verifyAuthCodeLocally.
MatchesMirror(c) == mirror.code = c /\ c \notin expired
MirrorAfter(c) ==
  IF mirror.code \in expired \/ mirror.code = c \/ mirror.left <= 1
  THEN NoMirror ELSE [mirror EXCEPT !.left = @ - 1]

\* A mismatch ends with the mirror; an unreadable column may still ask the sheet.
CheckMirror(k) ==
  /\ check[k].state \in {"mismatch", "unavailable"}
  /\ LET c == check[k].code IN
     /\ mirror' = MirrorAfter(c)
     /\ quiet' = IF MatchesMirror(c) THEN "no" ELSE quiet
     /\ check' = [check EXCEPT ![k] =
          IF ~MatchesMirror(c) /\ @.state = "unavailable"
          THEN [state |-> "sheet", code |-> c] ELSE NoCheck]
  /\ UNCHANGED <<askVars, column, checked, losses>>

\* Each code is sent to the sheet in the background once its UPDATE has ended;
\* which of them the sheet's script accepts is not the server's say.
AskSheet(k) ==
  /\ check[k].state = "sheet"
  /\ check' = [check EXCEPT ![k] = NoCheck]
  /\ \/ asked[check[k].code].db \in {"saved", "failed"} /\ quiet' = "no"
     \/ UNCHANGED quiet
  /\ UNCHANGED <<askVars, mirror, column, checked, losses>>

-----------------------------------------------------------------------------
(* Time and failures.                                                      *)

\* Requests leave the window in the order they were made.
Ages(c) ==
  /\ \E i \in 1..Len(sendWindow) : sendWindow[i] = c /\ \A j \in 1..(i-1) : sendWindow[j] \in aged
  /\ c \notin aged
  /\ aged' = aged \cup {c}
  /\ UNCHANGED <<asked, latest, sendWindow, mirror, column, expired, check,
                 checked, quiet, losses>>

Expires(c) ==
  /\ asked[c].state \in {"open", "answered"} /\ c \notin expired
  /\ expired' = expired \cup {c}
  /\ UNCHANGED <<asked, latest, sendWindow, aged, mirror, column, check,
                 checked, quiet, losses>>

\* Memory is lost, and with it every request in flight.
RestartServer ==
  /\ Lose
  /\ mirror' = NoMirror /\ sendWindow' = << >>
  /\ asked' = [c \in Codes |->
       [asked[c] EXCEPT !.state = IF @ = "open" THEN "failed" ELSE @,
                        !.db = IF @ = "pending" THEN "failed" ELSE @,
                        !.sms = IF @ = "pending" THEN "failed" ELSE @]]
  /\ check' = [k \in Checks |-> NoCheck]
  /\ UNCHANGED <<latest, aged, column, expired, checked, quiet>>

\* The script behind the sheet writes the column as well.
ColumnOverwritten ==
  /\ column # NoCode
  /\ Lose
  /\ column' = NoCode
  /\ UNCHANGED <<askVars, mirror, check, checked, quiet>>

CodesNext ==
  \/ \E c \in Codes :
       \/ RefuseRequest(c) \/ RequestCode(c) \/ SaveCode(c) \/ SaveFails(c)
       \/ SendSms(c) \/ AnswerRequest(c) \/ SmsFails(c)
       \/ Ages(c) \/ Expires(c)
       \/ \E k \in Checks : BeginCheck(k, c)
  \/ \E k \in Checks :
       \/ ReadColumn(k) \/ ReadColumnFails(k) \/ ClearColumn(k)
       \/ Accept(k) \/ CheckMirror(k) \/ AskSheet(k)
  \/ RestartServer \/ ColumnOverwritten

CodesSpec == CodesInit /\ [][CodesNext]_codesVars

-----------------------------------------------------------------------------
(* Properties.                                                             *)

\* Every variable has its type; a mirrored code has attempts left.
CodesTypeOK ==
  /\ asked \in [Codes -> [state : {"new", "refused", "open", "answered", "failed"},
                          db : {"none", "pending", "saved", "failed"},
                          sms : {"none", "pending", "sent", "failed"}]]
  /\ latest \in Codes \cup {NoCode}
  /\ sendWindow \in Seq(Codes) /\ Len(sendWindow) <= MaxSends
  /\ aged \subseteq Codes /\ expired \subseteq Codes
  /\ \/ mirror = NoMirror
     \/ mirror \in [code : Codes, left : 1..MaxTries]
  /\ column \in Codes \cup {NoCode}
  /\ check \in [Checks -> [state : {"idle", "reading", "matched", "mismatch",
                                    "verified", "unavailable", "sheet"},
                           code : Codes \cup {NoCode}]]
  /\ checked \in 0..MaxChecks
  /\ quiet \in {"yes", "no"}
  /\ losses \in 0..MaxLosses

\* The code of the last request, once that was answered with success, is kept
\* in two places, and no single failure loses it: an UPDATE that fails, a
\* restart, or the sheet's script.  (Two requests in flight together, a check
\* that matches in between, and too many attempts do.)
AnsweredCodeVerifies ==
  /\ latest # NoCode
  /\ asked[latest].state = "answered" /\ latest \notin expired
  /\ quiet = "yes" /\ losses <= 1 /\ checked < MaxTries
  => Verifiable(latest)
=============================================================================
