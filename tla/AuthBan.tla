------------------------------ MODULE AuthBan ------------------------------
(***************************************************************************)
(* How the server bans addresses that come with wrong keys                 *)
(* (cmd/server/auth.go), for one address: authFailures keeps every map by  *)
(* banKey, and no operation touches two keys.                              *)
(*                                                                         *)
(* The check for a ban and the record of the outcome are two critical      *)
(* sections with a handshake of up to handshakeTimeout between them, so    *)
(* connections that passed the check may end while a ban is in force.      *)
(*                                                                         *)
(* The maps hold times; the model holds their ages, which stop growing at  *)
(* the first value that makes no difference.  The unit of time is the      *)
(* janitor's interval: the janitor runs once between two ticks, before or  *)
(* after anything else that happens there.                                 *)
(***************************************************************************)
EXTENDS Integers

CONSTANTS
  Conns,
  MaxAuthFailures,
  Handshake,       \* handshakeTimeout, rounded up
  BanDuration,     \* authBanDuration
  FailureMemory,   \* authFailureMemory
  Trust            \* authTrustAfterSuccess

ASSUME AuthBanAssumption ==
  /\ MaxAuthFailures \in Nat \ {0}
  /\ Handshake \in Nat \ {0} /\ BanDuration \in Nat
  /\ FailureMemory \in Nat /\ Trust \in Nat
  /\ Handshake < BanDuration

Never == -1   \* there is no entry in the map

VARIABLES
  count,        \* authFailures.count, up to MaxAuthFailures
  lastFailure,
  banned,       \* the age of the entry in bannedUntil
  banLogged,
  lastSuccess,
  handshakes,   \* per connection, the time since it passed the check
  cleaned,      \* the janitor has run since the last tick
  silent,       \* nobody connects from the address any more
  \* history
  streak,       \* wrong keys since the last login or ban, up to MaxAuthFailures
  sinceLogin,   \* time since the last successful login
  shut          \* time since the door was shut by the ban in force

banVars  == <<count, lastFailure, banned, banLogged>>
histVars == <<streak, sinceLogin, shut>>
vars == <<banVars, lastSuccess, handshakes, cleaned, silent, histVars>>

Ages(limit) == {Never} \union 0 .. limit + 1

(* A ban is remembered with the count that led to it, and a rejection is   *)
(* logged only for a ban.                                                  *)
TypeOK ==
  /\ count \in 0 .. MaxAuthFailures
  /\ lastFailure \in Ages(FailureMemory)
  /\ banned \in Ages(BanDuration)
  /\ banLogged \in BOOLEAN
  /\ lastSuccess \in Ages(Trust)
  /\ handshakes \in [Conns -> {Never} \union 0 .. Handshake]
  /\ cleaned \in BOOLEAN /\ silent \in BOOLEAN
  /\ streak \in 0 .. MaxAuthFailures
  /\ sinceLogin \in Ages(Trust)
  /\ shut \in Ages(BanDuration + Handshake)
  /\ count = 0 <=> lastFailure = Never
  /\ banned # Never => count = MaxAuthFailures
  /\ banLogged => banned # Never

Init ==
  /\ count = 0 /\ lastFailure = Never /\ banned = Never /\ banLogged = FALSE
  /\ lastSuccess = Never
  /\ handshakes = [c \in Conns |-> Never]
  /\ cleaned = FALSE /\ silent = FALSE
  /\ streak = 0 /\ sinceLogin = Never /\ shut = Never

-----------------------------------------------------------------------------
Lesser(a, b) == IF a < b THEN a ELSE b

Expired == banned > BanDuration

\* Variant with a bug: only the ban is lifted, the count stays.
LiftBan ==
  /\ banned' = Never /\ banLogged' = FALSE
  /\ UNCHANGED <<count, lastFailure>>

clearBanLocked ==
  /\ count' = 0 /\ lastFailure' = Never
  /\ banned' = Never /\ banLogged' = FALSE

(* checkAuth up to the handshake: checkAuthBan lets a connection pass if   *)
(* there is no ban, or the ban has expired.                                *)
\* Variant with a bug: a ban turns away only the first connection.
OnlyFirst == banned # Never /\ ~Expired /\ ~banLogged
IsBanned  == banned # Never /\ ~Expired

Reject(c) ==
  /\ ~silent /\ handshakes[c] = Never
  /\ IsBanned
  /\ banLogged' = TRUE
  /\ UNCHANGED <<count, lastFailure, banned, lastSuccess, handshakes, cleaned,
                 silent, histVars>>

Pass(c) ==
  /\ ~silent /\ handshakes[c] = Never
  /\ ~IsBanned
  /\ handshakes' = [handshakes EXCEPT ![c] = 0]
  /\ IF Expired THEN clearBanLocked /\ shut' = Never
                ELSE UNCHANGED <<banVars, shut>>
  /\ UNCHANGED <<lastSuccess, cleaned, silent, streak, sinceLogin>>

-----------------------------------------------------------------------------
(* The end of the handshake.                                               *)
Ends(c) ==
  /\ handshakes[c] # Never
  /\ handshakes' = [handshakes EXCEPT ![c] = Never]
  /\ UNCHANGED <<cleaned, silent>>

(* recordAuthFailure: the last of too many failures bans, unless somebody  *)
(* has logged in from there.                                               *)
IsTooMany(n) == n >= MaxAuthFailures

IsTrusted == lastSuccess # Never /\ lastSuccess < Trust

WrongKey(c) ==
  /\ Ends(c)
  /\ count' = Lesser(count + 1, MaxAuthFailures)
  /\ lastFailure' = 0
  /\ streak' = Lesser(streak + 1, MaxAuthFailures)
  /\ IF IsTooMany(count') /\ ~IsTrusted
       THEN /\ banned' = 0
            /\ shut' = IF banned = Never THEN 0 ELSE shut
       ELSE UNCHANGED <<banned, shut>>
  /\ UNCHANGED <<banLogged, lastSuccess, sinceLogin>>

(* A broken connection, or the deadline: does not count. *)
NetworkError(c) ==
  /\ Ends(c)
  /\ UNCHANGED <<banVars, lastSuccess, histVars>>

(* recordAuthSuccess *)
\* Variant with a bug: a ban set during the handshake stays.
KeepBan == UNCHANGED banVars
ForgetFailures == clearBanLocked

Success(c) ==
  /\ Ends(c)
  /\ ForgetFailures
  /\ lastSuccess' = 0
  /\ streak' = 0 /\ sinceLogin' = 0 /\ shut' = Never

-----------------------------------------------------------------------------
(* cleanupAuthFailures, called by the janitor: expired bans first, then    *)
(* old failures, then old logins.                                          *)
\* Variant with a bug: a ban is over a moment too early.
AlmostOver == banned >= BanDuration
BanIsOver == banned # Never /\ Expired

\* Variant with a bug: the janitor looks at bans only.
KeepFailures == FALSE
FailureIsOld == banned = Never /\ lastFailure > FailureMemory

Cleanup ==
  /\ ~cleaned /\ cleaned' = TRUE
  /\ IF BanIsOver THEN clearBanLocked /\ shut' = Never
     ELSE IF FailureIsOld THEN count' = 0 /\ lastFailure' = Never
                               /\ UNCHANGED <<banned, banLogged, shut>>
     ELSE UNCHANGED <<banVars, shut>>
  /\ lastSuccess' = IF lastSuccess > Trust THEN Never ELSE lastSuccess
  /\ UNCHANGED <<handshakes, silent, streak, sinceLogin>>

-----------------------------------------------------------------------------
Older(age, limit) == IF age = Never THEN Never ELSE Lesser(age + 1, limit + 1)

(* A handshake ends before its deadline. *)
Tick ==
  /\ cleaned /\ cleaned' = FALSE
  /\ \A c \in Conns : handshakes[c] < Handshake
  /\ handshakes' = [c \in Conns |-> Older(handshakes[c], Handshake - 1)]
  /\ lastFailure' = Older(lastFailure, FailureMemory)
  /\ banned' = Older(banned, BanDuration)
  /\ lastSuccess' = Older(lastSuccess, Trust)
  /\ streak' = IF banned' > BanDuration THEN 0 ELSE streak
  /\ sinceLogin' = Older(sinceLogin, Trust)
  /\ shut' = Older(shut, BanDuration + Handshake)
  /\ UNCHANGED <<count, banLogged, silent>>

GoSilent ==
  /\ ~silent /\ silent' = TRUE
  /\ UNCHANGED <<banVars, lastSuccess, handshakes, cleaned, histVars>>

Outcome(c) == WrongKey(c) \/ NetworkError(c) \/ Success(c)

Next ==
  \/ \E c \in Conns : Reject(c) \/ Pass(c) \/ WrongKey(c) \/ NetworkError(c) \/ Success(c)
  \/ Cleanup \/ Tick \/ GoSilent

Spec == Init /\ [][Next]_vars

(* The clock goes on, the janitor has its ticker, and the deadline ends    *)
(* every handshake.                                                        *)
FairSpec ==
  /\ Spec
  /\ WF_vars(Tick) /\ WF_vars(Cleanup)
  /\ \A c \in Conns : WF_vars(Outcome(c))

-----------------------------------------------------------------------------
(* A ban shuts the door: connections that passed the check before it was   *)
(* set may still be served, but not for longer than a handshake may take   *)
(* (auth.go:78-94, 157-163, 179-183).                                      *)
BansCloseTheDoor ==
  banned # Never /\ ~Expired /\ shut > Handshake => \A c \in Conns : handshakes[c] = Never

(* No ban on an address somebody has logged in from within Trust, even if  *)
(* the login and the wrong keys were under way at the same time            *)
(* (auth.go:21-25, 106-112, 118-123).                                      *)
TrustedAreNotBanned ==
  banned # Never => sinceLogin = Never \/ sinceLogin >= Trust

(* A ban takes MaxAuthFailures wrong keys of its own: none that led to an  *)
(* earlier ban or came before a login counts again (auth.go:69-76,         *)
(* 129-134).                                                               *)
BansNeedAStreak ==
  [][banned = Never /\ banned' # Never => streak' = MaxAuthFailures]_vars

(* Failures that were under way when the door was shut prolong the ban,    *)
(* by no more than a handshake may take (auth.go:113-114).                 *)
BansEndInTime == shut > BanDuration + Handshake => Expired

(* A ban ends with its time or with a login, not otherwise: neither the    *)
(* janitor nor a rejected connection lifts it (auth.go:86-93, 129-134).    *)
BansLast ==
  [][banned # Never /\ ~Expired /\ banned' = Never => sinceLogin' = 0]_vars

(* The maps do not grow for ever: an address nobody connects from any more *)
(* leaves no trace (auth.go:125-147).                                      *)
NothingIsLeft == count = 0 /\ lastFailure = Never /\ banned = Never /\ lastSuccess = Never
EverythingIsForgotten == silent ~> NothingIsLeft
=============================================================================
