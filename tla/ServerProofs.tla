---------------------------- MODULE ServerProofs ----------------------------
(***************************************************************************)
(* The two parts of the server that keep state across connections, or      *)
(* across starts: AuthBan, for any number of connections, any limit and    *)
(* any times with Handshake < BanDuration, and Firewall.                   *)
(*                                                                         *)
(* Of AuthBan none of the properties is inductive.  What makes them so is  *)
(* how old things are relative to each other: a handshake under way beside *)
(* a ban began before the door was shut (OldHandshakes), hence a failure   *)
(* that prolongs the ban comes within Handshake of that moment             *)
(* (ShortProlongation); the map of logins agrees with the true time of the *)
(* last login as long as it matters (LoginKept); and without a ban every   *)
(* failure counted is one since the last login or ban (CountIsHonest).     *)
(***************************************************************************)
EXTENDS AuthBan, MCRestarts, Sequences, WellFoundedInduction, TLAPS

ShutWithBan == shut = Never <=> banned = Never

OldHandshakes ==
  banned # Never =>
    \A c \in Conns : handshakes[c] # Never => shut <= handshakes[c]

ShortProlongation ==
  banned # Never /\ ~Expired => shut <= banned + Handshake

LoginKept ==
  \/ lastSuccess = sinceLogin
  \/ lastSuccess = Never /\ sinceLogin > Trust

CountIsHonest == banned = Never => count <= streak

IInv ==
  /\ TypeOK
  /\ ShutWithBan
  /\ OldHandshakes
  /\ ShortProlongation
  /\ LoginKept
  /\ TrustedAreNotBanned
  /\ CountIsHonest

(* TypeOK in two parts: the flags, and the rest. *)
Flags ==
  /\ banLogged \in BOOLEAN /\ cleaned \in BOOLEAN /\ silent \in BOOLEAN
  /\ banLogged => banned # Never

Shape ==
  /\ count \in 0 .. MaxAuthFailures
  /\ lastFailure \in Ages(FailureMemory)
  /\ banned \in Ages(BanDuration)
  /\ lastSuccess \in Ages(Trust)
  /\ handshakes \in [Conns -> {Never} \union 0 .. Handshake]
  /\ streak \in 0 .. MaxAuthFailures
  /\ sinceLogin \in Ages(Trust)
  /\ shut \in Ages(BanDuration + Handshake)
  /\ count = 0 <=> lastFailure = Never
  /\ banned # Never => count = MaxAuthFailures

LEMMA TypeParts == TypeOK <=> Flags /\ Shape
  BY Zenon DEF TypeOK, Flags, Shape

LEMMA TypePartsPrimed == TypeOK' <=> Flags' /\ Shape'
  BY Zenon DEF TypeOK, Flags, Shape

(* The program starts with empty maps (auth.go:32-47). *)
LEMMA InitIInv == Init => IInv
<1> SUFFICES ASSUME Init PROVE IInv
  OBVIOUS
<1>2. handshakes \in [Conns -> {Never} \union 0 .. Handshake]
  BY DEF Init
<1>3. TypeOK
  <2>1. Flags
    BY Zenon DEF Init, Flags
  <2>2. Shape
    BY <1>2, AuthBanAssumption DEF Init, Shape, Ages, Never
  <2> QED
    BY <2>1, <2>2, TypeParts
<1>4. /\ ShutWithBan /\ OldHandshakes /\ ShortProlongation /\ LoginKept
      /\ TrustedAreNotBanned /\ CountIsHonest
  BY DEF Init, Never, ShutWithBan, OldHandshakes, ShortProlongation, LoginKept,
      TrustedAreNotBanned, CountIsHonest
<1> QED
  BY <1>3, <1>4 DEF IInv

LEMMA RejectIInv ==
  ASSUME IInv, NEW c \in Conns, Reject(c)
  PROVE  IInv'
  BY AuthBanAssumption
  DEF Reject, histVars, IsBanned, Expired, IInv, TypeOK, Ages, Never, ShutWithBan,
      OldHandshakes, ShortProlongation, LoginKept, TrustedAreNotBanned, CountIsHonest

LEMMA PassIInv ==
  ASSUME IInv, NEW c \in Conns, Pass(c)
  PROVE  IInv'
<1> USE AuthBanAssumption
<1>1. handshakes' \in [Conns -> {Never} \union 0 .. Handshake]
  BY DEF Pass, IInv, TypeOK
<1>2. TypeOK'
  <2>1. Flags'
    <3>1. Flags
      BY TypeParts DEF IInv
    <3> QED
      BY <3>1, Zenon DEF Pass, clearBanLocked, banVars, Flags
  <2>2. Shape'
    <3>1. Shape
      BY TypeParts DEF IInv
    <3> QED
      BY <1>1, <3>1 DEF Pass, clearBanLocked, banVars, Shape, Ages, Never
  <2> QED
    BY <2>1, <2>2, TypePartsPrimed
<1>3. ShutWithBan' /\ ShortProlongation'
  BY DEF Pass, clearBanLocked, banVars, IsBanned, Expired, IInv, TypeOK, Ages, Never,
         ShutWithBan, ShortProlongation
<1>4. OldHandshakes'
  BY DEF Pass, clearBanLocked, banVars, IsBanned, Expired, IInv, TypeOK, Ages, Never,
         OldHandshakes
<1>5. LoginKept' /\ TrustedAreNotBanned'
  BY DEF Pass, clearBanLocked, banVars, IsBanned, Expired, IInv, TypeOK, Ages, Never,
         LoginKept, TrustedAreNotBanned
<1>6. CountIsHonest'
  BY DEF Pass, clearBanLocked, banVars, IsBanned, Expired, IInv, TypeOK, Ages, Never,
         CountIsHonest
<1> QED
  BY <1>2, <1>3, <1>4, <1>5, <1>6 DEF IInv

LEMMA WrongKeyIInv ==
  ASSUME IInv, NEW c \in Conns, WrongKey(c)
  PROVE  IInv'
<1> USE AuthBanAssumption
<1>1. TypeOK'
  BY DEF WrongKey, Ends, Lesser, IsTooMany, IInv, TypeOK, Ages, Never, ShutWithBan
<1>2. shut <= Handshake \/ banned = Never
  BY DEF WrongKey, Ends, IInv, TypeOK, Ages, Never, OldHandshakes
<1>3. ShutWithBan'
  BY DEF WrongKey, IInv, TypeOK, Ages, Never, ShutWithBan
<1>4. OldHandshakes'
  BY DEF WrongKey, Ends, IInv, TypeOK, Ages, Never, OldHandshakes
<1>5. ShortProlongation'
  BY <1>2 DEF WrongKey, IInv, TypeOK, Ages, Never, Expired, ShortProlongation
<1>6. LoginKept' /\ TrustedAreNotBanned'
  BY DEF WrongKey, IsTrusted, IInv, TypeOK, Ages, Never, LoginKept, TrustedAreNotBanned
<1>7. CountIsHonest'
  BY DEF WrongKey, Lesser, IInv, TypeOK, Ages, Never, CountIsHonest
<1> QED
  BY <1>1, <1>3, <1>4, <1>5, <1>6, <1>7 DEF IInv

LEMMA NetworkErrorIInv ==
  ASSUME IInv, NEW c \in Conns, NetworkError(c)
  PROVE  IInv'
<1> USE AuthBanAssumption
<1>1. handshakes' \in [Conns -> {Never} \union 0 .. Handshake]
  BY DEF NetworkError, Ends, IInv, TypeOK
<1>2. TypeOK'
  BY <1>1 DEF NetworkError, Ends, banVars, histVars, Expired, IInv, TypeOK, Ages, Never
<1>3. ShutWithBan' /\ ShortProlongation'
  BY DEF NetworkError, Ends, banVars, histVars, Expired, IInv, TypeOK, Ages, Never,
         ShutWithBan, ShortProlongation
<1>4. OldHandshakes'
  BY DEF NetworkError, Ends, banVars, histVars, Expired, IInv, TypeOK, Ages, Never,
         OldHandshakes
<1>5. LoginKept' /\ TrustedAreNotBanned'
  BY DEF NetworkError, Ends, banVars, histVars, Expired, IInv, TypeOK, Ages, Never,
         LoginKept, TrustedAreNotBanned
<1>6. CountIsHonest'
  BY DEF NetworkError, Ends, banVars, histVars, Expired, IInv, TypeOK, Ages, Never,
         CountIsHonest
<1> QED
  BY <1>2, <1>3, <1>4, <1>5, <1>6 DEF IInv

LEMMA SuccessIInv ==
  ASSUME IInv, NEW c \in Conns, Success(c)
  PROVE  IInv'
<1> USE AuthBanAssumption
<1>1. handshakes' \in [Conns -> {Never} \union 0 .. Handshake]
  BY DEF Success, Ends, IInv, TypeOK
<1>2. TypeOK'
  <2>1. Flags'
    <3>1. Flags
      BY TypeParts DEF IInv
    <3> QED
      BY <3>1, Zenon DEF Success, Ends, ForgetFailures, clearBanLocked, Flags
  <2>2. Shape'
    <3>1. Shape
      BY TypeParts DEF IInv
    <3> QED
      BY <1>1, <3>1 DEF Success, ForgetFailures, clearBanLocked, Shape, Ages, Never
  <2> QED
    BY <2>1, <2>2, TypePartsPrimed
<1>3. ShutWithBan' /\ ShortProlongation'
  BY DEF Success, Ends, ForgetFailures, clearBanLocked, Expired, IInv, TypeOK, Ages, Never,
         ShutWithBan, ShortProlongation
<1>4. OldHandshakes'
  BY DEF Success, Ends, ForgetFailures, clearBanLocked, Expired, IInv, TypeOK, Ages, Never,
         OldHandshakes
<1>5. LoginKept' /\ TrustedAreNotBanned'
  BY DEF Success, Ends, ForgetFailures, clearBanLocked, Expired, IInv, TypeOK, Ages, Never,
         LoginKept, TrustedAreNotBanned
<1>6. CountIsHonest'
  BY DEF Success, Ends, ForgetFailures, clearBanLocked, Expired, IInv, TypeOK, Ages, Never,
         CountIsHonest
<1> QED
  BY <1>2, <1>3, <1>4, <1>5, <1>6 DEF IInv

LEMMA CleanupIInv ==
  ASSUME IInv, Cleanup
  PROVE  IInv'
<1> USE AuthBanAssumption
<1>1. TypeOK'
  <2>1. Flags'
    <3>1. Flags
      BY TypeParts DEF IInv
    <3> QED
      BY <3>1, Zenon DEF Cleanup, clearBanLocked, banVars, Flags
  <2>2. Shape'
    <3>1. Shape
      BY TypeParts DEF IInv
    <3> QED
      BY <3>1 DEF Cleanup, BanIsOver, FailureIsOld, clearBanLocked, banVars, Expired, Shape, Ages, Never
  <2> QED
    BY <2>1, <2>2, TypePartsPrimed
<1>2. ShutWithBan' /\ OldHandshakes' /\ ShortProlongation'
  BY DEF Cleanup, BanIsOver, FailureIsOld, clearBanLocked, banVars, Expired, IInv, TypeOK, Ages,
         Never, ShutWithBan, OldHandshakes, ShortProlongation
<1>3. LoginKept' /\ TrustedAreNotBanned'
  BY DEF Cleanup, BanIsOver, FailureIsOld, clearBanLocked, banVars, Expired, IInv, TypeOK, Ages,
         Never, LoginKept, TrustedAreNotBanned
<1>4. CountIsHonest'
  BY DEF Cleanup, BanIsOver, FailureIsOld, clearBanLocked, banVars, Expired, IInv, TypeOK, Ages,
         Never, CountIsHonest
<1> QED
  BY <1>1, <1>2, <1>3, <1>4 DEF IInv

(* What the passing of time does to an age. *)
LEMMA OlderAge ==
  ASSUME NEW limit \in Int, limit >= -1, NEW age \in {Never} \union 0 .. limit + 1
  PROVE  /\ Older(age, limit) \in {Never} \union 0 .. limit + 1
         /\ Older(age, limit) = Never <=> age = Never
         /\ age # Never /\ age <= limit => Older(age, limit) = age + 1
         /\ age # Never /\ age > limit => Older(age, limit) = age
  BY DEF Older, Lesser, Never

LEMMA TickIInv ==
  ASSUME IInv, Tick
  PROVE  IInv'
<1> USE AuthBanAssumption
<1>1. /\ lastFailure' \in Ages(FailureMemory) /\ (lastFailure' = Never <=> lastFailure = Never)
      /\ banned' \in Ages(BanDuration) /\ (banned' = Never <=> banned = Never)
      /\ lastSuccess' \in Ages(Trust) /\ sinceLogin' \in Ages(Trust)
      /\ shut' \in Ages(BanDuration + Handshake) /\ (shut' = Never <=> shut = Never)
  BY OlderAge DEF Tick, IInv, TypeOK, Ages
<1>2. /\ \A c \in Conns : /\ handshakes'[c] \in {Never} \union 0 .. Handshake
                          /\ handshakes[c] = Never => handshakes'[c] = Never
                          /\ handshakes[c] # Never => handshakes'[c] = handshakes[c] + 1
      /\ handshakes' \in [Conns -> {Never} \union 0 .. Handshake]
  <2>1. ASSUME NEW c \in Conns
        PROVE  /\ Older(handshakes[c], Handshake - 1) \in {Never} \union 0 .. Handshake
               /\ handshakes[c] = Never => Older(handshakes[c], Handshake - 1) = Never
               /\ handshakes[c] # Never => Older(handshakes[c], Handshake - 1) = handshakes[c] + 1
    BY DEF Older, Lesser, Never, Tick, IInv, TypeOK
  <2>2. handshakes' = [c \in Conns |-> Older(handshakes[c], Handshake - 1)]
    BY DEF Tick
  <2> QED
    BY <2>1, <2>2
<1>3. streak' \in 0 .. MaxAuthFailures
  BY DEF Tick, IInv, TypeOK
<1>4. banned = Never => streak' = streak
  BY <1>1 DEF Tick, IInv, TypeOK, Never
<1>5. TypeOK'
  BY <1>1, <1>2, <1>3 DEF Tick, IInv, TypeOK
<1>6. ShutWithBan'
  BY <1>1 DEF IInv, ShutWithBan
<1>a. shut # Never => shut' <= shut + 1
  BY DEF Tick, IInv, TypeOK, Ages, Never, Older, Lesser
<1>b. banned # Never => banned' = banned + 1 \/ banned' = BanDuration + 1
  BY DEF Tick, IInv, TypeOK, Ages, Never, Older, Lesser
<1>c. /\ lastSuccess' = Older(lastSuccess, Trust) /\ sinceLogin' = Older(sinceLogin, Trust)
      /\ sinceLogin # Never => sinceLogin <= sinceLogin' /\ sinceLogin' # Never
      /\ lastSuccess = Never => lastSuccess' = Never
      /\ sinceLogin = Never => sinceLogin' = Never
  BY DEF Tick, IInv, TypeOK, Ages, Never, Older, Lesser
<1>7. OldHandshakes'
  BY <1>1, <1>2, <1>a DEF IInv, TypeOK, Ages, Never, ShutWithBan, OldHandshakes
<1>8. ShortProlongation'
  <2> SUFFICES ASSUME banned' # Never, ~(banned' > BanDuration)
               PROVE  shut' <= banned' + Handshake
    BY DEF ShortProlongation, Expired
  <2>1. banned # Never /\ shut # Never /\ banned \in Int /\ shut \in Int /\ shut' \in Int
    BY <1>1 DEF IInv, TypeOK, Ages, Never, ShutWithBan
  <2>2. banned' = banned + 1 /\ banned <= BanDuration
    BY <1>b, <2>1
  <2>3. shut <= banned + Handshake
    BY <2>1, <2>2 DEF IInv, ShortProlongation, Expired
  <2> QED
    BY <1>a, <2>1, <2>2, <2>3
<1>9. LoginKept' /\ TrustedAreNotBanned'
  BY <1>1, <1>c DEF IInv, TypeOK, Ages, Never, LoginKept, TrustedAreNotBanned
<1>10. CountIsHonest'
  BY <1>1, <1>4 DEF Tick, IInv, TypeOK, CountIsHonest
<1> QED
  BY <1>5, <1>6, <1>7, <1>8, <1>9, <1>10 DEF IInv

LEMMA StepIInv == IInv /\ [Next]_vars => IInv'
<1> SUFFICES ASSUME IInv, [Next]_vars PROVE IInv'
  OBVIOUS
<1>1. CASE UNCHANGED vars
  BY <1>1
  DEF vars, banVars, histVars, Expired, IInv, TypeOK, ShutWithBan, OldHandshakes,
      ShortProlongation, LoginKept, TrustedAreNotBanned, CountIsHonest
<1>2. CASE GoSilent
  BY <1>2
  DEF GoSilent, banVars, histVars, Expired, IInv, TypeOK, ShutWithBan, OldHandshakes,
      ShortProlongation, LoginKept, TrustedAreNotBanned, CountIsHonest
<1> QED
  BY <1>1, <1>2, RejectIInv, PassIInv, WrongKeyIInv, NetworkErrorIInv, SuccessIInv,
     CleanupIInv, TickIInv
  DEF Next

(* The invariant holds in every state. *)
THEOREM Invariance == Spec => []IInv
  BY InitIInv, StepIInv, PTL DEF Spec

(* The maps keep their shape: a ban stands with its count, and a count     *)
(* with the time of its last failure (auth.go:32-47).                      *)
THEOREM TypeCorrect == Spec => []TypeOK
<1>1. IInv => TypeOK
  BY DEF IInv
<1> QED
  BY <1>1, Invariance, PTL

(* A ban shuts the door after at most a handshake (auth.go:78-94,          *)
(* 157-163).                                                               *)
THEOREM DoorIsShut == Spec => []BansCloseTheDoor
<1>1. IInv => BansCloseTheDoor
  <2> SUFFICES ASSUME IInv, banned # Never, shut > Handshake, NEW c \in Conns
               PROVE  handshakes[c] = Never
    BY DEF BansCloseTheDoor
  <2>1. handshakes[c] \in {Never} \union 0 .. Handshake
    BY DEF IInv, TypeOK
  <2>2. handshakes[c] # Never => shut <= handshakes[c]
    BY DEF IInv, OldHandshakes
  <2>3. shut \in Int
    BY AuthBanAssumption DEF IInv, TypeOK, Ages, Never
  <2> QED
    BY <2>1, <2>2, <2>3, AuthBanAssumption DEF Never
<1> QED
  BY <1>1, Invariance, PTL

(* No ban within Trust of a login (auth.go:106-112, 118-123). *)
THEOREM TrustProtects == Spec => []TrustedAreNotBanned
<1>1. IInv => TrustedAreNotBanned
  BY DEF IInv
<1> QED
  BY <1>1, Invariance, PTL

(* A ban is over BanDuration + Handshake after the door was shut           *)
(* (auth.go:113-114).                                                      *)
THEOREM BansAreFinite == Spec => []BansEndInTime
<1>1. IInv => BansEndInTime
  BY AuthBanAssumption
  DEF IInv, TypeOK, Ages, Never, ShutWithBan, ShortProlongation, Expired, BansEndInTime
<1> QED
  BY <1>1, Invariance, PTL

(* A ban takes MaxAuthFailures failures of its own (auth.go:69-76,         *)
(* 129-134).                                                               *)
THEOREM BansAreEarned == Spec => BansNeedAStreak
<1>1. ASSUME IInv, IInv', Next, banned = Never, banned' # Never
      PROVE  streak' = MaxAuthFailures
  <2>1. PICK c \in Conns : WrongKey(c)
    BY <1>1
    DEF Next, Reject, Pass, NetworkError, Success, Cleanup, Tick, GoSilent, banVars,
        clearBanLocked, ForgetFailures, Older
  <2>2. count' = MaxAuthFailures
    BY <1>1, AuthBanAssumption DEF IInv, TypeOK
  <2>3. count' <= streak'
    BY <1>1, <2>1, AuthBanAssumption
    DEF WrongKey, Lesser, IInv, TypeOK, Ages, Never, CountIsHonest
  <2> QED
    BY <1>1, <2>2, <2>3, AuthBanAssumption DEF IInv, TypeOK
<1>2. IInv /\ IInv' /\ [Next]_vars =>
        [banned = Never /\ banned' # Never => streak' = MaxAuthFailures]_vars
  BY <1>1 DEF vars
<1> QED
  BY <1>2, Invariance, PTL DEF Spec, BansNeedAStreak

(* A ban ends with its time or with a login (auth.go:86-93, 129-134). *)
THEOREM BansHold == Spec => BansLast
<1>1. ASSUME TypeOK, Next, banned # Never, ~Expired, banned' = Never
      PROVE  sinceLogin' = 0
  BY <1>1, AuthBanAssumption
  DEF TypeOK, Ages, Next, Reject, Pass, WrongKey, NetworkError, Success, Cleanup, Tick, GoSilent,
      banVars, clearBanLocked, ForgetFailures, BanIsOver, Older, Lesser, Never
<1>2. TypeOK /\ [Next]_vars =>
        [banned # Never /\ ~Expired /\ banned' = Never => sinceLogin' = 0]_vars
  BY <1>1 DEF vars
<1> QED
  BY <1>2, TypeCorrect, PTL DEF Spec, BansLast

-----------------------------------------------------------------------------
(***************************************************************************)
(* Firewall, however often commands fail.                                  *)
(*                                                                         *)
(* The properties are not inductive, because what a start finds is         *)
(* whatever crashes in the middle of apply and remove, failing commands,   *)
(* and changes of the settings, have left.  What all of them keep is that  *)
(* a rule is in its chain at most once unless a command has failed for it  *)
(* (Shaped), so -D removes it; and, as long as no command has, the order   *)
(* of a chain: the rules that drop something and the one for replies come  *)
(* before those that decide on all the rest, and are there only together   *)
(* with them (Ordered).  The order is kept because rules are inserted from *)
(* the last one to the first, each one on top, and deleted from the first  *)
(* one to the last.                                                        *)
(***************************************************************************)
(* What a chain holds, as a set, and that it holds something at most once. *)
Elems(s) == {s[i] : i \in DOMAIN s}
Single(s, n) == \A i, j \in DOMAIN s : s[i] = n /\ s[j] = n => i = j

(* -D of a rule that is in its chain removes one of its copies. *)
LEMMA RemoveFirstIs ==
  ASSUME NEW S, NEW s \in Seq(S), NEW e
  PROVE  /\ e \notin Elems(s) => FW!RemoveFirst(s, e) = s
         /\ e \in Elems(s) =>
              \E m \in DOMAIN s : s[m] = e /\ FW!RemoveFirst(s, e) = FW!RemoveAt(s, m)
<1>1. DOMAIN s = 1 .. Len(s) /\ Len(s) \in Nat
  OBVIOUS
<1>2. CASE e \notin Elems(s)
  BY <1>1, <1>2 DEF FW!RemoveFirst, Elems
<1>3. ASSUME e \in Elems(s)
      PROVE  \E m \in DOMAIN s : s[m] = e /\ FW!RemoveFirst(s, e) = FW!RemoveAt(s, m)
  <2> DEFINE I == {i \in 1 .. Len(s) : s[i] = e}
             m == FW!SelectInSeq(s, LAMBDA v : v = e)
  <2>1. I \subseteq Nat /\ I # {}
    BY <1>1, <1>3 DEF Elems
  <2> HIDE DEF I
  <2>2. \E t \in I : \A j \in I : <<j, t>> \notin OpToRel(<, Nat)
    BY <2>1, NatLessThanWellFounded, WFMin, Zenon
  <2>3. PICK t \in I : \A j \in I : <<j, t>> \notin OpToRel(<, Nat)
    BY <2>2
  <2>4. ASSUME NEW j \in I PROVE t <= j
    <3>1. t \in Nat /\ j \in Nat /\ ~(j < t)
      BY <2>1, <2>3 DEF OpToRel
    <3> QED
      BY <3>1
  <2>5. FW!Min(I) \in I
    BY <2>3, <2>4 DEF FW!Min
  <2>6. m = FW!Min(I)
    BY <2>1 DEF FW!SelectInSeq, I
  <2>7. m \in DOMAIN s /\ s[m] = e
    BY <1>1, <2>5, <2>6 DEF I
  <2>8. FW!RemoveFirst(s, e) = FW!RemoveAt(s, m)
    BY <1>1, <2>7 DEF FW!RemoveFirst
  <2> QED
    BY <2>7, <2>8
<1> QED
  BY <1>2, <1>3

LEMMA ForwardIs ==
  ASSUME NEW c
  PROVE  /\ allowPrivate => FW!ForwardRules(c) =
              <<FW!Rule(c, "metadata"), FW!Rule(c, "public"), FW!Rule(c, "smtp"),
                FW!Rule(c, "replies"), FW!Rule(c, "inbound"), FW!Rule(c, "outbound")>>
         /\ ~allowPrivate => FW!ForwardRules(c) =
              <<FW!Rule(c, "metadata"), FW!Rule(c, "private"), FW!Rule(c, "public"),
                FW!Rule(c, "smtp"), FW!Rule(c, "replies"), FW!Rule(c, "inbound"),
                FW!Rule(c, "outbound")>>
<1>1. CASE allowPrivate
  BY <1>1 DEF FW!ForwardRules, FW!InChain
<1>2. CASE ~allowPrivate
  BY <1>2 DEF FW!ForwardRules, FW!InChain
<1> QED
  BY <1>1, <1>2

LEMMA WiderSeq ==
  ASSUME NEW T, NEW S, T \subseteq S, NEW s \in Seq(T)
  PROVE  s \in Seq(S) /\ Len(s) \in Nat
<1>1. Len(s) \in Nat /\ s \in [1 .. Len(s) -> T]
  OBVIOUS
<1>2. s \in [1 .. Len(s) -> S]
  BY <1>1
<1> QED
  BY <1>1, <1>2

LEMMA ElementsOf ==
  ASSUME NEW T, NEW s \in Seq(T)
  PROVE  DOMAIN s = 1 .. Len(s) /\ Len(s) \in Nat /\ \A i \in 1 .. Len(s) : s[i] \in T
OBVIOUS

(* The rules by chain, and those that come before others. *)
Forwarded == {"metadata", "public", "smtp", "replies", "inbound", "outbound"}
                \union (IF allowPrivate THEN {} ELSE {"private"})
General == {"inbound", "outbound"}

Wanted(c) ==
  CASE c = "nat" -> {"masquerade"} [] c = "INPUT" -> {"input"} [] c = "mangle" -> {"mss"}
    [] c = "FORWARD" -> Forwarded
    [] c = "DOCKER-USER" -> IF withDocker THEN Forwarded ELSE {}

LEMMA ForwardRulesAre ==
  ASSUME NEW c
  PROVE  LET F == FW!ForwardRules(c) IN
         /\ Len(F) \in {6, 7} /\ DOMAIN F = 1 .. Len(F)
         /\ F \in Seq([chain : {c}, name : Forwarded])
         /\ \A n \in Forwarded : \E i \in 1 .. Len(F) : F[i] = FW!Rule(c, n)
         /\ \A i, j \in 1 .. Len(F) : F[i].name \notin General /\ F[j].name \in General => i < j
<1>1. CASE allowPrivate
  <2> DEFINE F == FW!ForwardRules(c)
  <2>1. F = <<FW!Rule(c, "metadata"), FW!Rule(c, "public"), FW!Rule(c, "smtp"),
              FW!Rule(c, "replies"), FW!Rule(c, "inbound"), FW!Rule(c, "outbound")>>
    BY <1>1, ForwardIs
  <2> HIDE DEF F
  <2>2. Len(F) = 6 /\ DOMAIN F = 1 .. 6
    BY <2>1
  <2>3. /\ F[1] = FW!Rule(c, "metadata") /\ F[2] = FW!Rule(c, "public")
        /\ F[3] = FW!Rule(c, "smtp") /\ F[4] = FW!Rule(c, "replies")
        /\ F[5] = FW!Rule(c, "inbound") /\ F[6] = FW!Rule(c, "outbound")
    BY <2>1
  <2>4. Forwarded = {"metadata", "public", "smtp", "replies", "inbound", "outbound"}
    BY <1>1 DEF Forwarded
  <2>5. \A i \in 1 .. 6 : i \in {1, 2, 3, 4, 5, 6}
    OBVIOUS
  <2>6. F \in Seq([chain : {c}, name : Forwarded])
    BY <2>1, <2>4 DEF FW!Rule
  <2>7. \A n \in Forwarded : \E i \in 1 .. 6 : F[i] = FW!Rule(c, n)
    BY <2>3, <2>4
  <2>8. \A i, j \in 1 .. 6 : F[i].name \notin General /\ F[j].name \in General => i < j
    BY <2>3, <2>5 DEF General, FW!Rule
  <2> QED
    BY <2>2, <2>6, <2>7, <2>8 DEF F
<1>2. CASE ~allowPrivate
  <2> DEFINE F == FW!ForwardRules(c)
  <2>1. F = <<FW!Rule(c, "metadata"), FW!Rule(c, "private"), FW!Rule(c, "public"),
              FW!Rule(c, "smtp"), FW!Rule(c, "replies"), FW!Rule(c, "inbound"),
              FW!Rule(c, "outbound")>>
    BY <1>2, ForwardIs
  <2> HIDE DEF F
  <2>2. Len(F) = 7 /\ DOMAIN F = 1 .. 7
    BY <2>1
  <2>3. /\ F[1] = FW!Rule(c, "metadata") /\ F[2] = FW!Rule(c, "private")
        /\ F[3] = FW!Rule(c, "public") /\ F[4] = FW!Rule(c, "smtp")
        /\ F[5] = FW!Rule(c, "replies") /\ F[6] = FW!Rule(c, "inbound")
        /\ F[7] = FW!Rule(c, "outbound")
    BY <2>1
  <2>4. Forwarded = {"metadata", "public", "smtp", "replies", "inbound", "outbound", "private"}
    BY <1>2 DEF Forwarded
  <2>5. \A i \in 1 .. 7 : i \in {1, 2, 3, 4, 5, 6, 7}
    OBVIOUS
  <2>6. F \in Seq([chain : {c}, name : Forwarded])
    BY <2>1, <2>4 DEF FW!Rule
  <2>7. \A n \in Forwarded : \E i \in 1 .. 7 : F[i] = FW!Rule(c, n)
    BY <2>3, <2>4
  <2>8. \A i, j \in 1 .. 7 : F[i].name \notin General /\ F[j].name \in General => i < j
    BY <2>3, <2>5 DEF General, FW!Rule
  <2> QED
    BY <2>2, <2>6, <2>7, <2>8 DEF F
<1> QED
  BY <1>1, <1>2

(* Rules, by position. *)
F == FW!ForwardRules("FORWARD")
D == IF withDocker THEN FW!ForwardRules("DOCKER-USER") ELSE <<>>
R == FW!Rules

LEMMA RulesAre ==
  /\ Len(R) = 3 + Len(F) + Len(D) /\ DOMAIN R = 1 .. Len(R)
  /\ R[1] = FW!Rule("nat", "masquerade") /\ R[2] = FW!Rule("INPUT", "input")
  /\ R[Len(R)] = FW!Rule("mangle", "mss")
  /\ \A i \in 1 .. Len(F) : R[2 + i] = F[i]
  /\ \A i \in 1 .. Len(D) : R[2 + Len(F) + i] = D[i]
  /\ Len(F) \in Nat /\ Len(D) \in Nat
<1> DEFINE S == [chain : {"FORWARD", "DOCKER-USER", "nat", "INPUT", "mangle"},
                 name : Forwarded \union {"masquerade", "input", "mss"}]
<1>1. R = (<<FW!Rule("nat", "masquerade"), FW!Rule("INPUT", "input")>> \o (F \o D))
            \o <<FW!Rule("mangle", "mss")>>
  BY DEF FW!Rules, FW!OverChains, F, D, R
<1>0. \A c \in {"FORWARD", "DOCKER-USER"} :
        FW!ForwardRules(c) \in Seq(S) /\ Len(FW!ForwardRules(c)) \in Nat
  <2> SUFFICES ASSUME NEW c \in {"FORWARD", "DOCKER-USER"}
               PROVE  FW!ForwardRules(c) \in Seq(S) /\ Len(FW!ForwardRules(c)) \in Nat
    OBVIOUS
  <2>1. FW!ForwardRules(c) \in Seq([chain : {c}, name : Forwarded])
    BY ForwardRulesAre
  <2>2. [chain : {c}, name : Forwarded] \subseteq S
    OBVIOUS
  <2> HIDE DEF S
  <2> QED
    BY <2>1, <2>2, WiderSeq
<1>2. F \in Seq(S) /\ Len(F) \in Nat
  BY <1>0 DEF F
<1>3. D \in Seq(S) /\ Len(D) \in Nat
  <2>1. CASE withDocker
    BY <2>1, <1>0 DEF D
  <2>2. CASE ~withDocker
    BY <2>2 DEF D
  <2> QED
    BY <2>1, <2>2
<1>4. /\ FW!Rule("nat", "masquerade") \in S /\ FW!Rule("INPUT", "input") \in S
      /\ FW!Rule("mangle", "mss") \in S
  BY DEF FW!Rule
<1> DEFINE a == FW!Rule("nat", "masquerade")
           b == FW!Rule("INPUT", "input")
           z == FW!Rule("mangle", "mss")
<1> HIDE DEF S, a, b, z
<1>5. /\ R = (<<a, b>> \o (F \o D)) \o <<z>>
      /\ a \in S /\ b \in S /\ z \in S
  BY <1>1, <1>4 DEF a, b, z
<1> DEFINE m == F \o D
           h == <<a, b>> \o m
<1>6. /\ m \in Seq(S) /\ Len(m) = Len(F) + Len(D)
      /\ \A i \in 1 .. Len(F) : m[i] = F[i]
      /\ \A i \in 1 .. Len(D) : m[Len(F) + i] = D[i]
  BY <1>2, <1>3
<1> HIDE DEF m
<1>7. /\ h \in Seq(S) /\ Len(h) = 2 + Len(m) /\ h[1] = a /\ h[2] = b
      /\ \A i \in 1 .. Len(m) : h[2 + i] = m[i]
  BY <1>5, <1>6
<1>8. R = h \o <<z>>
  BY <1>5 DEF m
<1> HIDE DEF h
<1>9. /\ Len(R) = 3 + Len(m) /\ DOMAIN R = 1 .. Len(R) /\ R[Len(R)] = z
      /\ \A i \in 1 .. 2 + Len(m) : R[i] = h[i]
  BY <1>2, <1>3, <1>5, <1>6, <1>7, <1>8
<1>10. R[1] = a /\ R[2] = b /\ \A i \in 1 .. Len(m) : R[2 + i] = m[i]
  BY <1>2, <1>3, <1>6, <1>7, <1>9
<1>11. /\ \A i \in 1 .. Len(F) : R[2 + i] = F[i]
       /\ \A i \in 1 .. Len(D) : R[2 + Len(F) + i] = D[i]
  BY <1>2, <1>3, <1>6, <1>10
<1> QED
  BY <1>2, <1>3, <1>6, <1>9, <1>10, <1>11 DEF a, b, z

Lists == {"FORWARD", "DOCKER-USER"}

LEMMA RuleAt ==
  ASSUME NEW i \in DOMAIN R
  PROVE  \/ i = 1 \/ i = 2 \/ i = Len(R)
         \/ \E x \in 1 .. Len(F) : i = 2 + x /\ R[i] = F[x]
         \/ \E x \in 1 .. Len(D) : i = 2 + Len(F) + x /\ R[i] = D[x]
<1>1. /\ i \in 1 .. 3 + Len(F) + Len(D) /\ Len(R) = 3 + Len(F) + Len(D)
      /\ Len(F) \in Nat /\ Len(D) \in Nat
  BY RulesAre
<1>2. CASE i > 2 /\ i <= 2 + Len(F)
  <2>1. i - 2 \in 1 .. Len(F) /\ i = 2 + (i - 2)
    BY <1>1, <1>2
  <2> QED
    BY <2>1, RulesAre
<1>3. CASE i > 2 + Len(F) /\ i < Len(R)
  <2>1. i - 2 - Len(F) \in 1 .. Len(D) /\ i = 2 + Len(F) + (i - 2 - Len(F))
    BY <1>1, <1>3
  <2> QED
    BY <2>1, RulesAre
<1>4. \/ i = 1 \/ i = 2 \/ i = Len(R)
      \/ i > 2 /\ i <= 2 + Len(F)
      \/ i > 2 + Len(F) /\ i < Len(R)
  BY <1>1
<1> QED
  BY <1>2, <1>3, <1>4

LEMMA FIs ==
  /\ Len(F) \in {6, 7}
  /\ \A i \in 1 .. Len(F) : F[i].chain = "FORWARD" /\ F[i].name \in Forwarded
  /\ \A n \in Forwarded : \E i \in 1 .. Len(F) : F[i] = FW!Rule("FORWARD", n)
  /\ \A i, j \in 1 .. Len(F) : F[i].name \notin General /\ F[j].name \in General => i < j
<1>1. F \in Seq([chain : {"FORWARD"}, name : Forwarded])
  BY ForwardRulesAre DEF F
<1>2. \A i \in 1 .. Len(F) : F[i] \in [chain : {"FORWARD"}, name : Forwarded]
  BY <1>1, ElementsOf
<1> QED
  BY <1>2, ForwardRulesAre DEF F

LEMMA DIs ==
  /\ \A i \in 1 .. Len(D) : D[i].chain = "DOCKER-USER" /\ D[i].name \in Forwarded /\ withDocker
  /\ withDocker => \A n \in Forwarded : \E i \in 1 .. Len(D) : D[i] = FW!Rule("DOCKER-USER", n)
  /\ \A i, j \in 1 .. Len(D) : D[i].name \notin General /\ D[j].name \in General => i < j
<1>1. CASE withDocker
  <2>1. D = FW!ForwardRules("DOCKER-USER")
    BY <1>1 DEF D
  <2>2. D \in Seq([chain : {"DOCKER-USER"}, name : Forwarded])
    BY <2>1, ForwardRulesAre
  <2>3. \A i \in 1 .. Len(D) : D[i] \in [chain : {"DOCKER-USER"}, name : Forwarded]
    BY <2>2, ElementsOf
  <2> QED
    BY <1>1, <2>1, <2>3, ForwardRulesAre
<1>2. CASE ~withDocker
  BY <1>2 DEF D
<1> QED
  BY <1>1, <1>2

LEMMA RulesFacts ==
  /\ Len(R) \in Nat /\ DOMAIN R = 1 .. Len(R) /\ Len(R) > 2
  /\ R[1] = FW!Rule("nat", "masquerade")
  /\ \A i \in DOMAIN R : R[i].chain \in FW!Chains /\ R[i].name \in Wanted(R[i].chain)
  /\ \A c \in FW!Chains : \A n \in Wanted(c) : \E i \in DOMAIN R : R[i].chain = c /\ R[i].name = n
  /\ \A i, j \in DOMAIN R :
       /\ R[i].chain = R[j].chain /\ R[i].chain \in Lists
       /\ R[i].name \notin General /\ R[j].name \in General
       => i < j
<1>1. /\ Len(R) \in Nat /\ DOMAIN R = 1 .. Len(R) /\ Len(R) = 3 + Len(F) + Len(D)
      /\ Len(F) \in Nat /\ Len(D) \in Nat
      /\ R[1] = FW!Rule("nat", "masquerade") /\ R[2] = FW!Rule("INPUT", "input")
      /\ R[Len(R)] = FW!Rule("mangle", "mss")
  BY RulesAre
<1>2. /\ R[1].chain = "nat" /\ R[1].name = "masquerade"
      /\ R[2].chain = "INPUT" /\ R[2].name = "input"
      /\ R[Len(R)].chain = "mangle" /\ R[Len(R)].name = "mss"
  BY <1>1 DEF FW!Rule
<1>3. ASSUME NEW i \in DOMAIN R
      PROVE  R[i].chain \in FW!Chains /\ R[i].name \in Wanted(R[i].chain)
  BY <1>2, RuleAt, FIs, DIs DEF FW!Chains, Wanted
<1>4. ASSUME NEW c \in FW!Chains, NEW n \in Wanted(c)
      PROVE  \E i \in DOMAIN R : R[i].chain = c /\ R[i].name = n
  <2>1. CASE c \in {"nat", "INPUT", "mangle"}
    BY <1>1, <1>2, <2>1 DEF Wanted
  <2>2. CASE c = "FORWARD"
    <3>1. PICK x \in 1 .. Len(F) : F[x] = FW!Rule("FORWARD", n)
      BY <2>2, FIs DEF Wanted
    <3>2. R[2 + x] = F[x] /\ 2 + x \in DOMAIN R
      BY <1>1, RulesAre
    <3> QED
      BY <2>2, <3>1, <3>2 DEF FW!Rule
  <2>3. CASE c = "DOCKER-USER"
    <3>1. PICK x \in 1 .. Len(D) : D[x] = FW!Rule("DOCKER-USER", n)
      BY <2>3, DIs DEF Wanted
    <3>2. R[2 + Len(F) + x] = D[x] /\ 2 + Len(F) + x \in DOMAIN R
      BY <1>1, RulesAre
    <3> QED
      BY <2>3, <3>1, <3>2 DEF FW!Rule
  <2> QED
    BY <2>1, <2>2, <2>3 DEF FW!Chains
<1>5. ASSUME NEW i \in DOMAIN R, NEW j \in DOMAIN R,
             R[i].chain = R[j].chain, R[i].chain \in Lists,
             R[i].name \notin General, R[j].name \in General
      PROVE  i < j
  <2>0. /\ R[i].chain \notin {"nat", "INPUT", "mangle"}
        /\ R[j].chain \notin {"nat", "INPUT", "mangle"}
        /\ i \notin {1, 2, Len(R)} /\ j \notin {1, 2, Len(R)}
    BY <1>2, <1>5 DEF Lists
  <2>1. CASE R[i].chain = "FORWARD"
    <3>1. PICK x \in 1 .. Len(F) : i = 2 + x /\ R[i] = F[x]
      BY <2>0, <2>1, RuleAt, DIs
    <3>2. PICK y \in 1 .. Len(F) : j = 2 + y /\ R[j] = F[y]
      BY <1>5, <2>0, <2>1, RuleAt, DIs
    <3>3. x < y /\ x \in Int /\ y \in Int
      BY <1>5, <3>1, <3>2, FIs
    <3> QED
      BY <3>1, <3>2, <3>3
  <2>2. CASE R[i].chain = "DOCKER-USER"
    <3>1. PICK x \in 1 .. Len(D) : i = 2 + Len(F) + x /\ R[i] = D[x]
      BY <2>0, <2>2, RuleAt, FIs
    <3>2. PICK y \in 1 .. Len(D) : j = 2 + Len(F) + y /\ R[j] = D[y]
      BY <1>5, <2>0, <2>2, RuleAt, FIs
    <3>3. x < y /\ x \in Int /\ y \in Int
      BY <1>5, <3>1, <3>2, DIs
    <3> QED
      BY <1>1, <3>1, <3>2, <3>3
  <2> QED
    BY <1>5, <2>1, <2>2 DEF Lists
<1> QED
  BY <1>1, <1>3, <1>4, <1>5

(* Within a chain, the rules that must come first and those they must not  *)
(* come after.                                                             *)
Specific == {"metadata", "private", "public", "smtp", "replies"}
Wide     == {"inbound", "outbound", "all inbound"}

InOrder(s) == \A i, j \in DOMAIN s : s[i] \in Specific /\ s[j] \in Wide => i < j

LEMMA OnTop ==
  ASSUME NEW S, NEW s \in Seq(S), NEW e \in S
  PROVE  /\ <<e>> \o s \in Seq(S) /\ Elems(<<e>> \o s) = Elems(s) \union {e}
         /\ \A n : Single(s, n) /\ (n = e => e \notin Elems(s)) => Single(<<e>> \o s, n)
         /\ InOrder(s) /\ (e \notin Wide \/ Elems(s) \cap Specific = {}) => InOrder(<<e>> \o s)
<1> DEFINE t == <<e>> \o s
<1>1. /\ t \in Seq(S) /\ DOMAIN t = 1 .. Len(s) + 1 /\ t[1] = e
      /\ \A i \in 1 .. Len(s) : t[i + 1] = s[i]
      /\ DOMAIN s = 1 .. Len(s) /\ Len(s) \in Nat
  OBVIOUS
<1> HIDE DEF t
<1>2. ASSUME NEW i \in DOMAIN t
      PROVE  \/ i = 1 /\ t[i] = e
             \/ i > 1 /\ i - 1 \in DOMAIN s /\ t[i] = s[i - 1]
  <2>1. i = 1 \/ (i > 1 /\ i - 1 \in 1 .. Len(s) /\ (i - 1) + 1 = i)
    BY <1>1
  <2> QED
    BY <1>1, <2>1
<1>3. Elems(t) = Elems(s) \union {e}
  <2>1. Elems(t) \subseteq Elems(s) \union {e}
    BY <1>2 DEF Elems
  <2>2. ASSUME NEW i \in DOMAIN s PROVE s[i] \in Elems(t)
    <3>1. i + 1 \in DOMAIN t /\ t[i + 1] = s[i]
      BY <1>1
    <3> QED
      BY <3>1 DEF Elems
  <2>3. e \in Elems(t)
    <3>1. 1 \in DOMAIN t
      BY <1>1
    <3> QED
      BY <1>1, <3>1 DEF Elems
  <2> QED
    BY <2>1, <2>2, <2>3 DEF Elems
<1>5. ASSUME NEW n, Single(s, n), n = e => e \notin Elems(s) PROVE Single(t, n)
  <2> SUFFICES ASSUME NEW i \in DOMAIN t, NEW j \in DOMAIN t, t[i] = n, t[j] = n PROVE i = j
    BY DEF Single
  <2>1. i \in Int /\ j \in Int
    BY <1>1
  <2>2. CASE i > 1 /\ j > 1
    <3>1. i - 1 = j - 1
      BY <1>2, <1>5, <2>2 DEF Single
    <3> QED
      BY <2>1, <3>1
  <2>3. CASE i = 1 \/ j = 1
    <3>1. n = e
      BY <1>2, <2>3
    <3>2. \A x \in DOMAIN s : s[x] # e
      BY <1>5, <3>1 DEF Elems
    <3> QED
      BY <1>2, <2>3, <3>1, <3>2
  <2> QED
    BY <1>2, <2>2, <2>3
<1>6. ASSUME InOrder(s), e \notin Wide \/ Elems(s) \cap Specific = {} PROVE InOrder(t)
  <2> SUFFICES ASSUME NEW i \in DOMAIN t, NEW j \in DOMAIN t, t[i] \in Specific, t[j] \in Wide
               PROVE  i < j
    BY DEF InOrder
  <2>1. i \in Int /\ j \in Int /\ j >= 1
    BY <1>1
  <2>2. CASE i > 1 /\ j > 1
    <3>1. i - 1 < j - 1
      BY <1>2, <1>6, <2>2 DEF InOrder
    <3> QED
      BY <2>1, <3>1
  <2>3. CASE i = 1
    <3>1. j # 1
      BY <1>1, <2>3 DEF Specific, Wide
    <3> QED
      BY <2>1, <2>3, <3>1
  <2>4. CASE i > 1 /\ j = 1
    <3>1. e \in Wide /\ s[i - 1] \in Specific /\ i - 1 \in DOMAIN s
      BY <1>1, <1>2, <2>4
    <3> QED
      BY <1>6, <3>1 DEF Elems
  <2> QED
    BY <1>2, <2>2, <2>3, <2>4
<1> QED
  BY <1>1, <1>3, <1>5, <1>6 DEF t

LEMMA AtEnd ==
  ASSUME NEW S, NEW s \in Seq(S), NEW e \in S
  PROVE  /\ Append(s, e) \in Seq(S) /\ Elems(Append(s, e)) = Elems(s) \union {e}
         /\ \A n : Single(s, n) /\ (n = e => e \notin Elems(s)) => Single(Append(s, e), n)
<1> DEFINE t == Append(s, e)
           m == Len(s) + 1
<1>1. /\ t \in Seq(S) /\ DOMAIN t = 1 .. m /\ t[m] = e
      /\ \A i \in 1 .. m - 1 : t[i] = s[i]
      /\ DOMAIN s = 1 .. m - 1 /\ m \in Nat /\ m >= 1
  OBVIOUS
<1> HIDE DEF t, m
<1>2. ASSUME NEW i \in DOMAIN t
      PROVE  (i = m /\ t[i] = e) \/ (i \in DOMAIN s /\ t[i] = s[i])
  <2>1. i = m \/ i \in 1 .. m - 1
    BY <1>1
  <2> QED
    BY <1>1, <2>1
<1>3. \A i \in DOMAIN s : i \in DOMAIN t /\ t[i] = s[i]
  BY <1>1
<1>4. m \in DOMAIN t
  BY <1>1
<1>5. Elems(t) = Elems(s) \union {e}
  BY <1>1, <1>2, <1>3, <1>4 DEF Elems
<1>6. ASSUME NEW n, Single(s, n), n = e => e \notin Elems(s) PROVE Single(t, n)
  <2>1. n = e => \A x \in DOMAIN s : s[x] # n
    BY <1>6 DEF Elems
  <2>2. ASSUME NEW i \in DOMAIN t, NEW j \in DOMAIN t, t[i] = n, t[j] = n PROVE i = j
    BY <1>2, <1>6, <2>1, <2>2 DEF Single
  <2> QED
    BY <2>2 DEF Single
<1> QED
  BY <1>1, <1>5, <1>6 DEF t

LEMMA RemoveAtIs ==
  ASSUME NEW S, NEW s \in Seq(S), NEW i \in DOMAIN s
  PROVE  /\ FW!RemoveAt(s, i) \in Seq(S)
         /\ Len(FW!RemoveAt(s, i)) = Len(s) - 1
         /\ \A j \in DOMAIN FW!RemoveAt(s, i) :
              FW!RemoveAt(s, i)[j] = IF j < i THEN s[j] ELSE s[j + 1]
<1> DEFINE a == SubSeq(s, 1, i - 1)
           b == SubSeq(s, i + 1, Len(s))
<1>1. i \in 1 .. Len(s) /\ Len(s) \in Nat
  OBVIOUS
<1>2. /\ a \in Seq(S) /\ Len(a) = i - 1
      /\ \A j \in 1 .. i - 1 : a[j] = s[j]
  BY <1>1
<1>3. /\ b \in Seq(S) /\ Len(b) = Len(s) - i
      /\ \A j \in 1 .. Len(s) - i : b[j] = s[i + j]
  BY <1>1
<1>4. FW!RemoveAt(s, i) = a \o b
  BY DEF FW!RemoveAt
<1> HIDE DEF a, b
<1>5. a \o b \in Seq(S) /\ Len(a \o b) = Len(s) - 1
  BY <1>1, <1>2, <1>3
<1>6. ASSUME NEW j \in DOMAIN (a \o b)
      PROVE  (a \o b)[j] = IF j < i THEN s[j] ELSE s[j + 1]
  <2>1. j \in 1 .. Len(s) - 1
    BY <1>5
  <2>2. (a \o b)[j] = IF j <= Len(a) THEN a[j] ELSE b[j - Len(a)]
    BY <1>1, <1>2, <1>3, <2>1
  <2>3. CASE j < i
    BY <1>1, <1>2, <2>1, <2>2, <2>3
  <2>4. CASE ~(j < i)
    <3>1. j \in Int /\ i \in Int /\ j - (i - 1) \in 1 .. Len(s) - i /\ ~(j <= i - 1)
      BY <1>1, <2>1, <2>4
    <3>2. b[j - (i - 1)] = s[i + (j - (i - 1))] /\ i + (j - (i - 1)) = j + 1
      BY <1>3, <3>1
    <3> QED
      BY <1>2, <2>2, <2>4, <3>1, <3>2
  <2> QED
    BY <2>3, <2>4
<1> QED
  BY <1>4, <1>5, <1>6

(* -D, wherever the rule is. *)
LEMMA Deleted ==
  ASSUME NEW S, NEW s \in Seq(S), NEW e
  PROVE  LET t == FW!RemoveFirst(s, e) IN
         /\ t \in Seq(S) /\ Elems(t) \subseteq Elems(s)
         /\ \A n : Single(s, n) => Single(t, n)
         /\ Single(s, e) => e \notin Elems(t)
         /\ \A n \in Elems(s) : n # e => n \in Elems(t)
         /\ InOrder(s) => InOrder(t)
<1> DEFINE t == FW!RemoveFirst(s, e)
<1>1. CASE e \notin Elems(s)
  BY <1>1, RemoveFirstIs
<1>2. CASE e \in Elems(s)
  <2>1. PICK m \in DOMAIN s : s[m] = e /\ t = FW!RemoveAt(s, m)
    BY <1>2, RemoveFirstIs
  <2>3. /\ t \in Seq(S) /\ Len(t) = Len(s) - 1
        /\ \A j \in DOMAIN t : t[j] = IF j < m THEN s[j] ELSE s[j + 1]
    <3> HIDE DEF t
    <3> QED
      BY <2>1, RemoveAtIs
  <2> HIDE DEF t
  <2>4. DOMAIN s = 1 .. Len(s) /\ Len(s) \in Nat /\ DOMAIN t = 1 .. Len(s) - 1 /\ m \in 1 .. Len(s)
    BY <2>1, <2>3
  <2> DEFINE Old(n) == IF n < m THEN n ELSE n + 1
  <2>5. ASSUME NEW n \in DOMAIN t
        PROVE  Old(n) \in DOMAIN s /\ Old(n) # m /\ t[n] = s[Old(n)]
    BY <2>3, <2>4
  <2>6. ASSUME NEW n \in DOMAIN s, n # m
        PROVE  \E x \in DOMAIN t : Old(x) = n
    <3> DEFINE x == IF n < m THEN n ELSE n - 1
    <3>1. x \in DOMAIN t /\ Old(x) = n
      BY <2>4, <2>6
    <3> QED
      BY <3>1
  <2>7. ASSUME NEW x \in DOMAIN t, NEW y \in DOMAIN t
        PROVE  /\ Old(x) = Old(y) => x = y
               /\ Old(x) < Old(y) => x < y
    BY <2>4
  <2> HIDE DEF Old
  <2>8. \A n : Single(s, n) => Single(t, n)
    BY <2>5, <2>7 DEF Single
  <2>9. InOrder(s) => InOrder(t)
    BY <2>5, <2>7 DEF InOrder
  <2>10. Elems(t) \subseteq Elems(s)
    BY <2>5 DEF Elems
  <2>12. Single(s, e) => e \notin Elems(t)
    BY <2>1, <2>5 DEF Elems, Single
  <2>11. ASSUME NEW x \in Elems(s), x # e PROVE x \in Elems(t)
    <3>1. PICK n \in DOMAIN s : s[n] = x
      BY DEF Elems
    <3>2. PICK y \in DOMAIN t : Old(y) = n
      BY <2>1, <2>6, <2>11, <3>1
    <3> QED
      BY <2>5, <3>1, <3>2 DEF Elems
  <2> QED
    BY <2>3, <2>8, <2>9, <2>10, <2>11, <2>12 DEF t
<1> QED
  BY <1>1, <1>2

-----------------------------------------------------------------------------
(* The rule that decides on a packet, when all rules are there.            *)
Decider(class) ==
  CASE class = "private" -> IF allowPrivate THEN "outbound" ELSE "private"
    [] class = "web" -> "outbound" [] class = "reply" -> "replies"
    [] class = "stranger" -> "inbound"
    [] class \in {"metadata", "public", "smtp"} -> class

LEMMA Decides ==
  ASSUME NEW s \in Seq(FW!Names), InOrder(s), \A n \in FW!Names : Single(s, n),
         Elems(s) = Forwarded,
         NEW class \in FW!Outgoing \union FW!Incoming
  PROVE  \E m \in DOMAIN s : /\ s[m] = Decider(class) /\ FW!Matches(s[m], class)
                             /\ \A j \in 1 .. m - 1 : ~FW!Matches(s[j], class)
<1>1. DOMAIN s = 1 .. Len(s) /\ Len(s) \in Nat /\ \A i \in DOMAIN s : s[i] \in Forwarded
  BY DEF Elems
<1>2. Decider(class) \in Forwarded /\ FW!Matches(Decider(class), class)
  BY DEF Decider, Forwarded, FW!Matches, FW!Outgoing, FW!Incoming
<1>3. PICK m \in DOMAIN s : s[m] = Decider(class)
  BY <1>2 DEF Elems
<1>5. Single(s, Decider(class))
  BY <1>2 DEF Forwarded, FW!Names
<1>4. ASSUME NEW j \in 1 .. m - 1, FW!Matches(s[j], class) PROVE FALSE
  <2>1. j \in DOMAIN s /\ j < m /\ j # m /\ s[j] \in Forwarded
    BY <1>1
  <2>2. s[j] # Decider(class)
    BY <1>3, <1>5, <2>1 DEF Single
  <2>3. s[j] \in Wide /\ Decider(class) \in Specific
    BY <1>4, <2>1, <2>2 DEF Decider, Forwarded, FW!Matches, FW!Outgoing, FW!Incoming, Wide, Specific
  <2>4. m < j
    BY <1>3, <2>1, <2>3 DEF InOrder
  <2> QED
    BY <1>1, <2>1, <2>4
<1> QED
  BY <1>2, <1>3, <1>4

(* What is in a chain, and what any version or setting may have put there. *)
At(c) == Elems(chain[c])
AllForwarded == {"metadata", "private", "public", "smtp", "replies", "inbound", "outbound",
                 "all inbound"}
Possible(c) ==
  CASE c = "nat" -> {"masquerade"} [] c = "INPUT" -> {"input"} [] c = "mangle" -> {"mss"}
    [] c \in Lists -> AllForwarded

Running == pc \notin {"down", "setup"}

(* Whatever crashes, failing commands and changes of the settings have     *)
(* left: a rule is there twice only if a command has failed for it, and as *)
(* long as none has, the specific ones come before the general ones and    *)
(* are there only together with them.                                      *)
Shaped ==
  /\ chain \in [FW!Chains -> Seq(FW!Names)]
  /\ \A c \in FW!Chains : At(c) \subseteq Possible(c)
  /\ \A c \in FW!Chains : \A n \in FW!Names \ spoiled[c] : Single(chain[c], n)

Ordered ==
  /\ \A c \in FW!Chains : InOrder(chain[c])
  /\ \A c \in Lists : At(c) \cap Specific # {} => General \subseteq At(c)

ChainsAreFine == Shaped /\ (FW!Unspoiled => Ordered)

(* docker's chain only has rules if docker made it. *)
DockerIsKnown ==
  /\ At("DOCKER-USER") # {} => docker
  /\ Running => /\ withDocker => docker
                /\ ~withDocker => At("DOCKER-USER") \subseteq spoiled["DOCKER-USER"]

(* How far apply and remove have got. *)
StaleAreGone ==
  /\ pc = "stale" => \A i \in DOMAIN FW!Stale, c \in FW!Chains :
       i < k /\ FW!Stale[i].chain = c => FW!Stale[i].name \notin At(c) \ spoiled[c]
  /\ pc \in {"apply", "undo", "serving", "cleanup"} =>
       \A c \in FW!Chains : At(c) \subseteq Wanted(c) \union spoiled[c]

(* Every rule but the optional one is there. *)
Complete == \A c \in FW!Chains \ {"mangle"} : Wanted(c) \subseteq At(c)

RulesAreThere ==
  /\ pc = "apply" => \A i \in DOMAIN R, c \in FW!Chains \ {"mangle"} :
       i + k > Len(R) + 1 /\ R[i].chain = c => R[i].name \in At(c)
  /\ (pc = "serving" \/ (pc = "cleanup" /\ k = 1)) => Complete

RulesAreGone ==
  /\ pc \in {"undo", "cleanup"} => \A i \in DOMAIN R, c \in FW!Chains :
       i < k /\ R[i].chain = c => R[i].name \notin At(c) \ spoiled[c]
  /\ ~Running /\ ended = "orderly" => \A c \in FW!Chains : At(c) \subseteq spoiled[c]

(* The inductive invariant.                                                *)
FirewallIInv ==
  /\ FW!TypeOK /\ (pc \in {"stale", "apply", "undo", "cleanup"} => k >= 1)
  /\ ChainsAreFine /\ DockerIsKnown /\ StaleAreGone /\ RulesAreThere /\ RulesAreGone

LEMMA Concatenation ==
  ASSUME NEW S, NEW a \in Seq(S), NEW b \in Seq(S)
  PROVE  /\ a \o b \in Seq(S) /\ \A i \in DOMAIN a : i \in DOMAIN (a \o b) /\ (a \o b)[i] = a[i]
         /\ Elems(a) = {} => a \o b = b
<1>1. DOMAIN a = 1 .. Len(a) /\ Len(a) \in Nat
  OBVIOUS
<1>2. ASSUME Elems(a) = {} PROVE a \o b = b
  <2>1. 1 \notin DOMAIN a
    BY <1>2 DEF Elems
  <2>2. Len(a) = 0
    BY <1>1, <2>1
  <2>3. a = <<>>
    BY <2>2
  <2> QED
    BY <2>3
<1> QED
  BY <1>1, <1>2

(* With all rules and no others, packets pass as they should. *)
LEMMA CompleteGuards ==
  ASSUME ChainsAreFine, DockerIsKnown, Running, Complete, FW!Unspoiled,
         \A c \in FW!Chains : At(c) \subseteq Wanted(c) \union spoiled[c]
  PROVE  FW!Guarded /\ chain["nat"] # <<>>
<1> DEFINE L == chain["DOCKER-USER"] \o chain["FORWARD"]
           s == IF withDocker THEN chain["DOCKER-USER"] ELSE chain["FORWARD"]
<1>1. /\ chain["DOCKER-USER"] \in Seq(FW!Names) /\ chain["FORWARD"] \in Seq(FW!Names)
      /\ chain["nat"] \in Seq(FW!Names) /\ chain["INPUT"] \in Seq(FW!Names)
  BY DEF ChainsAreFine, Shaped, FW!Chains
<1>2. At("nat") = {"masquerade"} /\ At("INPUT") = {"input"} /\ At("FORWARD") = Forwarded
      /\ At("DOCKER-USER") = IF withDocker THEN Forwarded ELSE {}
  <2>1. \A c \in FW!Chains : At(c) \subseteq Wanted(c)
    BY DEF FW!Unspoiled
  <2>2. \A c \in FW!Chains \ {"mangle"} : At(c) = Wanted(c)
    BY <2>1 DEF Complete
  <2> QED
    BY <2>2 DEF Wanted, FW!Chains
<1>3. chain["nat"] # <<>> /\ chain["INPUT"] # <<>>
  BY <1>2 DEF At, Elems
<1>4. /\ s \in Seq(FW!Names) /\ InOrder(s) /\ Elems(s) = Forwarded
      /\ \A n \in FW!Names : Single(s, n)
  BY <1>1, <1>2 DEF ChainsAreFine, Shaped, Ordered, At, FW!Chains, FW!Unspoiled
<1>5. /\ L \in Seq(FW!Names) /\ \A i \in DOMAIN s : i \in DOMAIN L /\ L[i] = s[i]
      /\ DOMAIN s = 1 .. Len(s) /\ DOMAIN L = 1 .. Len(L) /\ Len(s) \in Nat /\ Len(L) \in Nat
  <2> DEFINE a == chain["DOCKER-USER"]
             b == chain["FORWARD"]
  <2>1. /\ a \o b \in Seq(FW!Names)
        /\ \A i \in DOMAIN a : i \in DOMAIN (a \o b) /\ (a \o b)[i] = a[i]
        /\ Elems(a) = {} => a \o b = b
    <3> HIDE DEF a, b
    <3> QED
      BY <1>1, Concatenation DEF a, b
  <2>2. L = a \o b /\ s = (IF withDocker THEN a ELSE b) /\ (~withDocker => Elems(a) = {})
    BY <1>2 DEF At
  <2> HIDE DEF L, s, a, b
  <2>3. (withDocker => s = a) /\ (~withDocker => s = b /\ L = b)
    BY <2>1, <2>2
  <2>4. \A i \in DOMAIN s : i \in DOMAIN L /\ L[i] = s[i]
    BY <2>1, <2>2, <2>3
  <2> QED
    BY <1>4, <2>1, <2>4, ElementsOf DEF L, a, b
<1>6. ASSUME NEW class \in FW!Outgoing \union FW!Incoming
      PROVE  FW!Passes(class) <=> class \in FW!Allowed
  <2>1. PICK m \in DOMAIN s : /\ s[m] = Decider(class) /\ FW!Matches(s[m], class)
                              /\ \A j \in 1 .. m - 1 : ~FW!Matches(s[j], class)
    <3> HIDE DEF s
    <3> QED
      BY <1>4, Decides
  <2> HIDE DEF s
  <2>2. FW!Passes(class) <=> \E i \in DOMAIN L :
          /\ FW!Matches(L[i], class) /\ FW!Accepts(L[i])
          /\ \A j \in 1 .. i - 1 : ~FW!Matches(L[j], class)
    BY DEF FW!Passes
  <2> HIDE DEF L
  <2>3. /\ m \in DOMAIN L /\ L[m] = Decider(class) /\ FW!Matches(L[m], class)
        /\ \A j \in 1 .. m - 1 : ~FW!Matches(L[j], class)
        /\ m \in Int
    BY <1>5, <2>1
  <2>4. ASSUME NEW i \in DOMAIN L, FW!Matches(L[i], class),
               \A j \in 1 .. i - 1 : ~FW!Matches(L[j], class)
        PROVE  i = m
    <3>1. i \in Int /\ i >= 1 /\ m >= 1
      BY <1>5, <2>3
    <3>2. ~(i < m) /\ ~(m < i)
      BY <2>3, <2>4, <3>1
    <3> QED
      BY <2>3, <3>1, <3>2
  <2>5. FW!Passes(class) <=> FW!Accepts(Decider(class))
    BY <2>2, <2>3, <2>4
  <2>6. FW!Accepts(Decider(class)) <=> class \in FW!Allowed
    BY DEF FW!Accepts, FW!Allowed, Decider, FW!Outgoing, FW!Incoming
  <2> QED
    BY <2>5, <2>6
<1> QED
  BY <1>3, <1>6 DEF FW!Guarded

(* NAT is the first rule to go, so nothing else has gone while it is there. *)
LEMMA FirewallSafe == FirewallIInv => Protected /\ NothingMissing /\ NothingStays
<1> SUFFICES ASSUME FirewallIInv PROVE Protected /\ NothingMissing /\ NothingStays
  OBVIOUS
<1>1. /\ FW!TypeOK /\ ChainsAreFine /\ DockerIsKnown
      /\ StaleAreGone /\ RulesAreThere /\ RulesAreGone
  BY DEF FirewallIInv
<1>2. FW!Unspoiled /\ pc = "serving" => FW!Guarded /\ chain["nat"] # <<>>
  BY <1>1, CompleteGuards DEF Running, StaleAreGone, RulesAreThere
<1>3. FW!Unspoiled /\ pc = "cleanup" /\ chain["nat"] # <<>> => FW!Guarded
  <2> SUFFICES ASSUME FW!Unspoiled, pc = "cleanup", chain["nat"] # <<>> PROVE FW!Guarded
    OBVIOUS
  <2>1. k = 1
    <3>1. chain["nat"] \in Seq(FW!Names) /\ At("nat") \subseteq {"masquerade"}
      BY <1>1 DEF ChainsAreFine, Shaped, StaleAreGone, FW!Chains, Wanted, FW!Unspoiled
    <3>2. chain["nat"][1] \in At("nat")
      BY <3>1 DEF At, Elems
    <3>3. k >= 1 /\ k \in Nat
      BY DEF FirewallIInv, FW!TypeOK
    <3>4. R[1].name = "masquerade" /\ R[1].chain = "nat" /\ 1 \in DOMAIN R
      BY RulesFacts DEF FW!Rule
    <3>5. ~(1 < k)
      BY <1>1, <3>1, <3>2, <3>4 DEF RulesAreGone, FW!Chains, FW!Unspoiled
    <3> QED
      BY <3>3, <3>5
  <2> QED
    BY <1>1, <2>1, CompleteGuards DEF Running, StaleAreGone, RulesAreThere
<1>4. ASSUME pc = "serving", NEW i \in DOMAIN R, R[i].chain # "mangle"
      PROVE  FW!Has(R[i])
  <2>1. R[i].chain \in FW!Chains /\ R[i].name \in Wanted(R[i].chain)
    BY RulesFacts
  <2>2. R[i].name \in At(R[i].chain)
    BY <1>1, <1>4, <2>1 DEF RulesAreThere, Complete
  <2> QED
    BY <2>2 DEF FW!Has, FW!ToSet, At, Elems
<1>5. pc = "down" /\ ended = "orderly" =>
        \A c \in FW!Chains : FW!ToSet(chain[c]) \subseteq spoiled[c]
  BY <1>1 DEF RulesAreGone, Running, At, Elems, FW!ToSet
<1>6. Protected
  BY <1>2, <1>3 DEF Protected, FW!Protected
<1>7. NothingMissing
  BY <1>4 DEF NothingMissing, FW!NothingMissing, R
<1>8. NothingStays
  BY <1>5 DEF NothingStays, FW!NothingStays
<1> QED
  BY <1>6, <1>7, <1>8

LEMMA FirewallInit == FW!Init => FirewallIInv
<1> SUFFICES ASSUME FW!Init PROVE FirewallIInv
  OBVIOUS
<1>1. /\ pc = "down" /\ k = 0 /\ ended = "never"
      /\ spoiled \in [FW!Chains -> SUBSET FW!Names] /\ failures \in Nat
      /\ {docker, allowPrivate, withDocker} \subseteq BOOLEAN
      /\ ~Running
  BY DEF FW!Init, Running
<1>2. /\ chain \in [FW!Chains -> Seq(FW!Names)]
      /\ \A c \in FW!Chains :
           chain[c] = <<>> \/ (c = "FORWARD" /\ chain[c] = <<"outbound", "all inbound">>)
  <2>1. CASE chain = [c \in FW!Chains |-> <<>>]
    BY <2>1
  <2>2. CASE chain = [c \in FW!Chains |->
                        IF c = "FORWARD" THEN <<"outbound", "all inbound">> ELSE <<>>]
    <3>1. <<"outbound", "all inbound">> \in Seq(FW!Names) /\ <<>> \in Seq(FW!Names)
      BY DEF FW!Names
    <3> QED
      BY <2>2, <3>1
  <2> QED
    BY <2>1, <2>2 DEF FW!Init
<1>3. ASSUME NEW c \in FW!Chains
      PROVE  /\ InOrder(chain[c]) /\ At(c) \subseteq Possible(c)
             /\ \A n \in FW!Names : Single(chain[c], n)
             /\ At(c) \cap Specific = {} /\ (c = "DOCKER-USER" => At(c) = {})
  <2>1. CASE chain[c] = <<>>
    BY <2>1 DEF Single, InOrder, At, Elems
  <2>2. CASE c = "FORWARD" /\ chain[c] = <<"outbound", "all inbound">>
    <3> DEFINE s == <<"outbound", "all inbound">>
    <3>1. DOMAIN s = {1, 2} /\ s[1] = "outbound" /\ s[2] = "all inbound"
      OBVIOUS
    <3> HIDE DEF s
    <3>2. chain[c] = s
      BY <2>2 DEF s
    <3>3. Elems(s) = {"outbound", "all inbound"}
      BY <3>1 DEF Elems
    <3>4. InOrder(s) /\ \A n \in FW!Names : Single(s, n)
      BY <3>1 DEF Single, InOrder, Specific
    <3> QED
      BY <2>2, <3>2, <3>3, <3>4 DEF At, Possible, Lists, AllForwarded, Specific
  <2> QED
    BY <1>2, <2>1, <2>2
<1>4. ChainsAreFine /\ DockerIsKnown
  BY <1>1, <1>2, <1>3 DEF ChainsAreFine, Shaped, Ordered, DockerIsKnown, Lists, FW!Chains
<1> QED
  BY <1>1, <1>2, <1>4 DEF FirewallIInv, FW!TypeOK, StaleAreGone, RulesAreThere, RulesAreGone

(* A command that fails, and what -D and -I or -A do to the chains. *)
StillSpoiled == \A c \in FW!Chains : spoiled[c] \subseteq spoiled'[c]

LEMMA Failing ==
  ASSUME FW!TypeOK, NEW c \in FW!Chains, NEW names \in SUBSET FW!Names, FW!Fails(c, names)
  PROVE  /\ StillSpoiled /\ names \subseteq spoiled'[c]
         /\ spoiled' \in [FW!Chains -> SUBSET FW!Names] /\ failures' \in Nat
BY DEF FW!TypeOK, FW!Fails, StillSpoiled

LEMMA Remaining ==
  ASSUME FW!TypeOK, UNCHANGED FW!history
  PROVE  /\ StillSpoiled /\ (FW!Unspoiled' <=> FW!Unspoiled)
         /\ spoiled' \in [FW!Chains -> SUBSET FW!Names] /\ failures' \in Nat
BY DEF FW!TypeOK, FW!history, StillSpoiled, FW!Unspoiled

(* A step that leaves the chains alone. *)
LEMMA Untouched ==
  ASSUME UNCHANGED chain, StillSpoiled
  PROVE  (\A c : At(c)' = At(c)) /\ (ChainsAreFine => ChainsAreFine')
<1>1. \A c : At(c)' = At(c)
  BY DEF At, Elems
<1>2. FW!Unspoiled' => FW!Unspoiled
  BY DEF StillSpoiled, FW!Unspoiled
<1>3. Shaped => Shaped'
  BY <1>1 DEF Shaped, Possible, StillSpoiled
<1>4. Ordered => Ordered'
  BY <1>1 DEF Ordered
<1>5. ASSUME ChainsAreFine PROVE ChainsAreFine'
  <2>1. Shaped' /\ (FW!Unspoiled => Ordered)
    BY <1>3, <1>5 DEF ChainsAreFine
  <2>2. FW!Unspoiled' => Ordered'
    BY <1>2, <1>4, <2>1
  <2> QED
    BY <2>1, <2>2 DEF ChainsAreFine
<1> QED
  BY <1>1, <1>5

LEMMA Adding ==
  ASSUME ChainsAreFine, StillSpoiled, NEW r, FW!Add(r), r.chain \in FW!Chains, r.name \in FW!Names,
         r.name \in Possible(r.chain),
         r.name \in At(r.chain) => r.name \in spoiled'[r.chain],
         FW!Unspoiled' /\ r.name \in Wide => At(r.chain) \cap Specific = {},
         FW!Unspoiled' /\ r.name \in Specific => General \subseteq At(r.chain)
  PROVE  /\ ChainsAreFine'
         /\ \A c \in FW!Chains : At(c)' = IF c = r.chain THEN At(c) \union {r.name} ELSE At(c)
<1> DEFINE s == chain[r.chain]
           t == chain'[r.chain]
<1>0. FW!Unspoiled' => FW!Unspoiled
  BY DEF StillSpoiled, FW!Unspoiled
<1>1. s \in Seq(FW!Names) /\ Elems(s) = At(r.chain) /\ (FW!Unspoiled => InOrder(s))
  BY DEF ChainsAreFine, Shaped, Ordered, At
<1>2. /\ \A c \in FW!Chains \ {r.chain} : chain'[c] = chain[c]
      /\ t = IF FW!Inserted(r) THEN <<r.name>> \o s ELSE Append(s, r.name)
      /\ chain' = [chain EXCEPT ![r.chain] = t]
  BY DEF FW!Add, ChainsAreFine, Shaped
<1>3. /\ t \in Seq(FW!Names) /\ Elems(t) = Elems(s) \union {r.name}
      /\ FW!Unspoiled' => InOrder(t)
      /\ \A n : Single(s, n) /\ (n = r.name => r.name \notin Elems(s)) => Single(t, n)
  <2>1. CASE FW!Inserted(r)
    <3>1. t = <<r.name>> \o s
      BY <1>2, <2>1
    <3>2. FW!Unspoiled' => r.name \notin Wide \/ Elems(s) \cap Specific = {}
      BY <1>1
    <3> HIDE DEF s, t
    <3> QED
      BY <1>0, <1>1, <3>1, <3>2, OnTop
  <2>2. CASE ~FW!Inserted(r)
    <3>1. t = Append(s, r.name)
      BY <1>2, <2>2
    <3>2. r.chain \in {"nat", "mangle"} /\ At(r.chain) \subseteq Possible(r.chain)
      BY <2>2 DEF FW!Inserted, ChainsAreFine, Shaped
    <3> HIDE DEF s, t
    <3>3. /\ t \in Seq(FW!Names) /\ Elems(t) = Elems(s) \union {r.name}
          /\ \A n : Single(s, n) /\ (n = r.name => r.name \notin Elems(s)) => Single(t, n)
      BY <1>1, <3>1, AtEnd
    <3>4. Elems(t) \subseteq {"masquerade", "mss"}
      <4>1. Possible(r.chain) \subseteq {"masquerade", "mss"}
        <5>1. Possible("nat") = {"masquerade"} /\ Possible("mangle") = {"mss"}
          BY DEF Possible, Lists
        <5> QED
          BY <3>2, <5>1
      <4> QED
        BY <1>1, <3>2, <3>3, <4>1
    <3>5. InOrder(t)
      BY <3>4 DEF InOrder, Elems, Specific
    <3> QED
      BY <3>3, <3>5
  <2> QED
    BY <2>1, <2>2
<1> HIDE DEF s, t
<1>4. \A c \in FW!Chains : At(c)' = IF c = r.chain THEN At(c) \union {r.name} ELSE At(c)
  BY <1>1, <1>2, <1>3 DEF At, t
<1>5. chain' \in [FW!Chains -> Seq(FW!Names)]
  BY <1>2, <1>3 DEF ChainsAreFine, Shaped
<1>6. \A c \in FW!Chains : At(c)' \subseteq Possible(c)
  BY <1>4 DEF ChainsAreFine, Shaped
<1>7. ASSUME NEW c \in FW!Chains, NEW n \in FW!Names \ spoiled'[c] PROVE Single(chain'[c], n)
  <2>1. Single(chain[c], n)
    BY DEF ChainsAreFine, Shaped, StillSpoiled
  <2>2. CASE c = r.chain
    <3>1. n = r.name => r.name \notin Elems(s)
      BY <1>1, <2>2
    <3> QED
      BY <1>3, <2>1, <2>2, <3>1 DEF s, t
  <2>3. CASE c # r.chain
    BY <1>2, <2>1, <2>3
  <2> QED
    BY <2>2, <2>3
<1>8. Shaped'
  BY <1>5, <1>6, <1>7 DEF Shaped, Possible
<1>9. ASSUME FW!Unspoiled' PROVE Ordered'
  <2>1. FW!Unspoiled /\ Ordered
    BY <1>0, <1>9 DEF ChainsAreFine
  <2>2. \A c \in FW!Chains : InOrder(chain'[c])
    BY <1>2, <1>3, <1>9, <2>1 DEF Ordered, t
  <2>3. ASSUME NEW c \in Lists, At(c)' \cap Specific # {} PROVE General \subseteq At(c)'
    <3>1. c \in FW!Chains
      BY DEF Lists, FW!Chains
    <3> QED
      BY <1>4, <1>9, <2>1, <2>3, <3>1 DEF Ordered
  <2> QED
    BY <2>2, <2>3 DEF Ordered
<1> QED
  BY <1>4, <1>8, <1>9 DEF ChainsAreFine

LEMMA Deleting ==
  ASSUME FW!TypeOK, ChainsAreFine, NEW r, FW!Delete(r), r.chain \in FW!Chains, r.name \in FW!Names,
         FW!Unspoiled /\ r.name \in General => At(r.chain) \cap Specific = {}
  PROVE  /\ ChainsAreFine' /\ StillSpoiled
         /\ spoiled' \in [FW!Chains -> SUBSET FW!Names] /\ failures' \in Nat
         /\ \A c \in FW!Chains : At(c)' \subseteq At(c)
         /\ r.name \notin At(r.chain)' \ spoiled'[r.chain]
<1>1. CASE FW!Fails(r.chain, {r.name}) /\ UNCHANGED chain
  <2>1. /\ StillSpoiled /\ r.name \in spoiled'[r.chain]
        /\ spoiled' \in [FW!Chains -> SUBSET FW!Names] /\ failures' \in Nat
    BY <1>1, Failing
  <2>2. (\A c : At(c)' = At(c)) /\ ChainsAreFine'
    BY <1>1, <2>1, Untouched
  <2> QED
    BY <2>1, <2>2
<1>2. CASE chain' = [chain EXCEPT ![r.chain] = FW!RemoveFirst(@, r.name)] /\ UNCHANGED FW!history
  <2> DEFINE s == chain[r.chain]
             t == chain'[r.chain]
  <2>0. /\ StillSpoiled /\ (FW!Unspoiled' <=> FW!Unspoiled) /\ spoiled' = spoiled
        /\ spoiled' \in [FW!Chains -> SUBSET FW!Names] /\ failures' \in Nat
    BY <1>2, Remaining DEF FW!history
  <2>1. s \in Seq(FW!Names) /\ Elems(s) = At(r.chain)
    BY DEF ChainsAreFine, Shaped, At
  <2>2. /\ \A c \in FW!Chains \ {r.chain} : chain'[c] = chain[c]
        /\ t = FW!RemoveFirst(s, r.name)
        /\ chain' = [chain EXCEPT ![r.chain] = t]
    BY <1>2 DEF ChainsAreFine, Shaped
  <2> HIDE DEF s, t
  <2>3. /\ t \in Seq(FW!Names) /\ Elems(t) \subseteq Elems(s)
        /\ \A n : Single(s, n) => Single(t, n)
        /\ Single(s, r.name) => r.name \notin Elems(t)
        /\ \A n \in Elems(s) : n # r.name => n \in Elems(t)
        /\ InOrder(s) => InOrder(t)
    BY <2>1, <2>2, Deleted
  <2>4. /\ At(r.chain)' = Elems(t)
        /\ \A c \in FW!Chains \ {r.chain} : At(c)' = At(c)
        /\ \A c \in FW!Chains : At(c)' \subseteq At(c)
    BY <2>1, <2>2, <2>3 DEF At, t
  <2>5. r.name \notin At(r.chain)' \ spoiled'[r.chain]
    BY <2>0, <2>3, <2>4 DEF ChainsAreFine, Shaped, s
  <2>6. Shaped'
    <3>1. chain' \in [FW!Chains -> Seq(FW!Names)]
      BY <2>2, <2>3 DEF ChainsAreFine, Shaped
    <3>2. \A c \in FW!Chains : At(c)' \subseteq Possible(c)
      BY <2>4 DEF ChainsAreFine, Shaped
    <3>3. \A c \in FW!Chains : \A n \in FW!Names \ spoiled'[c] : Single(chain'[c], n)
      BY <2>0, <2>2, <2>3 DEF ChainsAreFine, Shaped, s, t
    <3> QED
      BY <3>1, <3>2, <3>3 DEF Shaped, Possible
  <2>7. ASSUME FW!Unspoiled' PROVE Ordered'
    <3>1. FW!Unspoiled /\ Ordered
      BY <2>0, <2>7 DEF ChainsAreFine
    <3>2. \A c \in FW!Chains : InOrder(chain'[c])
      BY <2>2, <2>3, <3>1 DEF Ordered, s, t
    <3>3. ASSUME NEW c \in Lists, At(c)' \cap Specific # {} PROVE General \subseteq At(c)'
      <4>1. c \in FW!Chains
        BY DEF Lists, FW!Chains
      <4>2. At(c) \cap Specific # {} /\ General \subseteq At(c)
        BY <2>4, <3>1, <3>3, <4>1 DEF Ordered
      <4>3. CASE c = r.chain
        <5>1. r.name \notin General
          BY <3>1, <4>2, <4>3
        <5> QED
          BY <2>1, <2>3, <2>4, <4>2, <4>3, <5>1
      <4> QED
        BY <2>4, <4>1, <4>2, <4>3
    <3> QED
      BY <3>2, <3>3 DEF Ordered
  <2> QED
    BY <2>0, <2>4, <2>5, <2>6, <2>7 DEF ChainsAreFine
<1> QED
  BY <1>1, <1>2 DEF FW!Delete

(* The rules of older versions or other settings. *)
Foreign == {"all inbound"} \union (IF allowPrivate THEN {"private"} ELSE {})

(* newVPNFirewall's f.stale, by position. *)
LEMMA Pair ==
  ASSUME NEW a, NEW b
  PROVE  <<a>> \o <<b>> = <<a, b>>
<1> DEFINE S == {a, b}
           t == <<a>> \o <<b>>
           u == <<a, b>>
<1>1. t \in Seq(S) /\ Len(t) = 2 /\ t[1] = a /\ t[2] = b
  OBVIOUS
<1>2. u \in Seq(S) /\ Len(u) = 2 /\ u[1] = a /\ u[2] = b
  OBVIOUS
<1>3. \A i \in 1 .. 2 : i = 1 \/ i = 2
  OBVIOUS
<1> HIDE DEF t, S, u
<1>4. t = [i \in 1 .. 2 |-> t[i]] /\ u = [i \in 1 .. 2 |-> u[i]]
  BY <1>1, <1>2
<1>5. t = u
  BY <1>1, <1>2, <1>3, <1>4
<1> QED
  BY <1>5 DEF t, u

LEMMA InChainIs ==
  ASSUME NEW c, NEW a, NEW b
  PROVE  /\ FW!InChain(c, <<a>>) = <<FW!Rule(c, a)>>
         /\ FW!InChain(c, <<a, b>>) = <<FW!Rule(c, a), FW!Rule(c, b)>>
<1>1. FW!InChain(c, <<a>>) = <<FW!Rule(c, a)>>
  BY DEF FW!InChain
<1>2. FW!InChain(c, <<a, b>>) = <<FW!Rule(c, a), FW!Rule(c, b)>>
  BY DEF FW!InChain
<1> QED
  BY <1>1, <1>2

LEMMA StaleRulesAre ==
  ASSUME NEW c
  PROVE  /\ allowPrivate => FW!StaleRules(c) = <<FW!Rule(c, "private"), FW!Rule(c, "all inbound")>>
         /\ ~allowPrivate => FW!StaleRules(c) = <<FW!Rule(c, "all inbound")>>
<1> DEFINE ns == (IF allowPrivate THEN <<"private">> ELSE <<>>) \o <<"all inbound">>
<1>1. FW!StaleRules(c) = FW!InChain(c, ns)
  BY DEF FW!StaleRules
<1>2. ASSUME allowPrivate
      PROVE  FW!StaleRules(c) = <<FW!Rule(c, "private"), FW!Rule(c, "all inbound")>>
  <2>1. ns = <<"private">> \o <<"all inbound">>
    BY <1>2
  <2>2. ns = <<"private", "all inbound">>
    BY <2>1, Pair
  <2>3. FW!InChain(c, <<"private", "all inbound">>)
          = <<FW!Rule(c, "private"), FW!Rule(c, "all inbound")>>
    BY InChainIs
  <2> HIDE DEF ns
  <2> QED
    BY <1>1, <2>2, <2>3
<1>3. ASSUME ~allowPrivate PROVE FW!StaleRules(c) = <<FW!Rule(c, "all inbound")>>
  <2>1. ns = <<>> \o <<"all inbound">>
    BY <1>3
  <2>2. <<>> \o <<"all inbound">> = <<"all inbound">>
    OBVIOUS
  <2>3. FW!InChain(c, <<"all inbound">>) = <<FW!Rule(c, "all inbound")>>
    BY InChainIs
  <2> HIDE DEF ns
  <2> QED
    BY <1>1, <2>1, <2>2, <2>3
<1> QED
  BY <1>2, <1>3

AreForeign(list) ==
  /\ Len(list) \in Nat /\ DOMAIN list = 1 .. Len(list)
  /\ \A i \in DOMAIN list : list[i].chain \in Lists /\ list[i].name \in {"private", "all inbound"}
  /\ \A c \in Lists : \A n \in Foreign : (c = "FORWARD" \/ withDocker) =>
       \E i \in DOMAIN list : list[i].chain = c /\ list[i].name = n

LEMMA StaleFacts == AreForeign(FW!Stale)
<1> DEFINE S == FW!Stale
           f == FW!StaleRules("FORWARD")
           d == FW!StaleRules("DOCKER-USER")
<1> SUFFICES AreForeign(S)
  OBVIOUS
<1>1. S = f \o (IF withDocker THEN d ELSE <<>>)
  BY DEF FW!Stale, FW!OverChains
<1>2. CASE allowPrivate
  <2> DEFINE f1 == FW!Rule("FORWARD", "private")
             f2 == FW!Rule("FORWARD", "all inbound")
             d1 == FW!Rule("DOCKER-USER", "private")
             d2 == FW!Rule("DOCKER-USER", "all inbound")
  <2>1. f = <<f1, f2>> /\ d = <<d1, d2>>
    BY <1>2, StaleRulesAre
  <2>2. /\ f1.chain = "FORWARD" /\ f2.chain = "FORWARD"
        /\ d1.chain = "DOCKER-USER" /\ d2.chain = "DOCKER-USER"
        /\ f1.name = "private" /\ f2.name = "all inbound"
        /\ d1.name = "private" /\ d2.name = "all inbound"
    BY DEF FW!Rule
  <2> HIDE DEF S, f, d, f1, f2, d1, d2
  <2>3. CASE withDocker
    <3>1. S = <<f1, f2>> \o <<d1, d2>>
      BY <1>1, <2>1, <2>3
    <3>2. Len(S) = 4 /\ DOMAIN S = 1 .. 4 /\ S[1] = f1 /\ S[2] = f2 /\ S[3] = d1 /\ S[4] = d2
      BY <3>1
    <3>3. 1 .. 4 = {1, 2, 3, 4}
      OBVIOUS
    <3>4. \A i \in DOMAIN S : S[i].chain \in Lists /\ S[i].name \in {"private", "all inbound"}
      BY <2>2, <3>2, <3>3 DEF Lists
    <3>5. ASSUME NEW c \in Lists, NEW n \in Foreign, c = "FORWARD" \/ withDocker
          PROVE  \E i \in DOMAIN S : S[i].chain = c /\ S[i].name = n
      BY <1>2, <2>3, <2>2, <3>2, <3>3, <3>5 DEF Lists, Foreign
    <3>6. Len(S) \in Nat /\ DOMAIN S = 1 .. Len(S)
      BY <3>2
    <3>7. \A c \in Lists : \A n \in Foreign : (c = "FORWARD" \/ withDocker) =>
            \E i \in DOMAIN S : S[i].chain = c /\ S[i].name = n
      BY <3>5
    <3> QED
      BY <3>4, <3>6, <3>7 DEF AreForeign
  <2>4. CASE ~withDocker
    <3>1. S = <<f1, f2>>
      BY <1>1, <2>1, <2>4
    <3>2. Len(S) = 2 /\ DOMAIN S = 1 .. 2 /\ S[1] = f1 /\ S[2] = f2
      BY <3>1
    <3>3. 1 .. 2 = {1, 2}
      OBVIOUS
    <3>4. \A i \in DOMAIN S : S[i].chain \in Lists /\ S[i].name \in {"private", "all inbound"}
      BY <2>2, <3>2, <3>3 DEF Lists
    <3>5. ASSUME NEW c \in Lists, NEW n \in Foreign, c = "FORWARD" \/ withDocker
          PROVE  \E i \in DOMAIN S : S[i].chain = c /\ S[i].name = n
      BY <1>2, <2>4, <2>2, <3>2, <3>3, <3>5 DEF Lists, Foreign
    <3>6. Len(S) \in Nat /\ DOMAIN S = 1 .. Len(S)
      BY <3>2
    <3>7. \A c \in Lists : \A n \in Foreign : (c = "FORWARD" \/ withDocker) =>
            \E i \in DOMAIN S : S[i].chain = c /\ S[i].name = n
      BY <3>5
    <3> QED
      BY <3>4, <3>6, <3>7 DEF AreForeign
  <2> QED
    BY <2>3, <2>4
<1>3. CASE ~allowPrivate
  <2> DEFINE f2 == FW!Rule("FORWARD", "all inbound")
             d2 == FW!Rule("DOCKER-USER", "all inbound")
  <2>1. f = <<f2>> /\ d = <<d2>>
    BY <1>3, StaleRulesAre
  <2>2. /\ f2.chain = "FORWARD" /\ d2.chain = "DOCKER-USER"
        /\ f2.name = "all inbound" /\ d2.name = "all inbound"
    BY DEF FW!Rule
  <2> HIDE DEF S, f, d, f2, d2
  <2>3. CASE withDocker
    <3>1. S = <<f2>> \o <<d2>>
      BY <1>1, <2>1, <2>3
    <3>2. Len(S) = 2 /\ DOMAIN S = 1 .. 2 /\ S[1] = f2 /\ S[2] = d2
      BY <3>1
    <3>3. 1 .. 2 = {1, 2}
      OBVIOUS
    <3>4. \A i \in DOMAIN S : S[i].chain \in Lists /\ S[i].name \in {"private", "all inbound"}
      BY <2>2, <3>2, <3>3 DEF Lists
    <3>5. ASSUME NEW c \in Lists, NEW n \in Foreign, c = "FORWARD" \/ withDocker
          PROVE  \E i \in DOMAIN S : S[i].chain = c /\ S[i].name = n
      BY <1>3, <2>3, <2>2, <3>2, <3>3, <3>5 DEF Lists, Foreign
    <3>6. Len(S) \in Nat /\ DOMAIN S = 1 .. Len(S)
      BY <3>2
    <3>7. \A c \in Lists : \A n \in Foreign : (c = "FORWARD" \/ withDocker) =>
            \E i \in DOMAIN S : S[i].chain = c /\ S[i].name = n
      BY <3>5
    <3> QED
      BY <3>4, <3>6, <3>7 DEF AreForeign
  <2>4. CASE ~withDocker
    <3>1. S = <<f2>>
      BY <1>1, <2>1, <2>4
    <3>2. Len(S) = 1 /\ DOMAIN S = 1 .. 1 /\ S[1] = f2
      BY <3>1
    <3>3. 1 .. 1 = {1}
      OBVIOUS
    <3>4. \A i \in DOMAIN S : S[i].chain \in Lists /\ S[i].name \in {"private", "all inbound"}
      BY <2>2, <3>2, <3>3 DEF Lists
    <3>5. ASSUME NEW c \in Lists, NEW n \in Foreign, c = "FORWARD" \/ withDocker
          PROVE  \E i \in DOMAIN S : S[i].chain = c /\ S[i].name = n
      BY <1>3, <2>4, <2>2, <3>2, <3>3, <3>5 DEF Lists, Foreign
    <3>6. Len(S) \in Nat /\ DOMAIN S = 1 .. Len(S)
      BY <3>2
    <3>7. \A c \in Lists : \A n \in Foreign : (c = "FORWARD" \/ withDocker) =>
            \E i \in DOMAIN S : S[i].chain = c /\ S[i].name = n
      BY <3>5
    <3> QED
      BY <3>4, <3>6, <3>7 DEF AreForeign
  <2> QED
    BY <2>3, <2>4
<1> QED
  BY <1>2, <1>3

(* With the settings of a start, the lists of rules stay the same. *)
LEMMA SameRules ==
  ASSUME UNCHANGED <<allowPrivate, withDocker>>
  PROVE  R' = R /\ FW!Stale' = FW!Stale /\ \A c : Wanted(c)' = Wanted(c)
<1>1. R' = R
  BY DEF R, FW!Rules, FW!OverChains, FW!ForwardRules
<1>2. FW!Stale' = FW!Stale
  BY DEF FW!Stale, FW!OverChains, FW!StaleRules
<1>3. \A c : Wanted(c)' = Wanted(c)
  BY DEF Wanted, Forwarded
<1> QED
  BY <1>1, <1>2, <1>3

LEMMA ListenKeeps ==
  ASSUME FirewallIInv, NEW allow \in BOOLEAN, FW!Listen(allow)
  PROVE  FirewallIInv'
<1>0. /\ StillSpoiled /\ spoiled' = spoiled
      /\ spoiled' \in [FW!Chains -> SUBSET FW!Names] /\ failures' \in Nat
  BY Remaining DEF FirewallIInv, FW!history, FW!Listen
<1>1. /\ pc = "down" /\ pc' = "setup" /\ ~Running /\ ~Running'
      /\ UNCHANGED <<chain, docker, k, withDocker, ended>> /\ allowPrivate' \in BOOLEAN
  BY DEF FW!Listen, Running
<1>2. ChainsAreFine' /\ DockerIsKnown'
  BY <1>0, <1>1, Untouched DEF FirewallIInv, DockerIsKnown
<1>3. RulesAreGone'
  BY <1>0, <1>1, Untouched DEF FirewallIInv, RulesAreGone
<1> QED
  BY <1>0, <1>1, <1>2, <1>3 DEF FirewallIInv, FW!TypeOK, StaleAreGone, RulesAreThere

LEMMA SetupFailsKeeps ==
  ASSUME FirewallIInv, FW!SetupFails
  PROVE  FirewallIInv'
<1>0. /\ StillSpoiled /\ spoiled' = spoiled
      /\ spoiled' \in [FW!Chains -> SUBSET FW!Names] /\ failures' \in Nat
  BY Remaining DEF FirewallIInv, FW!history, FW!SetupFails
<1>1. /\ pc = "setup" /\ pc' = "down" /\ ~Running /\ ~Running'
      /\ UNCHANGED <<chain, docker, k, withDocker, allowPrivate, ended>>
  BY DEF FW!SetupFails, FW!settings, Running
<1>2. ChainsAreFine' /\ DockerIsKnown' /\ RulesAreGone'
  BY <1>0, <1>1, Untouched DEF FirewallIInv, DockerIsKnown, RulesAreGone
<1> QED
  BY <1>0, <1>1, <1>2 DEF FirewallIInv, FW!TypeOK, StaleAreGone, RulesAreThere

LEMMA CrashKeeps ==
  ASSUME FirewallIInv, FW!Crash
  PROVE  FirewallIInv'
<1>0. /\ StillSpoiled /\ spoiled' = spoiled
      /\ spoiled' \in [FW!Chains -> SUBSET FW!Names] /\ failures' \in Nat
  BY Remaining DEF FirewallIInv, FW!history, FW!Crash
<1>1. /\ pc # "down" /\ pc' = "down" /\ k' = 0 /\ ~Running'
      /\ ended' = (IF pc = "setup" THEN ended ELSE "crashed")
      /\ UNCHANGED <<chain, docker, withDocker, allowPrivate>>
  BY DEF FW!Crash, FW!settings, Running
<1>2. ChainsAreFine' /\ DockerIsKnown'
  BY <1>0, <1>1, Untouched DEF FirewallIInv, DockerIsKnown
<1>3. RulesAreGone'
  BY <1>0, <1>1, Untouched DEF FirewallIInv, RulesAreGone, Running
<1> QED
  BY <1>0, <1>1, <1>2, <1>3 DEF FirewallIInv, FW!TypeOK, StaleAreGone, RulesAreThere

LEMMA DockerStartsKeeps ==
  ASSUME FirewallIInv, FW!DockerStarts
  PROVE  FirewallIInv'
<1>0. /\ StillSpoiled /\ spoiled' = spoiled
      /\ spoiled' \in [FW!Chains -> SUBSET FW!Names] /\ failures' \in Nat
  BY Remaining DEF FirewallIInv, FW!history, FW!DockerStarts
<1>1. docker' = TRUE /\ UNCHANGED <<chain, pc, k, allowPrivate, withDocker, ended>>
  BY DEF FW!DockerStarts
<1>2. /\ R' = R /\ FW!Stale' = FW!Stale /\ (\A c : Wanted(c)' = Wanted(c))
      /\ (\A c : At(c)' = At(c)) /\ ChainsAreFine' /\ Running' = Running
  BY <1>0, <1>1, Untouched, SameRules DEF FirewallIInv, Running
<1>3. DockerIsKnown' /\ StaleAreGone' /\ RulesAreThere' /\ RulesAreGone'
  BY <1>0, <1>1, <1>2 DEF FirewallIInv, DockerIsKnown, StaleAreGone, RulesAreThere, RulesAreGone, Complete
<1> QED
  BY <1>0, <1>1, <1>2, <1>3 DEF FirewallIInv, FW!TypeOK

LEMMA NewFirewallKeeps ==
  ASSUME FirewallIInv, FW!NewFirewall, (Len(FW!Stale) \in Nat)'
  PROVE  FirewallIInv'
<1>1. /\ pc = "setup" /\ pc' = "stale" /\ k' = 1 /\ Running'
      /\ UNCHANGED <<chain, docker, allowPrivate, ended>> /\ FW!TypeOK /\ ChainsAreFine
  BY DEF FW!NewFirewall, Running, FirewallIInv
<1>2. /\ StillSpoiled /\ spoiled' \in [FW!Chains -> SUBSET FW!Names] /\ failures' \in Nat
      /\ withDocker' \in BOOLEAN /\ (withDocker' => docker)
      /\ ~withDocker' => At("DOCKER-USER") \subseteq spoiled'["DOCKER-USER"]
  <2>1. CASE withDocker' = docker /\ UNCHANGED FW!history
    BY <1>1, <2>1, Remaining DEF FirewallIInv, DockerIsKnown, FW!TypeOK
  <2>2. CASE docker /\ withDocker' = FALSE /\ FW!Fails("DOCKER-USER", FW!ToSet(chain["DOCKER-USER"]))
    <3>1. "DOCKER-USER" \in FW!Chains /\ chain["DOCKER-USER"] \in Seq(FW!Names)
      BY <1>1 DEF ChainsAreFine, Shaped, FW!Chains
    <3>2. /\ FW!ToSet(chain["DOCKER-USER"]) = At("DOCKER-USER")
          /\ At("DOCKER-USER") \in SUBSET FW!Names
      BY <3>1 DEF FW!ToSet, At, Elems
    <3> QED
      BY <1>1, <2>2, <3>1, <3>2, Failing
  <2> QED
    BY <2>1, <2>2 DEF FW!NewFirewall
<1>3. (\A c : At(c)' = At(c)) /\ ChainsAreFine'
  BY <1>1, <1>2, Untouched
<1>4. DockerIsKnown'
  BY <1>1, <1>2, <1>3 DEF FirewallIInv, DockerIsKnown
<1> QED
  BY <1>1, <1>2, <1>3, <1>4 DEF FirewallIInv, FW!TypeOK, StaleAreGone, RulesAreThere, RulesAreGone

LEMMA ServeKeeps ==
  ASSUME FirewallIInv, FW!Serve
  PROVE  FirewallIInv'
<1>0. /\ StillSpoiled /\ spoiled' = spoiled
      /\ spoiled' \in [FW!Chains -> SUBSET FW!Names] /\ failures' \in Nat
  BY Remaining DEF FirewallIInv, FW!history, FW!Serve
<1>1. /\ pc = "apply" /\ k \notin DOMAIN R /\ pc' = "serving" /\ k' = 0 /\ Running /\ Running'
      /\ UNCHANGED <<chain, docker, withDocker, allowPrivate, ended>>
  BY DEF FW!Serve, FW!settings, Running, R
<1>2. /\ (\A c : Wanted(c)' = Wanted(c)) /\ (\A c : At(c)' = At(c)) /\ ChainsAreFine'
  BY <1>0, <1>1, Untouched, SameRules DEF FirewallIInv
<1>3. k \in Nat /\ k >= 1 /\ Len(R) \in Nat
  BY <1>1, RulesFacts DEF FirewallIInv, FW!TypeOK
<1>4. k > Len(R)
  BY <1>1, <1>3, RulesFacts
<1>5. Complete
  <2> SUFFICES ASSUME NEW c \in FW!Chains \ {"mangle"}, NEW n \in Wanted(c) PROVE n \in At(c)
    BY DEF Complete
  <2>1. PICK i \in DOMAIN R : R[i].chain = c /\ R[i].name = n
    BY RulesFacts
  <2>2. i + k > Len(R) + 1
    BY <1>3, <1>4, RulesFacts
  <2> QED
    BY <1>1, <2>1, <2>2 DEF FirewallIInv, RulesAreThere
<1>6. DockerIsKnown' /\ StaleAreGone' /\ RulesAreThere' /\ RulesAreGone'
  BY <1>0, <1>1, <1>2, <1>5 DEF FirewallIInv, DockerIsKnown, StaleAreGone, RulesAreThere, RulesAreGone, Complete
<1> QED
  BY <1>0, <1>1, <1>2, <1>6 DEF FirewallIInv, FW!TypeOK

LEMMA ShutdownKeeps ==
  ASSUME FirewallIInv, FW!Shutdown
  PROVE  FirewallIInv'
<1>0. /\ StillSpoiled /\ spoiled' = spoiled
      /\ spoiled' \in [FW!Chains -> SUBSET FW!Names] /\ failures' \in Nat
  BY Remaining DEF FirewallIInv, FW!history, FW!Shutdown
<1>1. /\ pc = "serving" /\ pc' = "cleanup" /\ k' = 1 /\ Running /\ Running'
      /\ UNCHANGED <<chain, docker, withDocker, allowPrivate, ended>>
  BY DEF FW!Shutdown, FW!settings, Running
<1>2. /\ R' = R /\ (\A c : Wanted(c)' = Wanted(c)) /\ (\A c : At(c)' = At(c)) /\ ChainsAreFine'
  BY <1>0, <1>1, Untouched, SameRules DEF FirewallIInv
<1>3. DockerIsKnown' /\ StaleAreGone' /\ RulesAreThere'
  BY <1>0, <1>1, <1>2 DEF FirewallIInv, DockerIsKnown, StaleAreGone, RulesAreThere, Complete
<1>4. RulesAreGone'
  BY <1>0, <1>1, <1>2, RulesFacts DEF RulesAreGone
<1> QED
  BY <1>0, <1>1, <1>2, <1>3, <1>4 DEF FirewallIInv, FW!TypeOK

LEMMA DeleteStaleKeeps ==
  ASSUME FirewallIInv, FW!DeleteStale
  PROVE  FirewallIInv'
<1>1. pc = "stale" /\ Running /\ UNCHANGED <<docker, withDocker, allowPrivate, ended>>
  BY DEF FW!DeleteStale, FW!settings, Running
<1>2. R' = R /\ FW!Stale' = FW!Stale /\ (\A c : Wanted(c)' = Wanted(c))
  BY <1>1, SameRules
<1>3. /\ k \in Nat /\ k >= 1 /\ ChainsAreFine /\ FW!TypeOK
      /\ Len(FW!Stale) \in Nat /\ DOMAIN FW!Stale = 1 .. Len(FW!Stale)
  BY <1>1, StaleFacts DEF FirewallIInv, FW!TypeOK, AreForeign
<1>4. CASE k > Len(FW!Stale)
  <2>1. /\ pc' = "apply" /\ k' = 1 /\ UNCHANGED chain /\ Running'
        /\ StillSpoiled /\ spoiled' = spoiled
        /\ spoiled' \in [FW!Chains -> SUBSET FW!Names] /\ failures' \in Nat
    BY <1>3, <1>4, Remaining DEF FW!DeleteStale, Running, FW!history
  <2>2. (\A c : At(c)' = At(c)) /\ ChainsAreFine'
    BY <1>3, <2>1, Untouched
  <2>3. ASSUME NEW c \in FW!Chains, NEW n \in At(c) \ spoiled[c] PROVE n \in Wanted(c)
    <3>1. n \in Possible(c)
      BY <1>3, <2>3 DEF ChainsAreFine, Shaped
    <3>2. CASE c \notin Lists
      BY <3>1, <3>2 DEF Possible, Wanted, Lists, FW!Chains
    <3>3. CASE c \in Lists
      <4>1. c = "FORWARD" \/ withDocker
        BY <1>1, <2>3, <3>3 DEF FirewallIInv, DockerIsKnown, Lists
      <4>2. n \in AllForwarded
        BY <3>1, <3>3 DEF Possible, Lists
      <4>3. n \notin Foreign
        <5> SUFFICES ASSUME n \in Foreign PROVE FALSE
          OBVIOUS
        <5>1. PICK i \in DOMAIN FW!Stale : FW!Stale[i].chain = c /\ FW!Stale[i].name = n
          BY <3>3, <4>1, StaleFacts DEF AreForeign
        <5>2. i < k
          BY <1>3, <1>4
        <5> QED
          BY <1>1, <2>3, <5>1, <5>2 DEF FirewallIInv, StaleAreGone
      <4>4. n \in Forwarded
        BY <4>2, <4>3 DEF AllForwarded, Foreign, Forwarded
      <4>5. Wanted(c) = Forwarded
        BY <3>3, <4>1 DEF Wanted, Lists
      <4> QED
        BY <4>4, <4>5
    <3> QED
      BY <3>2, <3>3
  <2>4. DockerIsKnown' /\ StaleAreGone' /\ RulesAreGone'
    BY <1>1, <1>2, <2>1, <2>2, <2>3 DEF FirewallIInv, DockerIsKnown, StaleAreGone, RulesAreGone
  <2>5. RulesAreThere'
    BY <1>2, <2>1, RulesFacts DEF RulesAreThere
  <2> QED
    BY <1>1, <2>1, <2>2, <2>4, <2>5 DEF FirewallIInv, FW!TypeOK, ChainsAreFine, Shaped
<1>5. CASE ~(k > Len(FW!Stale))
  <2>0. PICK r : r = FW!Stale[k]
    OBVIOUS
  <2>1. FW!Delete(r) /\ k' = k + 1 /\ pc' = pc /\ Running'
    BY <1>1, <1>5, <2>0 DEF FW!DeleteStale, Running
  <2>2. k \in DOMAIN FW!Stale
    BY <1>3, <1>5
  <2>3. r.chain \in FW!Chains /\ r.name \in FW!Names /\ r.name \notin General
    BY <2>0, <2>2, StaleFacts DEF AreForeign, Lists, FW!Chains, FW!Names, General
  <2>4. /\ ChainsAreFine' /\ StillSpoiled
        /\ spoiled' \in [FW!Chains -> SUBSET FW!Names] /\ failures' \in Nat
        /\ \A c \in FW!Chains : At(c)' \subseteq At(c)
        /\ r.name \notin At(r.chain)' \ spoiled'[r.chain]
    BY <1>3, <2>1, <2>3, Deleting
  <2>5. DockerIsKnown'
    BY <1>1, <2>1, <2>4 DEF FirewallIInv, DockerIsKnown, FW!Chains, Running, StillSpoiled
  <2>6. StaleAreGone'
    <3> SUFFICES ASSUME NEW i \in DOMAIN FW!Stale, NEW c \in FW!Chains, i < k + 1,
                        FW!Stale[i].chain = c
                 PROVE  FW!Stale[i].name \notin At(c)' \ spoiled'[c]
      BY <1>1, <1>2, <2>1 DEF StaleAreGone
    <3>2. i = k \/ i < k
      BY <1>3
    <3>3. CASE i = k
      BY <2>0, <2>4, <3>3
    <3>4. CASE i < k
      BY <1>1, <2>4, <3>4 DEF FirewallIInv, StaleAreGone, StillSpoiled
    <3> QED
      BY <3>2, <3>3, <3>4
  <2>7. FW!TypeOK' /\ k + 1 >= 1
    BY <1>1, <1>3, <2>1, <2>4 DEF FirewallIInv, FW!TypeOK, ChainsAreFine, Shaped
  <2>8. RulesAreThere' /\ RulesAreGone'
    BY <1>1, <2>1 DEF RulesAreThere, RulesAreGone
  <2> QED
    BY <2>1, <2>4, <2>5, <2>6, <2>7, <2>8 DEF FirewallIInv
<1> QED
  BY <1>4, <1>5

(* The rule apply looks at: the last of those it has not seen. *)
LEMMA Looking ==
  ASSUME FirewallIInv, pc = "apply", k \in DOMAIN R
  PROVE  LET m == Len(R) + 1 - k IN
         /\ m \in DOMAIN R /\ FW!FromTheEnd(k) = R[m] /\ k \in Nat /\ m \in Int
         /\ \A i \in DOMAIN R : (i > m => i + k > Len(R) + 1) /\ (i + (k + 1) > Len(R) + 1 => i = m \/ i + k > Len(R) + 1)
<1>1. DOMAIN R = 1 .. Len(R) /\ Len(R) \in Nat
  BY RulesFacts
<1>2. FW!FromTheEnd(k) = R[Len(R) + 1 - k]
  BY DEF FW!FromTheEnd, R
<1> QED
  BY <1>1, <1>2

LEMMA ApplyRuleKeeps ==
  ASSUME FirewallIInv, FW!ApplyRule
  PROVE  FirewallIInv'
<1>0. PICK m, r : m = Len(R) + 1 - k /\ r = R[m]
  OBVIOUS
<1>1. /\ pc = "apply" /\ pc' = "apply" /\ k \in DOMAIN R /\ k' = k + 1 /\ Running /\ Running'
      /\ UNCHANGED <<docker, withDocker, allowPrivate, ended>>
      /\ LET e == FW!FromTheEnd(k) IN
         \/ FW!Has(e) /\ UNCHANGED <<chain, FW!history>>
         \/ ~FW!Has(e) /\ FW!Add(e) /\ UNCHANGED FW!history
         \/ FW!Has(e) /\ FW!Fails(e.chain, {e.name}) /\ FW!Add(e)
      /\ FW!TypeOK
  BY DEF FW!ApplyRule, FW!settings, Running, R, FirewallIInv
<1>2. R' = R /\ (\A c : Wanted(c)' = Wanted(c))
  BY <1>1, SameRules
<1>3. /\ m \in DOMAIN R /\ FW!FromTheEnd(k) = r /\ k \in Nat /\ ChainsAreFine
      /\ \A i \in DOMAIN R : /\ i > m => i + k > Len(R) + 1
                             /\ i + (k + 1) > Len(R) + 1 => i = m \/ i + k > Len(R) + 1
  BY <1>0, <1>1, Looking DEF FirewallIInv
<1>4. r.chain \in FW!Chains /\ r.name \in Wanted(r.chain)
  BY <1>0, <1>3, RulesFacts
<1>5. FW!Has(r) <=> r.name \in At(r.chain)
  BY DEF FW!Has, FW!ToSet, At, Elems
<1>11. r.name \in FW!Names /\ r.name \in Possible(r.chain)
  BY <1>4 DEF Wanted, Possible, Forwarded, AllForwarded, FW!Names, FW!Chains, Lists
<1>6. /\ ChainsAreFine' /\ r.name \in At(r.chain)' /\ StillSpoiled
      /\ spoiled' \in [FW!Chains -> SUBSET FW!Names] /\ failures' \in Nat
      /\ \A c \in FW!Chains : At(c)' = IF c = r.chain THEN At(c) \union {r.name} ELSE At(c)
  <2>1. CASE FW!Has(r) /\ UNCHANGED <<chain, FW!history>>
    <3>1. /\ StillSpoiled
          /\ spoiled' \in [FW!Chains -> SUBSET FW!Names] /\ failures' \in Nat
      BY <1>1, <2>1, Remaining
    <3> QED
      BY <1>3, <1>5, <2>1, <3>1, Untouched
  <2>2. CASE \/ ~FW!Has(r) /\ FW!Add(r) /\ UNCHANGED FW!history
             \/ FW!Has(r) /\ FW!Fails(r.chain, {r.name}) /\ FW!Add(r)
    <3>1. /\ FW!Add(r) /\ StillSpoiled /\ (r.name \in At(r.chain) => r.name \in spoiled'[r.chain])
          /\ spoiled' \in [FW!Chains -> SUBSET FW!Names] /\ failures' \in Nat
      BY <1>1, <1>4, <1>5, <1>11, <2>2, Failing, Remaining
    <3>3. (r.name \in Wide \/ r.name \in Specific) => r.chain \in Lists /\ r.name \in Forwarded
      BY <1>4 DEF Wanted, Wide, Specific, Lists, FW!Chains
    <3>2. FW!Unspoiled' => ~FW!Has(r) /\ FW!Unspoiled
      BY <1>4, <1>5, <3>1 DEF FW!Unspoiled, StillSpoiled
    <3>4. ASSUME FW!Unspoiled', r.name \in Wide PROVE At(r.chain) \cap Specific = {}
      <4>1. r.name \in General
        BY <3>3, <3>4 DEF Wide, General, Forwarded
      <4> QED
        BY <1>3, <1>5, <3>2, <3>3, <3>4, <4>1 DEF ChainsAreFine, Ordered
    <3>5. ASSUME r.name \in Specific, NEW n \in General PROVE n \in At(r.chain)
      <4>1. n \in Wanted(r.chain) /\ r.chain \in Lists /\ r.name \notin General
        BY <1>4, <3>3, <3>5 DEF Wanted, Lists, FW!Chains, General, Forwarded, Specific
      <4>2. PICK i \in DOMAIN R : R[i].chain = r.chain /\ R[i].name = n
        BY <1>4, <4>1, RulesFacts
      <4>3. m < i
        BY <1>0, <1>3, <4>1, <4>2, RulesFacts
      <4>4. i > m
        BY <1>3, <4>3, RulesFacts
      <4>5. r.chain # "mangle"
        BY <4>1 DEF Lists
      <4> QED
        BY <1>1, <1>3, <1>4, <4>2, <4>4, <4>5 DEF FirewallIInv, RulesAreThere
    <3>6. /\ ChainsAreFine'
          /\ \A c \in FW!Chains : At(c)' = IF c = r.chain THEN At(c) \union {r.name} ELSE At(c)
      BY <1>3, <1>4, <1>11, <3>1, <3>4, <3>5, Adding
    <3> QED
      BY <1>4, <3>1, <3>6
  <2> QED
    BY <1>1, <1>3, <2>1, <2>2
<1>7. DockerIsKnown'
  <2>1. r.chain = "DOCKER-USER" => withDocker
    <3> QED
      BY <1>4 DEF Wanted
  <2> QED
    BY <1>1, <1>6, <2>1 DEF FirewallIInv, DockerIsKnown, FW!Chains, StillSpoiled
<1>8. StaleAreGone'
  BY <1>1, <1>2, <1>4, <1>6 DEF FirewallIInv, StaleAreGone, StillSpoiled
<1>9. RulesAreThere'
  <2> SUFFICES ASSUME NEW i \in DOMAIN R, NEW c \in FW!Chains \ {"mangle"},
                      i + (k + 1) > Len(R) + 1, R[i].chain = c
               PROVE  R[i].name \in At(c)'
    BY <1>1, <1>2 DEF RulesAreThere
  <2>1. i = m \/ R[i].name \in At(c)
    BY <1>1, <1>3 DEF FirewallIInv, RulesAreThere
  <2> QED
    BY <1>0, <1>6, <2>1
<1>10. FW!TypeOK' /\ k + 1 >= 1
  BY <1>1, <1>3, <1>6 DEF FirewallIInv, FW!TypeOK, ChainsAreFine, Shaped
<1> QED
  BY <1>1, <1>6, <1>7, <1>8, <1>9, <1>10 DEF FirewallIInv, RulesAreGone

LEMMA CannotAddKeeps ==
  ASSUME FirewallIInv, FW!CannotAdd
  PROVE  FirewallIInv'
<1> DEFINE m == Len(R) + 1 - k
<1>0. /\ StillSpoiled /\ spoiled' = spoiled
      /\ spoiled' \in [FW!Chains -> SUBSET FW!Names] /\ failures' \in Nat
  BY Remaining DEF FirewallIInv, FW!history, FW!CannotAdd
<1>1. /\ pc = "apply" /\ k \in DOMAIN R /\ Running
      /\ UNCHANGED <<chain, docker, withDocker, allowPrivate, ended>>
      /\ IF FW!Optional(FW!FromTheEnd(k)) THEN k' = k + 1 /\ pc' = pc ELSE pc' = "undo" /\ k' = 1
  BY DEF FW!CannotAdd, FW!settings, FW!RemoveAll, Running, R
<1>2. /\ R' = R /\ (\A c : Wanted(c)' = Wanted(c)) /\ (\A c : At(c)' = At(c)) /\ ChainsAreFine'
      /\ Running'
  BY <1>0, <1>1, SameRules, Untouched DEF FirewallIInv, Running
<1>3. /\ m \in DOMAIN R /\ FW!FromTheEnd(k) = R[m] /\ k \in Nat
      /\ \A i \in DOMAIN R : i + (k + 1) > Len(R) + 1 => i = m \/ i + k > Len(R) + 1
  BY <1>1, Looking
<1>4. DockerIsKnown' /\ StaleAreGone'
  BY <1>0, <1>1, <1>2 DEF FirewallIInv, DockerIsKnown, StaleAreGone
<1>5. RulesAreThere'
  <2> SUFFICES ASSUME pc' = "apply", NEW i \in DOMAIN R, NEW c \in FW!Chains \ {"mangle"},
                      i + (k + 1) > Len(R) + 1, R[i].chain = c
               PROVE  R[i].name \in At(c)
    BY <1>0, <1>1, <1>2 DEF RulesAreThere
  <2>1. FW!Optional(R[m])
    BY <1>1, <1>3
  <2>2. i = m \/ i + k > Len(R) + 1
    BY <1>3
  <2> QED
    BY <1>1, <2>1, <2>2 DEF FirewallIInv, RulesAreThere, FW!Optional
<1>6. RulesAreGone'
  BY <1>0, <1>1, <1>2, RulesFacts DEF RulesAreGone
<1> QED
  BY <1>0, <1>1, <1>2, <1>3, <1>4, <1>5, <1>6 DEF FirewallIInv, FW!TypeOK

LEMMA RemoveRulesKeeps ==
  ASSUME FirewallIInv, FW!RemoveRules
  PROVE  FirewallIInv'
<1>1. pc \in {"undo", "cleanup"} /\ Running /\ UNCHANGED <<docker, withDocker, allowPrivate>>
  BY DEF FW!RemoveRules, FW!settings, Running
<1>2. R' = R /\ (\A c : Wanted(c)' = Wanted(c))
  BY <1>1, SameRules
<1>3. /\ k \in Nat /\ k >= 1 /\ ChainsAreFine /\ Len(R) \in Nat /\ DOMAIN R = 1 .. Len(R)
      /\ FW!TypeOK
      /\ \A c \in FW!Chains : At(c) \subseteq Wanted(c) \union spoiled[c]
      /\ \A i \in DOMAIN R, c \in FW!Chains :
           i < k /\ R[i].chain = c => R[i].name \notin At(c) \ spoiled[c]
  BY <1>1, RulesFacts DEF FirewallIInv, FW!TypeOK, StaleAreGone, RulesAreGone
<1>4. CASE k > Len(R)
  <2>1. /\ pc' = "down" /\ k' = 0 /\ ended' = "orderly" /\ UNCHANGED <<chain, failures>>
        /\ spoiled' = [c \in FW!Chains |-> spoiled[c] \cap FW!ToSet(chain[c])] /\ ~Running'
    BY <1>4 DEF FW!RemoveRules, R, Running
  <2>2. \A c : At(c)' = At(c) /\ FW!ToSet(chain[c]) = At(c)
    BY <2>1 DEF At, Elems, FW!ToSet
  <2>3. ASSUME NEW c \in FW!Chains, NEW n \in At(c) PROVE n \in spoiled[c]
    <3> SUFFICES ASSUME n \in Wanted(c) PROVE n \in spoiled[c]
      BY <1>3, <2>3
    <3>1. PICK i \in DOMAIN R : R[i].chain = c /\ R[i].name = n
      BY <1>3, <2>3, RulesFacts
    <3>2. i < k
      BY <1>3, <1>4
    <3> QED
      BY <1>3, <2>3, <3>1, <3>2
  <2>4. \A c \in FW!Chains : spoiled'[c] = At(c)
    BY <2>1, <2>2, <2>3
  <2>5. spoiled' \in [FW!Chains -> SUBSET FW!Names]
    BY <1>3, <2>1 DEF FW!TypeOK
  <2>6. Shaped'
    <3>1. \A c \in FW!Chains : \A n \in FW!Names \ spoiled'[c] : Single(chain[c], n)
      BY <2>4 DEF Single, At, Elems
    <3> QED
      BY <1>3, <2>1, <2>2, <3>1 DEF ChainsAreFine, Shaped, Possible
  <2>7. FW!Unspoiled' => Ordered'
    <3> SUFFICES ASSUME FW!Unspoiled' PROVE Ordered'
      OBVIOUS
    <3>1. \A c \in FW!Chains : At(c)' = {}
      BY <2>2, <2>4 DEF FW!Unspoiled
    <3>2. \A c \in FW!Chains : InOrder(chain'[c])
      BY <3>1 DEF InOrder, At, Elems
    <3> QED
      BY <3>1, <3>2 DEF Ordered, Lists, FW!Chains
  <2>8. DockerIsKnown' /\ RulesAreGone'
    BY <1>1, <2>1, <2>2, <2>4 DEF FirewallIInv, DockerIsKnown, RulesAreGone
  <2> QED
    BY <1>1, <1>3, <2>1, <2>2, <2>5, <2>6, <2>7, <2>8
    DEF FirewallIInv, FW!TypeOK, StaleAreGone, RulesAreThere, ChainsAreFine
<1>5. CASE ~(k > Len(R))
  <2>0. PICK r : r = R[k]
    OBVIOUS
  <2>1. FW!Delete(r) /\ k' = k + 1 /\ pc' = pc /\ ended' = ended /\ Running'
    BY <1>1, <1>5, <2>0 DEF FW!RemoveRules, Running, R
  <2>2. k \in DOMAIN R
    BY <1>3, <1>5
  <2>3. r.chain \in FW!Chains /\ r.name \in Wanted(r.chain) /\ r.name \in FW!Names
    <3>1. r.chain \in FW!Chains /\ r.name \in Wanted(r.chain)
      BY <2>0, <2>2, RulesFacts
    <3> QED
      BY <3>1 DEF Wanted, Forwarded, FW!Names, FW!Chains
  <2>4. ASSUME FW!Unspoiled, r.name \in General, NEW n \in At(r.chain) \cap Specific PROVE FALSE
    <3>1. n \in Wanted(r.chain) /\ r.chain \in Lists /\ n \notin General
      <4>1. n \in Wanted(r.chain)
        BY <1>3, <2>3, <2>4 DEF FW!Unspoiled
      <4> QED
        BY <2>3, <2>4, <4>1 DEF Wanted, Lists, FW!Chains, General, Specific
    <3>2. PICK i \in DOMAIN R : R[i].chain = r.chain /\ R[i].name = n
      BY <2>3, <3>1, RulesFacts
    <3>3. i < k
      BY <2>0, <2>2, <2>4, <3>1, <3>2, RulesFacts
    <3> QED
      BY <1>3, <2>3, <2>4, <3>2, <3>3 DEF FW!Unspoiled
  <2>5. /\ ChainsAreFine' /\ StillSpoiled
        /\ spoiled' \in [FW!Chains -> SUBSET FW!Names] /\ failures' \in Nat
        /\ \A c \in FW!Chains : At(c)' \subseteq At(c)
        /\ r.name \notin At(r.chain)' \ spoiled'[r.chain]
    BY <1>3, <2>1, <2>3, <2>4, Deleting
  <2>6. DockerIsKnown' /\ StaleAreGone'
    BY <1>1, <1>2, <1>3, <2>1, <2>5 DEF FirewallIInv, DockerIsKnown, StaleAreGone, FW!Chains, StillSpoiled
  <2>7. RulesAreThere'
    BY <1>1, <1>3, <2>1 DEF RulesAreThere
  <2>8. RulesAreGone'
    <3> SUFFICES ASSUME NEW i \in DOMAIN R, NEW c \in FW!Chains, i < k + 1, R[i].chain = c
                 PROVE  R[i].name \notin At(c)' \ spoiled'[c]
      BY <1>1, <1>2, <2>1 DEF RulesAreGone
    <3>2. i = k \/ i < k
      BY <1>3
    <3>3. CASE i = k
      BY <2>0, <2>5, <3>3
    <3>4. CASE i < k
      BY <1>3, <2>5, <3>4 DEF StillSpoiled
    <3> QED
      BY <3>2, <3>3, <3>4
  <2>9. FW!TypeOK' /\ (k + 1 \in Nat /\ k + 1 >= 1)
    BY <1>1, <1>3, <2>1, <2>5 DEF FirewallIInv, FW!TypeOK, ChainsAreFine, Shaped
  <2> QED
    BY <2>1, <2>5, <2>6, <2>7, <2>8, <2>9 DEF FirewallIInv
<1> QED
  BY <1>4, <1>5

(* From whatever a crash, failing commands or another setting have left,   *)
(* the steps of apply and remove (vpn_setup.go:305-333) lead where they    *)
(* should.                                                                 *)
THEOREM FirewallInvariant == FW!Spec => []FirewallIInv
<1>1. FirewallIInv /\ [FW!Next]_FW!vars => FirewallIInv'
  <2> SUFFICES ASSUME FirewallIInv, [FW!Next]_FW!vars PROVE FirewallIInv'
    OBVIOUS
  <2>1. CASE UNCHANGED FW!vars
    <3>0. UNCHANGED <<chain, docker, pc, k, allowPrivate, withDocker, ended, spoiled, failures>>
      BY <2>1 DEF FW!vars, FW!history
    <3>1. UNCHANGED <<chain, docker, pc, k, allowPrivate, withDocker, ended, spoiled, failures>>
          /\ StillSpoiled
      BY <3>0 DEF StillSpoiled
    <3>2. /\ R' = R /\ FW!Stale' = FW!Stale /\ (\A c : Wanted(c)' = Wanted(c))
          /\ (\A c : At(c)' = At(c)) /\ ChainsAreFine' /\ Running' = Running
      BY <3>1, Untouched, SameRules DEF FirewallIInv, Running
    <3> QED
      BY <3>1, <3>2 DEF FirewallIInv, FW!TypeOK, DockerIsKnown, StaleAreGone, RulesAreThere,
                        RulesAreGone, Complete
  <2>2. CASE \E allow \in BOOLEAN : FW!Listen(allow)
    BY <2>2, ListenKeeps
  <2>3. CASE FW!NewFirewall
    <3>1. (AreForeign(FW!Stale))'
      BY StaleFacts, PTL
    <3> QED
      BY <2>3, <3>1, NewFirewallKeeps DEF AreForeign
  <2>4. CASE FW!SetupFails \/ FW!Crash \/ FW!DockerStarts \/ FW!Serve \/ FW!Shutdown
    BY <2>4, SetupFailsKeeps, CrashKeeps, DockerStartsKeeps, ServeKeeps, ShutdownKeeps
  <2>5. CASE FW!DeleteStale \/ FW!RemoveRules
    BY <2>5, DeleteStaleKeeps, RemoveRulesKeeps
  <2>6. CASE FW!ApplyRule \/ FW!CannotAdd
    BY <2>6, ApplyRuleKeeps, CannotAddKeeps
  <2> QED
    BY <2>1, <2>2, <2>3, <2>4, <2>5, <2>6 DEF FW!Next
<1> QED
  BY <1>1, FirewallInit, PTL DEF FW!Spec

(* As long as no command has failed for a rule that is there, clients      *)
(* reach what they may and nothing else from the first packet of a start   *)
(* to the removal of NAT (vpn_setup.go:241-333).                           *)
THEOREM ClientsAreProtected == FW!Spec => []Protected
BY FirewallInvariant, FirewallSafe, PTL

(* Whichever commands fail, clients are only served with all rules         *)
(* (vpn_setup.go:299-301, 307-323).                                        *)
THEOREM NoRuleIsMissing == FW!Spec => []NothingMissing
BY FirewallInvariant, FirewallSafe, PTL

(* An orderly end leaves no rule but those for which a command has failed  *)
(* (vpn_setup.go:300-303, 328-333).                                        *)
THEOREM NoRuleStays == FW!Spec => []NothingStays
BY FirewallInvariant, FirewallSafe, PTL
=============================================================================
