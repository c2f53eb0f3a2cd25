--------------------------- MODULE ReliableProofs ---------------------------
(***************************************************************************)
(* The safety properties of Reliable, proved for any number of clients,    *)
(* sessions and apps and for any limits.                                   *)
(*                                                                         *)
(* The inductive invariant adds how far the parts of a client have come.   *)
(* s.mu is held over a dial (DialsAreHeld): the dial is the first one of   *)
(* the program or has one app behind it, which has no stream yet.  So a    *)
(* dial never starts while another one is under way, and the stream opened *)
(* after it never takes the place of one that is still counted             *)
(* (AppsAreTidy).  A client that is dialing has no session                 *)
(* (NoSecondSession), and one that is off has nothing (OffHasNothing).     *)
(* Finiteness of what is counted is an invariant, not an assumption.       *)
(***************************************************************************)
EXTENDS Reliable, FiniteSetTheorems, TLAPS

(* An app has no stream before openStream returned one, and belongs to a   *)
(* client that runs; a stream that is not over has a key to count it for.  *)
AppsAreTidy ==
  \A a \in Apps :
    /\ stream[a].app \in {"opening", "dialing"} => stream[a].srv = "done"
    /\ stream[a].app # "none" => stream[a].of \in Clients /\ run[stream[a].of] = "up"
    /\ stream[a].srv # "done" => stream[a].of \in Clients

DialsAreHeld ==
  \A c \in Clients :
    /\ holder[c] # None =>
         /\ dialed[c] # None /\ run[c] = "up"
         /\ stream[holder[c]].app = "dialing" /\ stream[holder[c]].of = c
    /\ holder[c] = None /\ dialed[c] # None => run[c] = "starting"

NoSecondSession == \A c \in Clients : None \in {sess[c], dialed[c]}

OffHasNothing ==
  \A c \in Clients : run[c] = "off" => sess[c] = None /\ dialed[c] = None /\ ~fatal[c]

OpenAreOwned == \A s \in Sessions : session[s].client => session[s].owner \in Clients

WorkingApps == {a \in Apps : stream[a].srv \in Working}

StreamsAreCounted ==
  /\ \A c \in Clients :
       /\ IsFiniteSet(WorkingFor(c))
       /\ perKey[c] = Cardinality(WorkingFor(c)) /\ perKey[c] <= MaxPerKey
  /\ IsFiniteSet(WorkingApps)
  /\ total = Cardinality(WorkingApps) /\ total <= MaxTotal

SlotsAreCounted ==
  /\ IsFiniteSet(Handling)
  /\ slots = Cardinality(Handling) /\ slots <= MaxActiveConns

IInv ==
  /\ TypeOK
  /\ AppsAreTidy /\ DialsAreHeld
  /\ NoSecondSession /\ OffHasNothing /\ OpenAreOwned /\ OneSession
  /\ StreamsAreCounted /\ SlotsAreCounted

-----------------------------------------------------------------------------
(* Types, and what the updates of records do.                              *)
SessionStates ==
  [owner : Clients \union {None}, client : BOOLEAN,
   server : {"pending", "refused", "handshake", "serving", "done"},
   ok : BOOLEAN, cut : BOOLEAN]

AppSteps == {"none", "opening", "dialing", "target", "status", "relay", "half"}
SrvSteps == {"coming", "done"} \union Working
Answers == {"none", "ok", "failed"}

StreamStates ==
  [app : AppSteps, srv : SrvSteps, of : Clients \union {None},
   on : Sessions \union {None}, answer : Answers]

ClientTypes ==
  /\ run \in [Clients -> {"off", "starting", "up"}]
  /\ sess \in [Clients -> Sessions \union {None}]
  /\ dialed \in [Clients -> Sessions \union {None}]
  /\ holder \in [Clients -> Apps \union {None}]
  /\ waits \in [Clients -> BOOLEAN] /\ fatal \in [Clients -> BOOLEAN]

CountTypes ==
  /\ perKey \in [Clients -> 0 .. MaxPerKey] /\ total \in 0 .. MaxTotal
  /\ slots \in 0 .. MaxActiveConns

LEMMA Types ==
  TypeOK <=> /\ ClientTypes /\ CountTypes
             /\ session \in [Sessions -> SessionStates] /\ stream \in [Apps -> StreamStates]
  BY DEF TypeOK, ClientTypes, CountTypes, SessionStates, StreamStates, AppSteps, SrvSteps, Answers

LEMMA TypesPrimed ==
  TypeOK' <=> /\ ClientTypes' /\ CountTypes'
              /\ session' \in [Sessions -> SessionStates] /\ stream' \in [Apps -> StreamStates]
  BY DEF TypeOK, ClientTypes, CountTypes, SessionStates, StreamStates, AppSteps, SrvSteps, Answers

(* The handlers of sessions that have a slot. *)
Busy == {"handshake", "serving"}

LEMMA NoSessionIs ==
  /\ NoSession \in SessionStates
  /\ ~NoSession.client /\ NoSession.server = "done" /\ NoSession.owner = None
  BY DEF NoSession, SessionStates

LEMMA NewSessionIs ==
  ASSUME NEW c \in Clients
  PROVE  /\ NewSession(c) \in SessionStates /\ NewSession(c).owner = c
         /\ NewSession(c).client /\ NewSession(c).server = "pending"
  BY DEF NewSession, NoSession, SessionStates

LEMMA TidyIs ==
  ASSUME NEW r \in SessionStates
  PROVE  /\ Tidy(r) \in SessionStates /\ Tidy(r).client = r.client
         /\ Tidy(r).server \in Busy <=> r.server \in Busy
         /\ r.client => Tidy(r).owner = r.owner
<1> DEFINE ended == r.server \in {"refused", "done"}
           p == [r EXCEPT !.cut = r.cut /\ r.client /\ ~ended]
           q == [p EXCEPT !.ok = r.ok /\ r.client]
<1>1. Tidy(r) = IF ~r.client /\ ended THEN NoSession ELSE q
  BY DEF Tidy, SessionStates
<1>2. /\ p \in SessionStates /\ p.client = r.client /\ p.server = r.server /\ p.owner = r.owner
  BY DEF SessionStates
<1> HIDE DEF p
<1>3. /\ q \in SessionStates /\ q.client = r.client /\ q.server = r.server /\ q.owner = r.owner
  BY <1>2 DEF SessionStates
<1> HIDE DEF q
<1>4. CASE ~r.client /\ ended
  <2>1. Tidy(r) = NoSession /\ r.client = FALSE /\ NoSession.client = FALSE
    BY <1>1, <1>4 DEF SessionStates, NoSession
  <2> QED
    BY <1>4, <2>1, NoSessionIs DEF Busy
<1>5. CASE ~(~r.client /\ ended)
  BY <1>1, <1>3, <1>5
<1> QED
  BY <1>4, <1>5

LEMMA NoStreamIs ==
  /\ NoStream \in StreamStates
  /\ NoStream.app = "none" /\ NoStream.srv = "done" /\ NoStream.of = None
  BY DEF NoStream, StreamStates, AppSteps, SrvSteps, Answers

LEMMA TidyStreamIs ==
  ASSUME NEW r \in StreamStates
  PROVE  LET q == TidyStream(r) IN
         /\ q \in StreamStates /\ q.app = r.app /\ q.srv = r.srv
         /\ r.app # "none" \/ r.srv # "done" => q.of = r.of
<1> DEFINE p == [r EXCEPT !.answer = "none"]
<1>1. p \in StreamStates /\ p.app = r.app /\ p.srv = r.srv /\ p.of = r.of
  BY DEF StreamStates, Answers
<1> HIDE DEF p
<1> QED
  BY <1>1, NoStreamIs DEF TidyStream, p

-----------------------------------------------------------------------------
(* The counts.                                                             *)
LEMMA SlotsSteady ==
  ASSUME IInv, UNCHANGED slots,
         \A s \in Sessions : session'[s].server \in Busy <=> session[s].server \in Busy
  PROVE  SlotsAreCounted'
<1>1. Handling' = Handling
  BY DEF Handling, Busy
<1> QED
  BY <1>1 DEF IInv, SlotsAreCounted

LEMMA SlotTaken ==
  ASSUME IInv, NEW s \in Sessions, slots < MaxActiveConns, slots' = slots + 1,
         session[s].server \notin Busy, session'[s].server \in Busy,
         \A t \in Sessions : t # s => session'[t] = session[t]
  PROVE  SlotsAreCounted' /\ slots' \in 0 .. MaxActiveConns
<1>1. Handling' = Handling \union {s} /\ s \notin Handling
  BY DEF Handling, Busy
<1>2. IsFiniteSet(Handling) /\ slots = Cardinality(Handling)
  BY DEF IInv, SlotsAreCounted
<1>3. IsFiniteSet(Handling') /\ Cardinality(Handling') = Cardinality(Handling) + 1
  BY <1>1, <1>2, FS_AddElement
<1>4. slots \in Nat
  BY Types DEF IInv, CountTypes
<1> QED
  BY <1>2, <1>3, <1>4, ReliableAssumption DEF SlotsAreCounted

LEMMA SlotGiven ==
  ASSUME IInv, NEW s \in Sessions, slots' = slots - 1,
         session[s].server \in Busy, session'[s].server \notin Busy,
         \A t \in Sessions : t # s => session'[t] = session[t]
  PROVE  SlotsAreCounted' /\ slots' \in 0 .. MaxActiveConns
<1>1. Handling' = Handling \ {s} /\ s \in Handling
  BY DEF Handling, Busy
<1>2. IsFiniteSet(Handling) /\ slots = Cardinality(Handling) /\ slots <= MaxActiveConns
  BY DEF IInv, SlotsAreCounted
<1>3. IsFiniteSet(Handling') /\ Cardinality(Handling') = Cardinality(Handling) - 1
  BY <1>1, <1>2, FS_RemoveElement
<1>4. Cardinality(Handling') \in Nat /\ slots \in Nat
  BY <1>3, Types, FS_CardinalityType DEF IInv, CountTypes
<1> QED
  BY <1>2, <1>3, <1>4, ReliableAssumption DEF SlotsAreCounted

(* Whether a handler works, and for whom. *)
SameWork(a) ==
  /\ stream'[a].srv \in Working <=> stream[a].srv \in Working
  /\ stream[a].srv \in Working => stream'[a].of = stream[a].of

LEMMA StreamsSteady ==
  ASSUME IInv, UNCHANGED <<perKey, total>>, \A a \in Apps : SameWork(a)
  PROVE  StreamsAreCounted'
<1>1. WorkingApps' = WorkingApps
  BY DEF WorkingApps, SameWork
<1>2. ASSUME NEW c \in Clients PROVE WorkingFor(c)' = WorkingFor(c)
  BY DEF WorkingFor, SameWork
<1> QED
  BY <1>1, <1>2 DEF IInv, StreamsAreCounted

LEMMA StreamTaken ==
  ASSUME IInv, NEW a \in Apps, NEW c \in Clients, acquire(c),
         stream[a].srv \notin Working, stream'[a].srv \in Working, stream'[a].of = c,
         \A b \in Apps : b # a => stream'[b] = stream[b]
  PROVE  /\ StreamsAreCounted'
         /\ perKey' \in [Clients -> 0 .. MaxPerKey] /\ total' \in 0 .. MaxTotal
<1>1. /\ perKey \in [Clients -> 0 .. MaxPerKey] /\ total \in 0 .. MaxTotal
      /\ perKey[c] < MaxPerKey /\ perKey' = [perKey EXCEPT ![c] = perKey[c] + 1]
      /\ total < MaxTotal /\ total' = total + 1
  BY Types DEF IInv, CountTypes, acquire
<1>2. /\ IsFiniteSet(WorkingApps) /\ total = Cardinality(WorkingApps)
      /\ \A d \in Clients : IsFiniteSet(WorkingFor(d)) /\ perKey[d] = Cardinality(WorkingFor(d))
                            /\ perKey[d] <= MaxPerKey
  BY DEF IInv, StreamsAreCounted
<1>3. WorkingApps' = WorkingApps \union {a} /\ a \notin WorkingApps
  BY DEF WorkingApps
<1>4. IsFiniteSet(WorkingApps') /\ Cardinality(WorkingApps') = Cardinality(WorkingApps) + 1
  BY <1>2, <1>3, FS_AddElement
<1>5. WorkingFor(c)' = WorkingFor(c) \union {a} /\ a \notin WorkingFor(c)
  BY DEF WorkingFor
<1>6. IsFiniteSet(WorkingFor(c)') /\ Cardinality(WorkingFor(c)') = Cardinality(WorkingFor(c)) + 1
  BY <1>2, <1>5, FS_AddElement
<1>7. ASSUME NEW d \in Clients, d # c PROVE WorkingFor(d)' = WorkingFor(d)
  BY <1>7 DEF WorkingFor
<1>8. ASSUME NEW d \in Clients
      PROVE  /\ IsFiniteSet(WorkingFor(d)')
             /\ perKey'[d] = Cardinality(WorkingFor(d)') /\ perKey'[d] <= MaxPerKey
  <2>1. CASE d = c
    BY <2>1, <1>1, <1>2, <1>6, ReliableAssumption
  <2>2. CASE d # c
    BY <2>2, <1>1, <1>2, <1>7
  <2> QED
    BY <2>1, <2>2
<1>9. total' = Cardinality(WorkingApps') /\ total' <= MaxTotal /\ total' \in 0 .. MaxTotal
  BY <1>1, <1>2, <1>4, ReliableAssumption
<1>10. perKey' \in [Clients -> 0 .. MaxPerKey]
  BY <1>1, ReliableAssumption
<1> QED
  BY <1>4, <1>8, <1>9, <1>10 DEF StreamsAreCounted

LEMMA StreamGiven ==
  ASSUME IInv, NEW a \in Apps, NEW c \in Clients, release(c),
         stream[a].srv \in Working, stream[a].of = c, stream'[a].srv \notin Working,
         \A b \in Apps : b # a => stream'[b] = stream[b]
  PROVE  /\ StreamsAreCounted'
         /\ perKey' \in [Clients -> 0 .. MaxPerKey] /\ total' \in 0 .. MaxTotal
<1>1. /\ perKey \in [Clients -> 0 .. MaxPerKey] /\ total \in 0 .. MaxTotal
      /\ perKey' = [perKey EXCEPT ![c] = perKey[c] - 1]
      /\ total' = total - 1
  BY Types DEF IInv, CountTypes, release
<1>2. /\ IsFiniteSet(WorkingApps) /\ total = Cardinality(WorkingApps)
      /\ \A d \in Clients : IsFiniteSet(WorkingFor(d)) /\ perKey[d] = Cardinality(WorkingFor(d))
                            /\ perKey[d] <= MaxPerKey
  BY DEF IInv, StreamsAreCounted
<1>3. WorkingApps' = WorkingApps \ {a} /\ a \in WorkingApps
  BY DEF WorkingApps
<1>4. IsFiniteSet(WorkingApps') /\ Cardinality(WorkingApps') = Cardinality(WorkingApps) - 1
  BY <1>2, <1>3, FS_RemoveElement
<1>5. WorkingFor(c)' = WorkingFor(c) \ {a} /\ a \in WorkingFor(c)
  BY DEF WorkingFor
<1>6. IsFiniteSet(WorkingFor(c)') /\ Cardinality(WorkingFor(c)') = Cardinality(WorkingFor(c)) - 1
  BY <1>2, <1>5, FS_RemoveElement
<1>7. ASSUME NEW d \in Clients, d # c PROVE WorkingFor(d)' = WorkingFor(d)
  BY <1>7 DEF WorkingFor
<1>8. Cardinality(WorkingApps') \in Nat /\ Cardinality(WorkingFor(c)') \in Nat
  BY <1>4, <1>6, FS_CardinalityType
<1>9. ASSUME NEW d \in Clients
      PROVE  /\ IsFiniteSet(WorkingFor(d)')
             /\ perKey'[d] = Cardinality(WorkingFor(d)') /\ perKey'[d] <= MaxPerKey
  <2>1. CASE d = c
    BY <2>1, <1>1, <1>2, <1>6, ReliableAssumption
  <2>2. CASE d # c
    BY <2>2, <1>1, <1>2, <1>7
  <2> QED
    BY <2>1, <2>2
<1>10. total' = Cardinality(WorkingApps') /\ total' <= MaxTotal /\ total' \in 0 .. MaxTotal
  BY <1>1, <1>2, <1>4, <1>8, ReliableAssumption
<1>11. perKey' \in [Clients -> 0 .. MaxPerKey]
  BY <1>1, <1>2, <1>6, <1>8, ReliableAssumption
<1> QED
  BY <1>4, <1>9, <1>10, <1>11 DEF StreamsAreCounted

-----------------------------------------------------------------------------
(* What a step may do to one session or to one stream.                     *)
LEMMA PutIs ==
  ASSUME session \in [Sessions -> SessionStates], NEW s \in Sessions, NEW r \in SessionStates
  PROVE  LET put == Put(s, r) IN
         /\ put \in [Sessions -> SessionStates]
         /\ put[s].client = r.client
         /\ put[s].server \in Busy <=> r.server \in Busy
         /\ r.client => put[s].owner = r.owner
         /\ \A t \in Sessions : t # s => put[t] = session[t]
<1>1. Put(s, r) = [session EXCEPT ![s] = Tidy(r)]
  BY DEF Put
<1> QED
  BY <1>1, TidyIs

LEMMA PutStreamIs ==
  ASSUME stream \in [Apps -> StreamStates], NEW a \in Apps, NEW r \in StreamStates,
         PutStream(a, r)
  PROVE  /\ stream' \in [Apps -> StreamStates]
         /\ stream'[a].app = r.app /\ stream'[a].srv = r.srv
         /\ r.app # "none" \/ r.srv # "done" => stream'[a].of = r.of
         /\ \A b \in Apps : b # a => stream'[b] = stream[b]
<1>1. stream' = [stream EXCEPT ![a] = TidyStream(r)]
  BY DEF PutStream
<1> QED
  BY <1>1, TidyStreamIs

(* No end of a client is opened or closed. *)
SessionSteady(s) ==
  /\ session'[s].client = session[s].client
  /\ session[s].client => session'[s].owner = session[s].owner

AppSteady(a) ==
  LET old == stream[a]
      new == stream'[a] IN
  \/ /\ new.app = old.app
     /\ old.app # "none" \/ new.srv # "done" => new.of = old.of
     /\ new.srv # "done" => old.srv # "done"
  \/ /\ old.app \notin {"none", "dialing"} /\ new.app \notin {"opening", "dialing"}
     /\ new.app # "none" \/ new.srv # "done" => new.of = old.of
  \/ /\ old.app = "none" /\ new.app = "opening" /\ new.srv = "done"
     /\ new.of \in Clients /\ run[new.of] = "up"

(* The client programs do nothing themselves. *)
LEMMA ClientsSteady ==
  ASSUME IInv, UNCHANGED clientVars,
         session' \in [Sessions -> SessionStates], stream' \in [Apps -> StreamStates],
         \A s \in Sessions : SessionSteady(s), \A a \in Apps : AppSteady(a),
         CountTypes', StreamsAreCounted', SlotsAreCounted'
  PROVE  IInv'
<1>1. ClientTypes /\ ClientTypes'
  BY Types DEF IInv, ClientTypes, clientVars
<1>2. TypeOK'
  BY <1>1, TypesPrimed
<1>3. AppsAreTidy'
  BY DEF IInv, AppsAreTidy, AppSteady, clientVars
<1>4. DialsAreHeld'
  BY <1>1, Types, ReliableAssumption DEF IInv, DialsAreHeld, AppSteady, clientVars, ClientTypes
<1>5. NoSecondSession' /\ OffHasNothing'
  BY DEF IInv, NoSecondSession, OffHasNothing, clientVars
<1>6. OpenAreOwned'
  BY DEF IInv, OpenAreOwned, SessionSteady
<1>7. OneSession'
  BY DEF IInv, OneSession, SessionSteady, clientVars
<1> QED
  BY <1>2, <1>3, <1>4, <1>5, <1>6, <1>7 DEF IInv

(* A step of one app or of the handler of its stream that counts nothing. *)
LEMMA StreamMoves ==
  ASSUME IInv, UNCHANGED <<clientVars, session, countVars>>, NEW a \in Apps,
         stream' \in [Apps -> StreamStates], AppSteady(a), SameWork(a),
         \A b \in Apps : b # a => stream'[b] = stream[b]
  PROVE  IInv'
<1>1. \A b \in Apps : AppSteady(b) /\ SameWork(b)
  BY DEF AppSteady, SameWork
<1>2. StreamsAreCounted' /\ SlotsAreCounted'
  BY <1>1, StreamsSteady, SlotsSteady DEF countVars
<1>3. CountTypes' /\ session' \in [Sessions -> SessionStates]
  BY Types DEF IInv, CountTypes, countVars
<1> QED
  BY <1>1, <1>2, <1>3, ClientsSteady DEF SessionSteady

(* The same, step by step of handleApp *)
LEMMA AppMoves ==
  ASSUME IInv, UNCHANGED <<clientVars, session, countVars>>, NEW a \in Apps,
         stream[a].app \notin {"none", "opening", "dialing"},
         NEW pc \in {"none", "target", "status", "relay", "half"}, AppAt(a, pc)
  PROVE  IInv'
<1> DEFINE old == stream[a]
           r == [old EXCEPT !.app = pc]
<1>1. stream \in [Apps -> StreamStates] /\ old \in StreamStates /\ PutStream(a, r)
  BY Types DEF IInv, AppAt
<1> HIDE DEF old
<1>2. r \in StreamStates /\ r.app = pc /\ r.srv = old.srv /\ r.of = old.of
  BY <1>1 DEF StreamStates, AppSteps
<1> HIDE DEF r
<1>3. /\ stream' \in [Apps -> StreamStates]
      /\ \A b \in Apps : b # a => stream'[b] = stream[b]
  BY <1>1, <1>2, PutStreamIs
<1>4. AppSteady(a) /\ SameWork(a)
  BY <1>1, <1>2, PutStreamIs DEF old, AppSteady, SameWork, Working
<1> QED
  BY <1>3, <1>4, StreamMoves

(* and of handleStream. *)
LEMMA HandlerMoves ==
  ASSUME IInv, UNCHANGED <<clientVars, session, countVars>>, NEW a \in Apps,
         NEW r \in StreamStates, PutStream(a, r),
         r.app = stream[a].app, r.of = stream[a].of, stream[a].srv # "done",
         r.srv \in Working <=> stream[a].srv \in Working
  PROVE  IInv'
<1>1. stream \in [Apps -> StreamStates]
  BY Types DEF IInv
<1>2. AppSteady(a) /\ SameWork(a)
  BY <1>1, PutStreamIs DEF AppSteady, SameWork, Working
<1> QED
  BY <1>1, <1>2, PutStreamIs, StreamMoves

-----------------------------------------------------------------------------
(* The apps.                                                               *)
LEMMA ConnectIInv ==
  ASSUME IInv, NEW a \in Apps, NEW c \in Clients, Connect(a, c)
  PROVE  IInv'
<1> DEFINE old == stream[a]
           r == [old EXCEPT !.app = "opening", !.of = c]
<1>1. /\ stream \in [Apps -> StreamStates] /\ stream[a] = NoStream /\ run[c] = "up"
      /\ UNCHANGED <<clientVars, session, countVars>> /\ stream' = [stream EXCEPT ![a] = r]
  BY Types DEF IInv, Connect
<1>2. old = NoStream
  BY <1>1
<1> HIDE DEF old
<1>3. r \in StreamStates /\ r.app = "opening" /\ r.srv = "done" /\ r.of = c
  BY <1>2, NoStreamIs DEF StreamStates, AppSteps
<1> HIDE DEF r
<1>4. /\ stream' \in [Apps -> StreamStates] /\ stream'[a] = r
      /\ \A b \in Apps : b # a => stream'[b] = stream[b]
  BY <1>1, <1>3
<1>5. AppSteady(a) /\ SameWork(a)
  BY <1>1, <1>3, <1>4, NoStreamIs DEF AppSteady, SameWork, Working
<1> QED
  BY <1>1, <1>4, <1>5, StreamMoves

LEMMA OpenedIs ==
  ASSUME IInv, NEW a \in Apps, NEW s \in Sessions, Opened(a, s)
  PROVE  /\ stream' \in [Apps -> StreamStates]
         /\ stream'[a].app = "target" /\ stream'[a].of = stream[a].of
         /\ stream'[a].srv \in {"coming", "done"}
         /\ \A b \in Apps : b # a => stream'[b] = stream[b]
<1> DEFINE x == IF session[s].server = "done" THEN "done" ELSE "coming"
           old == stream[a]
           p == [old EXCEPT !.app = "target"]
           q == [p EXCEPT !.on = s]
           r == [q EXCEPT !.srv = x]
<1>1. /\ stream \in [Apps -> StreamStates] /\ old \in StreamStates
      /\ stream' = [stream EXCEPT ![a] = r]
  BY Types DEF IInv, Opened
<1>2. x \in {"coming", "done"}
  OBVIOUS
<1> HIDE DEF x, old
<1>3. p \in StreamStates /\ p.app = "target" /\ p.of = old.of
  BY <1>1 DEF StreamStates, AppSteps
<1> HIDE DEF p
<1>4. q \in StreamStates /\ q.app = "target" /\ q.of = old.of
  BY <1>3 DEF StreamStates
<1> HIDE DEF q
<1>5. r \in StreamStates /\ r.app = "target" /\ r.srv = x /\ r.of = old.of
  BY <1>2, <1>4 DEF StreamStates, SrvSteps
<1> HIDE DEF r
<1> QED
  BY <1>1, <1>2, <1>5 DEF old

LEMMA OpenStreamIInv ==
  ASSUME IInv, NEW a \in Apps, OpenStream(a)
  PROVE  IInv'
<1>1. /\ stream[a].app = "opening" /\ sess[stream[a].of] # None
      /\ Opened(a, sess[stream[a].of])
      /\ UNCHANGED <<clientVars, session, countVars>>
  BY DEF OpenStream
<1>2. stream[a].of \in Clients /\ stream[a].srv = "done"
  BY <1>1 DEF IInv, AppsAreTidy
<1>3. sess[stream[a].of] \in Sessions
  BY <1>1, <1>2, Types DEF IInv, ClientTypes
<1>4. AppSteady(a) /\ SameWork(a)
  BY <1>1, <1>2, <1>3, OpenedIs DEF AppSteady, SameWork, Working
<1> QED
  BY <1>1, <1>3, <1>4, OpenedIs, StreamMoves

LEMMA HandleAppIInv ==
  ASSUME IInv, NEW a \in Apps, HandleApp(a) \/ AppHalf(a)
  PROVE  IInv'
  BY AppMoves DEF HandleApp, WriteTarget, ReadStatus, AppDrained, AppHalf, AppGone

-----------------------------------------------------------------------------
(* The handlers of streams.                                                *)
LEMMA AcceptStreamIInv ==
  ASSUME IInv, NEW a \in Apps, AcceptStream(a)
  PROVE  IInv'
<1> DEFINE c == stream[a].of
           old == stream[a]
           r == [old EXCEPT !.srv = "setup"]
           t == [old EXCEPT !.srv = "done", !.answer = "failed"]
<1>1. /\ stream \in [Apps -> StreamStates] /\ old \in StreamStates /\ stream[a].srv = "coming"
      /\ UNCHANGED <<clientVars, session, slots>>
      /\ \/ acquire(c) /\ PutStream(a, r)
         \/ PutStream(a, t) /\ UNCHANGED <<perKey, total>>
  BY Types DEF IInv, AcceptStream, Refuse
<1>2. c \in Clients
  BY <1>1 DEF IInv, AppsAreTidy
<1>3. old.of = c /\ old.app = stream[a].app
  OBVIOUS
<1> HIDE DEF old
<1>4. /\ r \in StreamStates /\ r.app = stream[a].app /\ r.srv = "setup" /\ r.of = c
      /\ t \in StreamStates /\ t.app = stream[a].app /\ t.srv = "done" /\ t.of = c
  BY <1>1, <1>3 DEF StreamStates, SrvSteps, Working, Answers
<1> HIDE DEF r, t
<1>5. CASE acquire(c) /\ PutStream(a, r)
  <2>1. /\ stream' \in [Apps -> StreamStates] /\ stream'[a].app = stream[a].app
        /\ stream'[a].srv = "setup" /\ stream'[a].of = c
        /\ \A b \in Apps : b # a => stream'[b] = stream[b]
    BY <1>1, <1>4, <1>5, PutStreamIs
  <2>2. /\ StreamsAreCounted'
        /\ perKey' \in [Clients -> 0 .. MaxPerKey] /\ total' \in 0 .. MaxTotal
    BY <1>1, <1>2, <1>5, <2>1, StreamTaken DEF Working
  <2>3. SlotsAreCounted' /\ CountTypes' /\ session' \in [Sessions -> SessionStates]
    BY <1>1, <2>2, SlotsSteady, Types DEF IInv, CountTypes
  <2>4. \A b \in Apps : AppSteady(b)
    BY <1>1, <2>1 DEF AppSteady
  <2> QED
    BY <1>1, <2>1, <2>2, <2>3, <2>4, ClientsSteady DEF SessionSteady
<1>6. CASE PutStream(a, t) /\ UNCHANGED <<perKey, total>>
  BY <1>1, <1>4, <1>6, HandlerMoves DEF Working, countVars
<1> QED
  BY <1>1, <1>5, <1>6

LEMMA FinishIInv ==
  ASSUME IInv, NEW a \in Apps, stream[a].srv \in Working,
         NEW answer \in Answers, Finish(a, answer)
  PROVE  IInv'
<1> DEFINE c == stream[a].of
           old == stream[a]
           r == [old EXCEPT !.srv = "done", !.answer = answer]
<1>1. /\ stream \in [Apps -> StreamStates] /\ old \in StreamStates
      /\ release(c) /\ PutStream(a, r)
      /\ UNCHANGED <<clientVars, session, slots>>
  BY Types DEF IInv, Finish
<1>2. c \in Clients
  BY DEF IInv, AppsAreTidy, Working
<1>3. old.of = c /\ old.app = stream[a].app
  OBVIOUS
<1> HIDE DEF old
<1>4. r \in StreamStates /\ r.app = stream[a].app /\ r.srv = "done" /\ r.of = c
  BY <1>1, <1>3 DEF StreamStates, SrvSteps
<1> HIDE DEF r
<1>5. /\ stream' \in [Apps -> StreamStates] /\ stream'[a].app = stream[a].app
      /\ stream'[a].srv = "done"
      /\ stream[a].app # "none" => stream'[a].of = c
      /\ \A b \in Apps : b # a => stream'[b] = stream[b]
  BY <1>1, <1>4, PutStreamIs
<1>6. /\ StreamsAreCounted'
      /\ perKey' \in [Clients -> 0 .. MaxPerKey] /\ total' \in 0 .. MaxTotal
  BY <1>1, <1>2, <1>5, StreamGiven DEF Working
<1>7. SlotsAreCounted' /\ CountTypes' /\ session' \in [Sessions -> SessionStates]
  BY <1>1, <1>6, SlotsSteady, Types DEF IInv, CountTypes
<1>8. \A b \in Apps : AppSteady(b)
  BY <1>1, <1>5 DEF AppSteady
<1> QED
  BY <1>1, <1>5, <1>6, <1>7, <1>8, ClientsSteady DEF SessionSteady

LEMMA HandleStreamIInv ==
  ASSUME IInv, NEW a \in Apps, HandleStream(a) \/ ServerHalf(a)
  PROVE  IInv'
<1>1. stream[a] \in StreamStates
  BY Types DEF IInv
<1>2. CASE ReadTarget(a) \/ ServerHalf(a)
  <2>1. PICK x \in {"dialing", "half"} :
          /\ PutStream(a, [stream[a] EXCEPT !.srv = x]) /\ stream[a].srv \in Working
          /\ UNCHANGED <<clientVars, session, countVars>>
    BY <1>2 DEF ReadTarget, ServerHalf, Working
  <2> DEFINE old == stream[a]
             r == [old EXCEPT !.srv = x]
  <2>2. old \in StreamStates /\ PutStream(a, r)
    BY <1>1, <2>1
  <2> HIDE DEF old
  <2>3. r \in StreamStates /\ r.app = old.app /\ r.of = old.of /\ r.srv = x
    BY <2>2 DEF StreamStates, SrvSteps, Working
  <2> HIDE DEF r
  <2> QED
    BY <2>1, <2>2, <2>3, HandlerMoves DEF old, Working
<1>3. CASE TargetAnswers(a)
  <2>1. /\ PutStream(a, [stream[a] EXCEPT !.srv = "relay", !.answer = "ok"])
        /\ stream[a].srv \in Working /\ UNCHANGED <<clientVars, session, countVars>>
    BY <1>3 DEF TargetAnswers, Working
  <2> DEFINE old == stream[a]
             r == [old EXCEPT !.srv = "relay", !.answer = "ok"]
  <2>2. old \in StreamStates /\ PutStream(a, r)
    BY <1>1, <2>1
  <2> HIDE DEF old
  <2>3. r \in StreamStates /\ r.app = old.app /\ r.of = old.of /\ r.srv = "relay"
    BY <2>2 DEF StreamStates, SrvSteps, Working, Answers
  <2> HIDE DEF r
  <2> QED
    BY <2>1, <2>2, <2>3, HandlerMoves DEF old, Working
<1>4. CASE SetupFails(a) \/ TargetFails(a)
  BY <1>4, FinishIInv DEF SetupFails, TargetFails, Working, Answers
<1>5. CASE ServerDrained(a)
  <2>1. stream[a].answer \in Answers
    BY <1>1 DEF StreamStates
  <2> QED
    BY <1>5, <2>1, FinishIInv DEF ServerDrained, Working
<1> QED
  BY <1>2, <1>3, <1>4, <1>5, AcceptStreamIInv DEF HandleStream

-----------------------------------------------------------------------------
(* The handlers of connections.                                            *)
LEMMA ConnMoves ==
  ASSUME IInv, UNCHANGED <<clientVars, perKey, total>>, NEW s \in Sessions,
         NEW r \in SessionStates, session' = Put(s, r),
         r.client = session[s].client, r.owner = session[s].owner,
         \/ UNCHANGED slots /\ (r.server \in Busy <=> session[s].server \in Busy)
         \/ /\ slots < MaxActiveConns /\ slots' = slots + 1
            /\ session[s].server \notin Busy /\ r.server \in Busy
         \/ /\ slots' = slots - 1
            /\ session[s].server \in Busy /\ r.server \notin Busy,
         stream' \in [Apps -> StreamStates], \A a \in Apps : AppSteady(a) /\ SameWork(a)
  PROVE  IInv'
<1>1. session \in [Sessions -> SessionStates] /\ CountTypes
  BY Types DEF IInv
<1>2. /\ session' \in [Sessions -> SessionStates]
      /\ session'[s].client = r.client
      /\ session'[s].server \in Busy <=> r.server \in Busy
      /\ r.client => session'[s].owner = r.owner
      /\ \A t \in Sessions : t # s => session'[t] = session[t]
  BY <1>1, PutIs
<1>3. \A t \in Sessions : SessionSteady(t)
  BY <1>2 DEF SessionSteady
<1>4. SlotsAreCounted' /\ slots' \in 0 .. MaxActiveConns
  <2>1. CASE UNCHANGED slots /\ (r.server \in Busy <=> session[s].server \in Busy)
    BY <1>1, <1>2, <2>1, SlotsSteady DEF CountTypes
  <2>2. CASE /\ slots < MaxActiveConns /\ slots' = slots + 1
             /\ session[s].server \notin Busy /\ r.server \in Busy
    BY <1>2, <2>2, SlotTaken
  <2>3. CASE /\ slots' = slots - 1
             /\ session[s].server \in Busy /\ r.server \notin Busy
    BY <1>2, <2>3, SlotGiven
  <2> QED
    BY <2>1, <2>2, <2>3
<1>5. StreamsAreCounted' /\ CountTypes'
  BY <1>1, <1>4, StreamsSteady DEF CountTypes
<1> QED
  BY <1>2, <1>3, <1>4, <1>5, ClientsSteady

LEMMA HandleConnIInv ==
  ASSUME IInv, NEW s \in Sessions, Accept(s) \/ HandshakeSucceeds(s) \/ HandshakeFails(s)
  PROVE  IInv'
<1>1. session[s] \in SessionStates /\ slots \in 0 .. MaxActiveConns
  BY Types DEF IInv, CountTypes
<1>2. stream \in [Apps -> StreamStates]
  BY Types DEF IInv
<1>3. stream' = stream => \A a \in Apps : AppSteady(a) /\ SameWork(a)
  BY DEF AppSteady, SameWork
<1>4. ASSUME NEW x \in {"refused", "handshake", "done"},
             session' = Put(s, [session[s] EXCEPT !.server = x]),
             UNCHANGED <<clientVars, stream, perKey, total>>,
             \/ UNCHANGED slots /\ session[s].server = "pending" /\ x = "refused"
             \/ /\ slots < MaxActiveConns /\ slots' = slots + 1
                /\ session[s].server = "pending" /\ x = "handshake"
             \/ slots' = slots - 1 /\ session[s].server = "handshake" /\ x = "done"
      PROVE  IInv'
  <2> DEFINE old == session[s]
             r == [old EXCEPT !.server = x]
  <2>1. old \in SessionStates /\ session' = Put(s, r)
    BY <1>1, <1>4
  <2> HIDE DEF old
  <2>2. r \in SessionStates /\ r.client = old.client /\ r.owner = old.owner /\ r.server = x
    BY <2>1 DEF SessionStates
  <2> HIDE DEF r
  <2> QED
    BY <1>2, <1>3, <1>4, <2>1, <2>2, ConnMoves DEF old, Busy
<1>5. CASE Accept(s)
  BY <1>1, <1>4, <1>5 DEF Accept
<1>6. CASE HandshakeFails(s)
  BY <1>4, <1>6 DEF HandshakeFails
<1>7. CASE HandshakeSucceeds(s)
  <2> DEFINE old == session[s]
             r == [old EXCEPT !.server = "serving", !.ok = TRUE]
  <2>1. /\ old \in SessionStates /\ session' = Put(s, r) /\ session[s].server = "handshake"
        /\ UNCHANGED <<clientVars, stream, countVars>>
    BY <1>1, <1>7 DEF HandshakeSucceeds
  <2> HIDE DEF old
  <2>2. r \in SessionStates /\ r.client = old.client /\ r.owner = old.owner /\ r.server = "serving"
    BY <2>1 DEF SessionStates
  <2> HIDE DEF r
  <2> QED
    BY <1>2, <1>3, <2>1, <2>2, ConnMoves DEF old, Busy, countVars
<1> QED
  BY <1>5, <1>6, <1>7

(* The end of a handler ends the streams nobody has taken up yet. *)
LEMMA StreamEnds ==
  ASSUME NEW r \in StreamStates, r.srv = "coming"
  PROVE  LET q == TidyStream([r EXCEPT !.srv = "done"]) IN
         q \in StreamStates /\ q.app = r.app /\ q.srv = "done" /\ (r.app # "none" => q.of = r.of)
<1> DEFINE p == [r EXCEPT !.srv = "done"]
<1>1. p \in StreamStates /\ p.app = r.app /\ p.srv = "done" /\ p.of = r.of
  BY DEF StreamStates, SrvSteps
<1> HIDE DEF p
<1> QED
  BY <1>1, TidyStreamIs DEF p

LEMMA HandlerEndsIInv ==
  ASSUME IInv, NEW s \in Sessions, HandlerEnds(s)
  PROVE  IInv'
<1> DEFINE old == session[s]
           r == [old EXCEPT !.server = "done"]
           end(a) == TidyStream([stream[a] EXCEPT !.srv = "done"])
<1>1. /\ old \in SessionStates /\ session' = Put(s, r) /\ slots' = slots - 1
      /\ session[s].server = "serving" /\ UNCHANGED <<clientVars, perKey, total>>
      /\ stream' = [a \in Apps |-> IF stream[a].on = s /\ stream[a].srv = "coming"
                                   THEN end(a) ELSE stream[a]]
      /\ stream \in [Apps -> StreamStates]
  BY Types DEF IInv, HandlerEnds
<1> HIDE DEF old
<1>2. r \in SessionStates /\ r.client = old.client /\ r.owner = old.owner /\ r.server = "done"
  BY <1>1 DEF SessionStates
<1> HIDE DEF r
<1>3. ASSUME NEW a \in Apps, stream[a].srv = "coming"
      PROVE  /\ end(a) \in StreamStates /\ end(a).app = stream[a].app /\ end(a).srv = "done"
             /\ stream[a].app # "none" => end(a).of = stream[a].of
  BY <1>1, <1>3, StreamEnds
<1> HIDE DEF end
<1>4. stream' \in [Apps -> StreamStates] /\ \A a \in Apps : AppSteady(a) /\ SameWork(a)
  BY <1>1, <1>3 DEF AppSteady, SameWork, Working
<1> QED
  BY <1>1, <1>2, <1>4, ConnMoves DEF old, Busy

LEMMA CutIInv ==
  ASSUME IInv, NEW s \in Sessions, Cut(s)
  PROVE  IInv'
<1> DEFINE old == session[s]
           r == [old EXCEPT !.cut = TRUE]
<1>1. /\ session \in [Sessions -> SessionStates] /\ old \in SessionStates
      /\ session' = [session EXCEPT ![s] = r] /\ stream \in [Apps -> StreamStates]
      /\ UNCHANGED <<clientVars, stream, countVars>> /\ CountTypes
  BY Types DEF IInv, Cut
<1> HIDE DEF old
<1>2. /\ r \in SessionStates /\ r.client = old.client /\ r.owner = old.owner
      /\ r.server = old.server
  BY <1>1 DEF SessionStates
<1> HIDE DEF r
<1>3. session' \in [Sessions -> SessionStates] /\ \A t \in Sessions : SessionSteady(t)
  BY <1>1, <1>2 DEF old, SessionSteady
<1>4. SlotsAreCounted' /\ StreamsAreCounted' /\ CountTypes'
  BY <1>1, <1>2, SlotsSteady, StreamsSteady DEF old, SameWork, countVars, CountTypes
<1> QED
  BY <1>1, <1>3, <1>4, ClientsSteady DEF AppSteady

-----------------------------------------------------------------------------
(* The clients.                                                            *)
LEMMA ClosedIs ==
  ASSUME session \in [Sessions -> SessionStates], NEW s \in Sessions
  PROVE  LET put == ClosedByClient(s) IN
         /\ put \in [Sessions -> SessionStates]
         /\ ~put[s].client /\ (put[s].server \in Busy <=> session[s].server \in Busy)
         /\ \A t \in Sessions : t # s => put[t] = session[t]
<1> DEFINE old == session[s]
           r == [old EXCEPT !.client = FALSE]
<1>1. old \in SessionStates /\ ClosedByClient(s) = Put(s, r)
  BY DEF ClosedByClient
<1> HIDE DEF old
<1>2. r \in SessionStates /\ ~r.client /\ r.server = old.server
  BY <1>1 DEF SessionStates
<1> HIDE DEF r
<1> QED
  BY <1>1, <1>2, PutIs DEF old

LEMMA FreshIs ==
  ASSUME NEW s \in Sessions, Unused(s)
  PROVE  Fresh \in Sessions /\ Unused(Fresh)
  BY DEF Fresh

(* A step of client c, and what it has to show.                            *)
OnlyClient(c) ==
  \A d \in Clients : d # c =>
    /\ run'[d] = run[d] /\ sess'[d] = sess[d] /\ dialed'[d] = dialed[d]
    /\ holder'[d] = holder[d] /\ fatal'[d] = fatal[d]

OnlySessionsOf(c) ==
  \A s \in Sessions :
    /\ session'[s].server \in Busy <=> session[s].server \in Busy
    /\ session'[s].client =>
         \/ session'[s].owner = c
         \/ session[s].client /\ session'[s].owner = session[s].owner

OnlyAppsOf(c) ==
  \A a \in Apps :
    \/ /\ stream'[a] = stream[a]
       /\ stream[a].of # c \/ stream[a].app = "none" \/ run'[c] = "up"
    \/ /\ stream[a].of = c /\ SameWork(a)
       /\ stream'[a].app \in {"opening", "dialing"} => stream'[a].srv = "done"
       /\ stream'[a].app # "none" => stream'[a].of = c /\ run'[c] = "up"
       /\ stream'[a].srv # "done" => stream'[a].of = c

HasOneSession(c) ==
  /\ None \in {sess[c], dialed[c]}
  /\ run[c] = "off" \/ fatal[c] => sess[c] = None /\ dialed[c] = None
  /\ run[c] = "off" => ~fatal[c]
  /\ \A s \in Sessions : session[s].client /\ session[s].owner = c => s \in {sess[c], dialed[c]}

DialIsHeld(c) ==
  /\ holder[c] # None =>
       /\ dialed[c] # None /\ run[c] = "up"
       /\ stream[holder[c]].app = "dialing" /\ stream[holder[c]].of = c
  /\ holder[c] = None /\ dialed[c] # None => run[c] = "starting"

LEMMA ForOneClient ==
  ASSUME IInv, NEW c \in Clients
  PROVE  HasOneSession(c) /\ DialIsHeld(c)
<1>1. HasOneSession(c)
  BY DEF IInv, NoSecondSession, OffHasNothing, OneSession, HasOneSession
<1>2. DialIsHeld(c)
  BY DEF IInv, DialsAreHeld, DialIsHeld
<1> QED
  BY <1>1, <1>2

LEMMA ClientMoves ==
  ASSUME IInv, NEW c \in Clients, UNCHANGED countVars, ClientTypes',
         session' \in [Sessions -> SessionStates], stream' \in [Apps -> StreamStates],
         OnlyClient(c), OnlySessionsOf(c), OnlyAppsOf(c), HasOneSession(c)', DialIsHeld(c)'
  PROVE  IInv'
<1>1. TypeOK'
  BY Types, TypesPrimed DEF IInv, CountTypes, countVars
<1>2. StreamsAreCounted' /\ SlotsAreCounted'
  <2>1. \A a \in Apps : SameWork(a)
    BY DEF OnlyAppsOf, SameWork
  <2> QED
    BY <2>1, StreamsSteady, SlotsSteady DEF OnlySessionsOf, countVars
<1>3. AppsAreTidy'
  BY DEF IInv, AppsAreTidy, OnlyAppsOf, OnlyClient
<1>4. DialsAreHeld'
  <2> SUFFICES ASSUME NEW d \in Clients
               PROVE  /\ holder'[d] # None =>
                           /\ dialed'[d] # None /\ run'[d] = "up"
                           /\ stream'[holder'[d]].app = "dialing" /\ stream'[holder'[d]].of = d
                      /\ holder'[d] = None /\ dialed'[d] # None => run'[d] = "starting"
    BY DEF DialsAreHeld
  <2>1. CASE d = c
    BY <2>1 DEF DialIsHeld
  <2>2. CASE d # c
    <3>1. holder[d] \in Apps \union {None}
      BY Types DEF IInv, ClientTypes
    <3>2. ASSUME holder[d] # None PROVE stream'[holder[d]] = stream[holder[d]]
      BY <2>2, <3>1, <3>2 DEF IInv, DialsAreHeld, OnlyAppsOf
    <3> QED
      BY <2>2, <3>2 DEF IInv, DialsAreHeld, OnlyClient
  <2> QED
    BY <2>1, <2>2
<1>5. NoSecondSession' /\ OffHasNothing'
  BY DEF IInv, NoSecondSession, OffHasNothing, OnlyClient, HasOneSession
<1>6. OpenAreOwned'
  BY DEF IInv, OpenAreOwned, OnlySessionsOf
<1>7. OneSession'
  <2>1. ASSUME NEW s \in Sessions, session'[s].client
        PROVE  LET d == session'[s].owner IN
               s \in {sess'[d], dialed'[d]} /\ None \in {sess'[d], dialed'[d]}
    <3>1. CASE session'[s].owner = c
      BY <2>1, <3>1 DEF HasOneSession
    <3>2. CASE session'[s].owner # c
      BY <2>1, <3>2 DEF OnlySessionsOf, OnlyClient, IInv, OneSession, OpenAreOwned
    <3> QED
      BY <3>1, <3>2
  <2>2. ASSUME NEW d \in Clients, fatal'[d] PROVE sess'[d] = None /\ dialed'[d] = None
    BY <2>2 DEF OnlyClient, HasOneSession, IInv, OneSession
  <2> QED
    BY <2>1, <2>2 DEF OneSession
<1> QED
  BY <1>1, <1>2, <1>3, <1>4, <1>5, <1>6, <1>7 DEF IInv

(* The steps of openStream and of a dial that end or start nothing else.   *)
LEMMA StartIInv ==
  ASSUME IInv, NEW c \in Clients, Start(c)
  PROVE  IInv'
<1>1. /\ ClientTypes /\ session \in [Sessions -> SessionStates] /\ stream \in [Apps -> StreamStates]
  BY Types DEF IInv
<1>2. /\ run[c] = "off" /\ run' = [run EXCEPT ![c] = "starting"]
      /\ dialed' = [dialed EXCEPT ![c] = Fresh] /\ session' = Put(Fresh, NewSession(c))
      /\ UNCHANGED <<sess, holder, waits, fatal, stream, countVars>>
  BY DEF Start
<1>3. Fresh \in Sessions /\ session[Fresh] = NoSession
  BY FreshIs DEF Start, Unused
<1> DEFINE f == Fresh
           new == NewSession(c)
<1> HIDE DEF f, new
<1>4. new \in SessionStates /\ new.owner = c /\ new.client /\ new.server = "pending"
  BY NewSessionIs DEF new
<1>5. /\ session' \in [Sessions -> SessionStates]
      /\ session'[f].server \notin Busy /\ session'[f].owner = c
      /\ \A t \in Sessions : t # f => session'[t] = session[t]
  <2>1. f \in Sessions /\ session' = Put(f, new)
    BY <1>2, <1>3 DEF f, new
  <2>2. new.server \notin Busy
    BY <1>4 DEF Busy
  <2> QED
    BY <1>1, <1>4, <2>1, <2>2, PutIs
<1>6. OnlySessionsOf(c) /\ f \in Sessions
  BY <1>3, <1>5, NoSessionIs DEF OnlySessionsOf, f, Busy
<1>7. ClientTypes' /\ OnlyClient(c) /\ run'[c] = "starting" /\ dialed'[c] = f
  BY <1>1, <1>2, <1>6 DEF ClientTypes, OnlyClient, f
<1>8. OnlyAppsOf(c)
  BY <1>2 DEF IInv, AppsAreTidy, OnlyAppsOf
<1>9. HasOneSession(c)'
  BY <1>2, <1>5, <1>7, ForOneClient, ReliableAssumption DEF HasOneSession
<1>10. DialIsHeld(c)'
  BY <1>2, <1>6, <1>7, ForOneClient, ReliableAssumption DEF DialIsHeld
<1> QED
  BY <1>1, <1>2, <1>5, <1>6, <1>7, <1>8, <1>9, <1>10, ClientMoves

(* An app gives up, or dials. *)
LEMMA AppTurns ==
  ASSUME IInv, NEW c \in Clients, NEW a \in Apps, stream[a].of = c, stream[a].srv = "done",
         stream[a].app # "none", NEW pc \in {"none", "dialing"}, AppAt(a, pc), run'[c] = "up"
  PROVE  /\ stream' \in [Apps -> StreamStates] /\ OnlyAppsOf(c)
         /\ stream'[a].app = pc /\ (pc = "dialing" => stream'[a].of = c)
         /\ \A b \in Apps : b # a => stream'[b] = stream[b]
<1> DEFINE old == stream[a]
           r == [old EXCEPT !.app = pc]
<1>1. stream \in [Apps -> StreamStates] /\ old \in StreamStates /\ PutStream(a, r)
  BY Types DEF IInv, AppAt
<1> HIDE DEF old
<1>2. r \in StreamStates /\ r.app = pc /\ r.srv = old.srv /\ r.of = old.of
  BY <1>1 DEF StreamStates, AppSteps
<1> HIDE DEF r
<1>3. /\ stream' \in [Apps -> StreamStates]
      /\ stream'[a].app = pc /\ stream'[a].srv = "done"
      /\ pc # "none" => stream'[a].of = c
      /\ \A b \in Apps : b # a => stream'[b] = stream[b]
  BY <1>1, <1>2, PutStreamIs DEF old
<1> QED
  BY <1>3 DEF OnlyAppsOf, SameWork, Working

LEMMA CloseLostIs ==
  ASSUME IInv, NEW c \in Clients, dialed[c] = None
  PROVE  /\ CloseLost(c) \in [Sessions -> SessionStates]
         /\ \A t \in Sessions :
              /\ CloseLost(c)[t].server \in Busy <=> session[t].server \in Busy
              /\ CloseLost(c)[t].client =>
                   /\ session[t].client /\ CloseLost(c)[t].owner = session[t].owner
                   /\ session[t].owner # c
<1>1. session \in [Sessions -> SessionStates] /\ sess[c] \in Sessions \union {None}
  BY Types DEF IInv, ClientTypes
<1>2. \A t \in Sessions : session[t].client /\ session[t].owner = c => t = sess[c]
  BY ForOneClient, ReliableAssumption DEF HasOneSession
<1>3. CASE sess[c] = None
  BY <1>1, <1>2, <1>3, ReliableAssumption DEF CloseLost
<1>4. CASE sess[c] # None
  <2>1. sess[c] \in Sessions /\ CloseLost(c) = ClosedByClient(sess[c])
    BY <1>1, <1>4 DEF CloseLost
  <2> QED
    BY <1>1, <1>2, <2>1, ClosedIs
<1> QED
  BY <1>3, <1>4

LEMMA RedialIInv ==
  ASSUME IInv, NEW a \in Apps, Redial(a)
  PROVE  IInv'
<1>0. PICK c \in Clients : c = stream[a].of
  BY DEF IInv, AppsAreTidy, Redial
<1> DEFINE K == CloseLost(c)
<1>1. /\ stream[a].app = "opening" /\ holder[c] = None
      /\ sess' = [sess EXCEPT ![c] = None]
      /\ \/ /\ session' = K /\ AppGone(a)
            /\ UNCHANGED <<dialed, holder>>
         \/ /\ MayDial(c)
            /\ \E s \in Sessions : Unused(s)
            /\ session' = [K EXCEPT ![Fresh] = NewSession(c)]
            /\ dialed' = [dialed EXCEPT ![c] = Fresh] /\ holder' = [holder EXCEPT ![c] = a]
            /\ AppAt(a, "dialing")
      /\ UNCHANGED <<run, waits, fatal, countVars>>
  BY <1>0 DEF Redial
<1>2. stream[a].of = c /\ run[c] = "up" /\ stream[a].srv = "done"
  BY <1>0, <1>1 DEF IInv, AppsAreTidy
<1>3. ClientTypes
  BY Types DEF IInv
<1>4. dialed[c] = None
  BY <1>1, <1>2, ForOneClient DEF DialIsHeld
<1>5. /\ K \in [Sessions -> SessionStates]
      /\ \A t \in Sessions :
           /\ K[t].server \in Busy <=> session[t].server \in Busy
           /\ K[t].client =>
                session[t].client /\ K[t].owner = session[t].owner /\ session[t].owner # c
  BY <1>2, <1>4, CloseLostIs
<1> HIDE DEF K
<1>6. sess' \in [Clients -> Sessions \union {None}] /\ sess'[c] = None
  BY <1>1, <1>2, <1>3 DEF ClientTypes
<1>7. CASE session' = K /\ AppGone(a) /\ UNCHANGED <<dialed, holder>>
  <2>1. ClientTypes' /\ OnlyClient(c)
    BY <1>1, <1>3, <1>6, <1>7 DEF ClientTypes, OnlyClient
  <2>2. stream' \in [Apps -> StreamStates] /\ OnlyAppsOf(c)
    BY <1>1, <1>2, <1>7, AppTurns DEF AppGone
  <2>3. OnlySessionsOf(c)
    BY <1>5, <1>7 DEF OnlySessionsOf
  <2>4. HasOneSession(c)' /\ DialIsHeld(c)'
    BY <1>1, <1>2, <1>4, <1>5, <1>6, <1>7 DEF HasOneSession, DialIsHeld
  <2> QED
    BY <1>1, <1>2, <1>5, <1>7, <2>1, <2>2, <2>3, <2>4, ClientMoves
<1>8. CASE /\ MayDial(c)
           /\ \E s \in Sessions : Unused(s)
           /\ session' = [K EXCEPT ![Fresh] = NewSession(c)]
           /\ dialed' = [dialed EXCEPT ![c] = Fresh] /\ holder' = [holder EXCEPT ![c] = a]
           /\ AppAt(a, "dialing")
  <2> DEFINE f == Fresh
             new == NewSession(c)
  <2>1. f \in Sessions /\ session[f] = NoSession
    BY <1>8, FreshIs DEF Unused
  <2>2. new \in SessionStates /\ new.owner = c /\ new.client /\ new.server = "pending"
    BY <1>2, NewSessionIs
  <2> HIDE DEF f, new
  <2>3. /\ session' \in [Sessions -> SessionStates] /\ session'[f] = new
        /\ \A t \in Sessions : t # f => session'[t] = K[t]
    BY <1>5, <1>8, <2>1, <2>2 DEF f, new
  <2>4. /\ ClientTypes' /\ OnlyClient(c) /\ dialed'[c] = f /\ holder'[c] = a
    BY <1>1, <1>2, <1>3, <1>6, <1>8, <2>1 DEF ClientTypes, OnlyClient, f
  <2>5. /\ stream' \in [Apps -> StreamStates] /\ OnlyAppsOf(c)
        /\ stream'[a].app = "dialing" /\ stream'[a].of = c
    BY <1>1, <1>2, <1>8, AppTurns
  <2>6. OnlySessionsOf(c)
    BY <1>5, <2>1, <2>2, <2>3, NoSessionIs DEF OnlySessionsOf, Busy
  <2>7. HasOneSession(c)'
    BY <1>1, <1>2, <1>5, <1>6, <1>8, <2>2, <2>3, <2>4 DEF HasOneSession, MayDial
  <2>8. DialIsHeld(c)'
    BY <1>1, <1>2, <2>1, <2>4, <2>5, ReliableAssumption DEF DialIsHeld
  <2> QED
    BY <1>1, <1>2, <2>3, <2>4, <2>5, <2>6, <2>7, <2>8, ClientMoves
<1> QED
  BY <1>1, <1>7, <1>8

LEMMA DialSucceedsIInv ==
  ASSUME IInv, NEW c \in Clients, DialSucceeds(c)
  PROVE  IInv'
<1>1. /\ ClientTypes /\ session \in [Sessions -> SessionStates] /\ stream \in [Apps -> StreamStates]
  BY Types DEF IInv
<1>2. PICK s \in Sessions : s = dialed[c]
  BY <1>1 DEF DialSucceeds, ClientTypes
<1>3. /\ dialed' = [dialed EXCEPT ![c] = None] /\ holder' = [holder EXCEPT ![c] = None]
      /\ sess' = [sess EXCEPT ![c] = s]
      /\ session' = Put(s, [session[s] EXCEPT !.ok = FALSE])
      /\ run' = [run EXCEPT ![c] = "up"] /\ waits' = [waits EXCEPT ![c] = FALSE]
      /\ IF holder[c] = None THEN UNCHANGED stream
         ELSE Opened(holder[c], s) \/ AppGone(holder[c])
      /\ UNCHANGED <<fatal, countVars>>
  BY <1>2 DEF DialSucceeds, EndDial
<1>4. /\ session' \in [Sessions -> SessionStates] /\ OnlySessionsOf(c)
      /\ \A t \in Sessions : session'[t].client =>
           session[t].client /\ session'[t].owner = session[t].owner
  <2> DEFINE old == session[s]
             r == [old EXCEPT !.ok = FALSE]
  <2>1. old \in SessionStates /\ session' = Put(s, r)
    BY <1>1, <1>3
  <2> HIDE DEF old
  <2>2. r \in SessionStates /\ r.client = old.client /\ r.server = old.server /\ r.owner = old.owner
    BY <2>1 DEF SessionStates
  <2> HIDE DEF r
  <2>3. /\ session' \in [Sessions -> SessionStates]
        /\ session'[s].client = old.client /\ (session'[s].server \in Busy <=> old.server \in Busy)
        /\ old.client => session'[s].owner = old.owner
        /\ \A t \in Sessions : t # s => session'[t] = session[t]
    BY <1>1, <2>1, <2>2, PutIs
  <2> QED
    BY <2>3 DEF old, OnlySessionsOf
<1>5. /\ ClientTypes' /\ OnlyClient(c) /\ run'[c] = "up" /\ sess'[c] = s
      /\ dialed'[c] = None /\ holder'[c] = None
  BY <1>1, <1>3 DEF ClientTypes, OnlyClient
<1>6. stream' \in [Apps -> StreamStates] /\ OnlyAppsOf(c)
  <2>1. CASE holder[c] = None
    BY <1>1, <1>3, <1>5, <2>1 DEF OnlyAppsOf
  <2>2. CASE holder[c] # None
    <3>1. PICK a \in Apps : a = holder[c]
      BY <1>1, <2>2 DEF ClientTypes
    <3>2. /\ stream[a].app = "dialing" /\ stream[a].of = c /\ stream[a].srv = "done"
          /\ Opened(a, s) \/ AppAt(a, "none")
      BY <1>3, <2>2, <3>1 DEF IInv, DialsAreHeld, AppsAreTidy, AppGone
    <3>3. CASE Opened(a, s)
      BY <1>5, <3>2, <3>3, OpenedIs DEF OnlyAppsOf, SameWork, Working
    <3>4. CASE AppAt(a, "none")
      BY <1>5, <3>2, <3>4, AppTurns
    <3> QED
      BY <3>2, <3>3, <3>4
  <2> QED
    BY <2>1, <2>2
<1>7. HasOneSession(c)'
  <2>1. HasOneSession(c) /\ dialed[c] # None /\ dialed[c] = s /\ s # None
    BY <1>2, ForOneClient, ReliableAssumption
  <2>2. sess[c] = None /\ ~fatal[c]
    BY <2>1 DEF HasOneSession
  <2>3. \A t \in Sessions : session[t].client /\ session[t].owner = c => t \in {sess[c], dialed[c]}
    BY <2>1 DEF HasOneSession
  <2>4. \A t \in Sessions : session'[t].client /\ session'[t].owner = c => t = s
    BY <1>4, <2>1, <2>2, <2>3, ReliableAssumption
  <2>5. fatal' = fatal
    BY <1>3
  <2> QED
    BY <1>5, <2>2, <2>4, <2>5 DEF HasOneSession
<1>8. DialIsHeld(c)'
  BY <1>5 DEF DialIsHeld
<1> QED
  BY <1>3, <1>4, <1>5, <1>6, <1>7, <1>8, ClientMoves

(* The client closes the one session it has or dials. *)
LEMMA Closing ==
  ASSUME IInv, NEW c \in Clients, NEW s \in Sessions, s \in {sess[c], dialed[c]},
         session' = ClosedByClient(s)
  PROVE  /\ session' \in [Sessions -> SessionStates] /\ OnlySessionsOf(c)
         /\ \A t \in Sessions : ~(session'[t].client /\ session'[t].owner = c)
<1>1. session \in [Sessions -> SessionStates]
  BY Types DEF IInv
<1>2. /\ session' \in [Sessions -> SessionStates]
      /\ ~session'[s].client /\ (session'[s].server \in Busy <=> session[s].server \in Busy)
      /\ \A t \in Sessions : t # s => session'[t] = session[t]
  BY <1>1, ClosedIs
<1>3. \A t \in Sessions : session[t].client /\ session[t].owner = c => t = s
  BY ForOneClient, ReliableAssumption DEF HasOneSession
<1> QED
  BY <1>2, <1>3 DEF OnlySessionsOf

LEMMA DialEndedIInv ==
  ASSUME IInv, NEW c \in Clients, NEW permanent \in BOOLEAN,
         dialed[c] # None, DialEnded(c, permanent)
  PROVE  IInv'
<1>1. /\ ClientTypes /\ stream \in [Apps -> StreamStates]
  BY Types DEF IInv
<1>2. PICK s \in Sessions : s = dialed[c]
  BY <1>1 DEF ClientTypes
<1>3. /\ dialed' = [dialed EXCEPT ![c] = None] /\ holder' = [holder EXCEPT ![c] = None]
      /\ session' = ClosedByClient(s)
      /\ IF holder[c] = None
           THEN run' = [run EXCEPT ![c] = "off"] /\ UNCHANGED <<stream, waits, fatal>>
           ELSE /\ AppGone(holder[c])
                /\ waits' = [waits EXCEPT ![c] = waits[c] \/ ~permanent]
                /\ fatal' = [fatal EXCEPT ![c] = permanent]
                /\ UNCHANGED run
      /\ UNCHANGED <<sess, countVars>>
  BY <1>1, <1>2 DEF DialEnded, EndDial, ClientTypes
<1>4. /\ session' \in [Sessions -> SessionStates] /\ OnlySessionsOf(c)
      /\ \A t \in Sessions : ~(session'[t].client /\ session'[t].owner = c)
  BY <1>2, <1>3, Closing
<1>5. sess[c] = None /\ ~fatal[c] /\ run[c] # "off"
  BY ForOneClient DEF HasOneSession
<1>6. sess'[c] = None /\ dialed'[c] = None /\ holder'[c] = None
  BY <1>1, <1>3, <1>5 DEF ClientTypes
<1>7. CASE holder[c] = None
  <2>1. ClientTypes' /\ OnlyClient(c) /\ run'[c] = "off" /\ ~fatal'[c]
    BY <1>1, <1>3, <1>5, <1>7 DEF ClientTypes, OnlyClient
  <2>2. run[c] = "starting"
    BY <1>7, ForOneClient DEF DialIsHeld
  <2>3. OnlyAppsOf(c)
    BY <1>3, <1>7, <2>2 DEF IInv, AppsAreTidy, OnlyAppsOf
  <2>4. HasOneSession(c)' /\ DialIsHeld(c)'
    BY <1>4, <1>6, <2>1 DEF HasOneSession, DialIsHeld
  <2> QED
    BY <1>1, <1>3, <1>4, <1>7, <2>1, <2>3, <2>4, ClientMoves
<1>8. CASE holder[c] # None
  <2>1. PICK a \in Apps : a = holder[c]
    BY <1>1, <1>8 DEF ClientTypes
  <2>2. /\ stream[a].app = "dialing" /\ stream[a].of = c /\ stream[a].srv = "done"
        /\ run[c] = "up" /\ AppAt(a, "none")
    BY <1>3, <1>8, <2>1 DEF IInv, DialsAreHeld, AppsAreTidy, AppGone
  <2>3. ClientTypes' /\ OnlyClient(c) /\ run'[c] = "up"
    BY <1>1, <1>3, <1>8, <2>2 DEF ClientTypes, OnlyClient
  <2>4. stream' \in [Apps -> StreamStates] /\ OnlyAppsOf(c)
    BY <2>2, <2>3, AppTurns
  <2>5. HasOneSession(c)' /\ DialIsHeld(c)'
    BY <1>4, <1>6, <2>3 DEF HasOneSession, DialIsHeld
  <2> QED
    BY <1>3, <1>4, <2>3, <2>4, <2>5, ClientMoves
<1> QED
  BY <1>7, <1>8

LEMMA BackoffEndsIInv ==
  ASSUME IInv, NEW c \in Clients, BackoffEnds(c)
  PROVE  IInv'
<1>1. /\ UNCHANGED <<run, sess, dialed, holder, fatal, session, stream, countVars>>
      /\ ClientTypes' /\ session \in [Sessions -> SessionStates] /\ stream \in [Apps -> StreamStates]
  BY Types DEF IInv, BackoffEnds, ClientTypes
<1>2. OnlyClient(c) /\ OnlySessionsOf(c)
  BY <1>1 DEF OnlyClient, OnlySessionsOf
<1>3. OnlyAppsOf(c)
  BY <1>1 DEF IInv, AppsAreTidy, OnlyAppsOf
<1>4. HasOneSession(c)' /\ DialIsHeld(c)'
  BY <1>1, ForOneClient DEF HasOneSession, DialIsHeld
<1> QED
  BY <1>1, <1>2, <1>3, <1>4, ClientMoves

LEMMA NoticeLossIInv ==
  ASSUME IInv, NEW c \in Clients, NoticeLoss(c)
  PROVE  IInv'
<1>1. ClientTypes /\ stream \in [Apps -> StreamStates]
  BY Types DEF IInv
<1>2. /\ session' = ClosedByClient(sess[c]) /\ sess[c] \in Sessions
      /\ sess' = [sess EXCEPT ![c] = None]
      /\ UNCHANGED <<run, dialed, holder, waits, fatal, stream, countVars>>
  BY <1>1 DEF NoticeLoss, ClientTypes
<1>3. /\ session' \in [Sessions -> SessionStates] /\ OnlySessionsOf(c)
      /\ \A t \in Sessions : ~(session'[t].client /\ session'[t].owner = c)
  BY <1>2, Closing
<1>4. ClientTypes' /\ OnlyClient(c) /\ sess'[c] = None
  BY <1>1, <1>2 DEF ClientTypes, OnlyClient
<1>5. OnlyAppsOf(c)
  BY <1>2 DEF IInv, AppsAreTidy, OnlyAppsOf
<1>6. HasOneSession(c)' /\ DialIsHeld(c)'
  BY <1>2, <1>3, <1>4, ForOneClient DEF HasOneSession, DialIsHeld
<1> QED
  BY <1>1, <1>2, <1>3, <1>4, <1>5, <1>6, ClientMoves

(* The end of the program leaves every handler of the server as it is. *)
LEMMA OffIInv ==
  ASSUME IInv, NEW c \in Clients, Off(c)
  PROVE  IInv'
<1> DEFINE shut(s) == Tidy([session[s] EXCEPT !.client = FALSE])
           gone(a) == TidyStream([stream[a] EXCEPT !.app = "none"])
<1>1. /\ ClientTypes /\ session \in [Sessions -> SessionStates] /\ stream \in [Apps -> StreamStates]
  BY Types DEF IInv
<1>2. /\ run' = [run EXCEPT ![c] = "off"] /\ sess' = [sess EXCEPT ![c] = None]
      /\ waits' = [waits EXCEPT ![c] = FALSE] /\ fatal' = [fatal EXCEPT ![c] = FALSE]
      /\ dialed' = [dialed EXCEPT ![c] = None] /\ holder' = [holder EXCEPT ![c] = None]
      /\ session' = [s \in Sessions |-> IF session[s].owner = c THEN shut(s) ELSE session[s]]
      /\ stream' = [a \in Apps |-> IF stream[a].of = c THEN gone(a) ELSE stream[a]]
      /\ UNCHANGED countVars
  BY DEF Off, EndDial
<1>3. ASSUME NEW s \in Sessions
      PROVE  /\ shut(s) \in SessionStates /\ ~shut(s).client
             /\ shut(s).server \in Busy <=> session[s].server \in Busy
  <2> DEFINE old == session[s]
             r == [old EXCEPT !.client = FALSE]
  <2>1. old \in SessionStates
    BY <1>1
  <2> HIDE DEF old
  <2>2. r \in SessionStates /\ ~r.client /\ r.server = old.server
    BY <2>1 DEF SessionStates
  <2> HIDE DEF r
  <2>3. Tidy(r) \in SessionStates /\ ~Tidy(r).client /\ (Tidy(r).server \in Busy <=> old.server \in Busy)
    BY <2>2, TidyIs
  <2> QED
    BY <2>3 DEF r, old
<1>4. ASSUME NEW a \in Apps
      PROVE  /\ gone(a) \in StreamStates /\ gone(a).app = "none" /\ gone(a).srv = stream[a].srv
             /\ stream[a].srv # "done" => gone(a).of = stream[a].of
  <2> DEFINE old == stream[a]
             r == [old EXCEPT !.app = "none"]
  <2>1. old \in StreamStates
    BY <1>1
  <2> HIDE DEF old
  <2>2. r \in StreamStates /\ r.app = "none" /\ r.srv = old.srv /\ r.of = old.of
    BY <2>1 DEF StreamStates, AppSteps
  <2> HIDE DEF r
  <2>3. /\ TidyStream(r) \in StreamStates /\ TidyStream(r).app = "none"
        /\ TidyStream(r).srv = old.srv /\ (old.srv # "done" => TidyStream(r).of = old.of)
    BY <2>2, TidyStreamIs
  <2> QED
    BY <2>3 DEF r, old
<1> HIDE DEF shut, gone
<1>5. /\ session' \in [Sessions -> SessionStates] /\ OnlySessionsOf(c)
      /\ \A t \in Sessions : ~(session'[t].client /\ session'[t].owner = c)
  BY <1>1, <1>2, <1>3 DEF OnlySessionsOf
<1>6. stream' \in [Apps -> StreamStates] /\ OnlyAppsOf(c)
  BY <1>1, <1>2, <1>4 DEF OnlyAppsOf, SameWork, Working
<1>7. /\ ClientTypes' /\ OnlyClient(c) /\ run'[c] = "off" /\ ~fatal'[c]
      /\ sess'[c] = None /\ dialed'[c] = None /\ holder'[c] = None
  BY <1>1, <1>2 DEF ClientTypes, OnlyClient
<1>8. HasOneSession(c)' /\ DialIsHeld(c)'
  BY <1>5, <1>7 DEF HasOneSession, DialIsHeld
<1> QED
  BY <1>2, <1>5, <1>6, <1>7, <1>8, ClientMoves

-----------------------------------------------------------------------------
(* All steps together.                                                     *)
LEMMA InitIInv == Init => IInv
<1> SUFFICES ASSUME Init PROVE IInv
  OBVIOUS
<1>1. /\ run = [c \in Clients |-> "off"] /\ sess = [c \in Clients |-> None]
      /\ dialed = [c \in Clients |-> None] /\ holder = [c \in Clients |-> None]
      /\ waits = [c \in Clients |-> FALSE] /\ fatal = [c \in Clients |-> FALSE]
      /\ session = [s \in Sessions |-> NoSession] /\ stream = [a \in Apps |-> NoStream]
      /\ perKey = [c \in Clients |-> 0] /\ total = 0 /\ slots = 0
  BY DEF Init
<1> HIDE DEF Init
<1>2. ClientTypes
  BY <1>1 DEF ClientTypes
<1>3. CountTypes
  BY <1>1, ReliableAssumption DEF CountTypes
<1>4. session \in [Sessions -> SessionStates] /\ stream \in [Apps -> StreamStates]
  BY <1>1, NoSessionIs, NoStreamIs
<1>5. AppsAreTidy /\ DialsAreHeld
  BY <1>1, NoStreamIs DEF AppsAreTidy, DialsAreHeld
<1>6. NoSecondSession /\ OffHasNothing /\ OpenAreOwned /\ OneSession
  BY <1>1, NoSessionIs DEF NoSecondSession, OffHasNothing, OpenAreOwned, OneSession
<1>7. Handling = {} /\ WorkingApps = {} /\ \A c \in Clients : WorkingFor(c) = {}
  BY <1>1, NoStreamIs, NoSessionIs DEF Handling, WorkingApps, WorkingFor, Working
<1>8. IsFiniteSet({}) /\ Cardinality({}) = 0
  BY FS_EmptySet
<1>9. StreamsAreCounted /\ SlotsAreCounted
  BY <1>1, <1>7, <1>8, ReliableAssumption DEF StreamsAreCounted, SlotsAreCounted
<1> QED
  BY <1>2, <1>3, <1>4, <1>5, <1>6, <1>9, Types DEF IInv

LEMMA NextIInv == IInv /\ [Next]_vars => IInv'
<1> SUFFICES ASSUME IInv, [Next]_vars PROVE IInv'
  OBVIOUS
<1>1. ASSUME NEW c \in Clients, Dialing(c) PROVE IInv'
  BY <1>1, DialSucceedsIInv, DialEndedIInv DEF Dialing, DialFails, DialRejected
<1>2. ASSUME NEW c \in Clients, Start(c) \/ BackoffEnds(c) \/ NoticeLoss(c) \/ Off(c) PROVE IInv'
  BY <1>2, StartIInv, BackoffEndsIInv, NoticeLossIInv, OffIInv
<1>3. ASSUME NEW a \in Apps, AppStep(a) PROVE IInv'
  BY <1>3, OpenStreamIInv, RedialIInv DEF AppStep
<1>4. ASSUME NEW s \in Sessions, HandleConn(s) \/ Cut(s) PROVE IInv'
  BY <1>4, HandleConnIInv, HandlerEndsIInv, CutIInv DEF HandleConn
<1>5. CASE UNCHANGED vars
  <2>1. /\ UNCHANGED <<clientVars, session, stream, countVars>>
        /\ session \in [Sessions -> SessionStates] /\ stream \in [Apps -> StreamStates]
        /\ CountTypes'
    BY <1>5, Types DEF vars, IInv, CountTypes, countVars
  <2>2. StreamsAreCounted' /\ SlotsAreCounted'
    BY <2>1, StreamsSteady, SlotsSteady DEF SameWork, countVars
  <2> QED
    BY <2>1, <2>2, ClientsSteady DEF SessionSteady, AppSteady
<1> QED
  BY <1>1, <1>2, <1>3, <1>4, <1>5, ConnectIInv, HandleAppIInv, HandleStreamIInv DEF Next

(* The inductive invariant holds in every reachable state. *)
THEOREM InductiveInvariant == Spec => []IInv
  BY InitIInv, NextIInv, PTL DEF Spec

(* The types of all variables: among them that no counter becomes negative *)
(* or exceeds its limit (reliable.go:55-77, main.go:265-278).              *)
THEOREM TypeCorrect == Spec => []TypeOK
<1>1. IInv => TypeOK
  BY DEF IInv
<1> QED
  BY <1>1, InductiveInvariant, PTL

(* The streams counted for every key and in total are the handlers that    *)
(* run, the slots are the connections being handled, and all of them are   *)
(* within their limits (reliable.go:55-77, 109-114, main.go:265-278).      *)
THEOREM CountersCorrect == Spec => []CountersAreExact
<1>1. IInv => CountersAreExact
  BY DEF IInv, StreamsAreCounted, SlotsAreCounted, WorkingApps, CountersAreExact
<1> QED
  BY <1>1, InductiveInvariant, PTL

(* A client has at most one session, the one in s.sess or the one being    *)
(* dialed, and none after a permanent error (socks.go:105-107, 117-154).   *)
THEOREM SessionIsSingle == Spec => []OneSession
<1>1. IInv => OneSession
  BY DEF IInv
<1> QED
  BY <1>1, InductiveInvariant, PTL
=============================================================================
