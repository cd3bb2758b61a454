------------------------------- MODULE WorkProofs -------------------------------
(***************************************************************************)
(* Proofs about the work beside the bus (MCWork), for any constants of its *)
(* three parts.                                                            *)
(*                                                                         *)
(* PtySupervisor: its state is well typed, and SupervisorSafety holds,     *)
(* whose promises are not inductive.  What makes them hold: a call that    *)
(* uses an entry stands in its lock (LocksKept); the map has the entries   *)
(* that are not retired, and a claude that may write is on one of them or  *)
(* has a record (ClaudesKnown); the admission lock separates the evictions *)
(* (RoomKept).                                                             *)
(*                                                                         *)
(* AgentJobs: its state is well typed, no more jobs run than there are     *)
(* slots, a job waits only while they are taken, and a dispatcher hears of *)
(* its job once.                                                           *)
(*                                                                         *)
(* TelegramOutbox: its state is well typed, and ChunkSafety holds, which   *)
(* is not inductive.  What makes it hold: memory and file agree on what is *)
(* left of each message; what is left of a message, in the queue or in the *)
(* drain's hand, starts at a chunk whose predecessors Telegram has, and so *)
(* does a send that may still arrive; and a message is queued once, after  *)
(* its deliver call.                                                       *)
(*                                                                         *)
(* Last the work as a whole, from the theorems of its parts.               *)
(***************************************************************************)
EXTENDS MCWork, SequenceLemmas

--------------------------------------------------------------------------------
(* PtySupervisor *)

CallSteps == {"idle", "admit", "queued", "evict", "wait", "spawn", "turn", "backoff", "respawn",
              "ending", "look", "gate", "done"}

\* Where c stands, with es the entries, st its step and e the entry it uses.
Stands(c, es, st, e) ==
  /\ st = "wait" => e \in DOMAIN es /\ Listed(c, es[e].lock)
  /\ st \in {"spawn", "turn", "backoff", "respawn"} =>
       e \in DOMAIN es /\ es[e].lock # <<>> /\ Head(es[e].lock) = c
  /\ st \in {"ending", "evict"} => e \in DOMAIN es

LocksKept(es, st, a) == \A c \in SupCalls : Stands(c, es, st[c], a[c])

Writes(es, e) == es[e].claude \in {"alive", "closed"}

\* The map p, the records u and i, and the claudes of the entries es.
ClaudesKnown(es, p, u, i) ==
  /\ \A k \in Keys : p[k] # 0 => es[p[k]].key = k
  /\ \A e \in DOMAIN es :
       /\ es[e].retiring # "done" <=> p[es[e].key] = e
       /\ es[e].retiring = "done" /\ es[e].spawn # "none" => e \in i
       /\ es[e].spawn \in {"prepare", "gate"} => es[e].claude = "none"
       /\ Writes(es, e) => \/ es[e].retiring # "done"
                           \/ e \in u
                           \/ e \in i /\ es[e].spawn # "none"
  /\ \A e, f \in DOMAIN es :
       e # f /\ es[e].key = es[f].key => ~(Writes(es, e) /\ Writes(es, f))

\* The entries that count against the cap.
Live(es) == {e \in DOMAIN es : es[e].retiring = "no" /\ es[e].key \notin Ephemeral}

AdhocIn(es, T) == {e \in T : es[e].key \in Adhoc}

OneAtMost(T) == \A e, f \in T : e = f

Fits(es) == Cardinality(Live(es)) <= MaxPtys \/ OneAtMost(AdhocIn(es, Live(es)))

Roomy(es) == Cardinality(Live(es)) < MaxPtys \/ AdhocIn(es, Live(es)) = {}

\* An admission that waits for its victim has the lock, and room once it is through.
RoomKept ==
  /\ Fits(entries)
  /\ \A c \in SupCalls :
       step[c] = "evict" /\ c \notin overtaken => HoldsAdmission(c) /\ Roomy(entries)

SupervisorInv ==
  /\ SupervisorTypeOK
  /\ LocksKept(entries, step, at)
  /\ ClaudesKnown(entries, ptys, unproven, standIns)
  /\ RoomKept
  /\ NoneOutlivesShutdown
  /\ NotLiveMeansGone

--------------------------------------------------------------------------------
\* Changes of the entries that disturb no claude: only the locks, and retirements begun.
Calm(es, fs) ==
  /\ fs \in Seq(EntryStates)
  /\ DOMAIN fs = DOMAIN es
  /\ \A e \in DOMAIN es :
       /\ fs[e].key = es[e].key /\ fs[e].claude = es[e].claude /\ fs[e].spawn = es[e].spawn
       /\ fs[e].retiring # es[e].retiring => es[e].retiring = "no" /\ fs[e].retiring = "running"

SameLocks(es, fs) == DOMAIN fs = DOMAIN es /\ \A e \in DOMAIN es : fs[e].lock = es[e].lock

\* Every other call keeps its place.
OthersStand(c, es, fs) ==
  /\ DOMAIN es \subseteq DOMAIN fs
  /\ \A d \in SupCalls : d # c =>
       \A st \in CallSteps : \A x \in DOMAIN es \cup {0} :
         Stands(d, es, st, x) => Stands(d, fs, st, x)

\* The entries change as es does, which changes claudes, spawns and retirements only.
NoRevival(es, fs) ==
  /\ fs \in Seq(EntryStates)
  /\ DOMAIN fs = DOMAIN es
  /\ \A e \in DOMAIN es : /\ fs[e].key = es[e].key
                          /\ fs[e].retiring = "no" => es[e].retiring = "no"

LEMMA Update ==
  ASSUME NEW es \in Seq(EntryStates), NEW e \in DOMAIN es, NEW r \in EntryStates
  PROVE  LET fs == [es EXCEPT ![e] = r]
         IN  /\ fs \in Seq(EntryStates)
             /\ DOMAIN fs = DOMAIN es
             /\ fs[e] = r
             /\ \A d \in DOMAIN es : d # e => fs[d] = es[d]
OBVIOUS

LEMMA EntryTyped ==
  ASSUME NEW es \in Seq(EntryStates)
  PROVE  /\ DOMAIN es \subseteq Nat \ {0}
         /\ DOMAIN es = 1 .. Len(es) /\ Len(es) \in Nat
         /\ \A e \in DOMAIN es : es[e] \in EntryStates
OBVIOUS

LEMMA CalmKeepsClaudes ==
  ASSUME NEW es \in Seq(EntryStates), NEW fs, Calm(es, fs),
         NEW p, NEW u, NEW i, ClaudesKnown(es, p, u, i), p \in [Keys -> DOMAIN es \cup {0}]
  PROVE  ClaudesKnown(fs, p, u, i)
<1>1. \A e \in DOMAIN es : fs[e].key \in Keys /\ es[e].key \in Keys
  <2>1. \A e \in DOMAIN es : es[e] \in EntryStates
    BY EntryTyped
  <2> QED
    BY <2>1 DEF Calm, EntryStates
<1>2. \A e \in DOMAIN es : Writes(fs, e) <=> Writes(es, e)
  BY DEF Calm, Writes
<1>3. \A e \in DOMAIN es : fs[e].retiring = "done" <=> es[e].retiring = "done"
  BY DEF Calm
<1> QED
  BY <1>1, <1>2, <1>3 DEF Calm, ClaudesKnown

LEMMA CalmRevivesNone ==
  ASSUME NEW es, NEW fs, Calm(es, fs)
  PROVE  NoRevival(es, fs)
BY DEF Calm, NoRevival

LEMMA CalmOnward ==
  ASSUME NEW es, NEW fs, NEW gs, Calm(es, fs), Calm(fs, gs)
  PROVE  Calm(es, gs)
BY DEF Calm

LEMMA RevivalOnward ==
  ASSUME NEW es, NEW fs, NEW gs, NoRevival(es, fs), NoRevival(fs, gs)
  PROVE  NoRevival(es, gs)
BY DEF NoRevival

LEMMA SameLocksStand ==
  ASSUME NEW es, NEW fs, SameLocks(es, fs)
  PROVE  /\ \A d, st, x : Stands(d, es, st, x) => Stands(d, fs, st, x)
         /\ \A c : OthersStand(c, es, fs)
<1>1. \A d, st, x : Stands(d, es, st, x) => Stands(d, fs, st, x)
  BY DEF SameLocks, Stands
<1> QED
  BY <1>1 DEF OthersStand, SameLocks

LEMMA RetireCalm ==
  ASSUME NEW es \in Seq(EntryStates), NEW e \in DOMAIN es
  PROVE  /\ Calm(es, Retire(es, e)) /\ SameLocks(es, Retire(es, e))
         /\ Retire(es, e)[e].retiring # "no"
<1>1. CASE es[e].retiring # "no"
  BY <1>1 DEF Retire, Calm, SameLocks
<1>2. CASE es[e].retiring = "no"
  <2> DEFINE r == [es[e] EXCEPT !.retiring = "running"]
             fs == [es EXCEPT ![e] = r]
  <2>1. Retire(es, e) = fs
    BY <1>2 DEF Retire
  <2>2. /\ r \in EntryStates /\ r.key = es[e].key /\ r.claude = es[e].claude
        /\ r.spawn = es[e].spawn /\ r.lock = es[e].lock /\ r.retiring = "running"
    <3>1. es[e] \in EntryStates
      BY EntryTyped
    <3> QED
      BY <3>1 DEF EntryStates
  <2> HIDE DEF r
  <2>3. /\ fs \in Seq(EntryStates) /\ DOMAIN fs = DOMAIN es /\ fs[e] = r
        /\ \A d \in DOMAIN es : d # e => fs[d] = es[d]
    BY <2>2, Update
  <2> HIDE DEF fs
  <2> QED
    BY <1>2, <2>1, <2>2, <2>3 DEF Calm, SameLocks
<1> QED
  BY <1>1, <1>2

LEMMA UnlockCalm ==
  ASSUME NEW es \in Seq(EntryStates), NEW e \in DOMAIN es, NEW c
  PROVE  Calm(es, Unlock(es, e, c)) /\ OthersStand(c, es, Unlock(es, e, c))
<1> DEFINE q == RemoveFirst(es[e].lock, c)
           r == [es[e] EXCEPT !.lock = q]
           fs == [es EXCEPT ![e] = r]
<1>1. Unlock(es, e, c) = fs
  BY DEF Unlock
<1>0. es[e] \in EntryStates
  BY EntryTyped
<1>2. es[e].lock \in Seq(SupCalls)
  BY <1>0 DEF EntryStates
<1>3. /\ q \in Seq(SupCalls)
      /\ \A y : y # c /\ Listed(y, es[e].lock) => Listed(y, q)
      /\ \A y : y # c /\ es[e].lock # <<>> /\ Head(es[e].lock) = y => q # <<>> /\ Head(q) = y
  BY <1>2, RemoveFirstKeeps
<1> HIDE DEF q
<1>4. /\ r \in EntryStates /\ r.key = es[e].key /\ r.claude = es[e].claude
      /\ r.spawn = es[e].spawn /\ r.lock = q /\ r.retiring = es[e].retiring
  BY <1>0, <1>3 DEF EntryStates
<1> HIDE DEF r
<1>5. /\ fs \in Seq(EntryStates) /\ DOMAIN fs = DOMAIN es /\ fs[e] = r
      /\ \A d \in DOMAIN es : d # e => fs[d] = es[d]
  BY <1>4, Update
<1> HIDE DEF fs
<1>6. Calm(es, fs)
  BY <1>4, <1>5 DEF Calm
<1>7. ASSUME NEW d \in SupCalls, d # c, NEW st, NEW x, Stands(d, es, st, x)
      PROVE  Stands(d, fs, st, x)
  <2>1. CASE x = e
    BY <1>3, <1>4, <1>5, <1>7, <2>1 DEF Stands
  <2>2. CASE x # e
    BY <1>5, <1>7, <2>2 DEF Stands
  <2> QED
    BY <2>1, <2>2
<1> QED
  BY <1>1, <1>5, <1>6, <1>7 DEF OthersStand

--------------------------------------------------------------------------------
\* The calls: where they are (st), the entry they use (a), their tries (t).
CallsOk(es, st, a, t) ==
  /\ st \in [SupCalls -> CallSteps]
  /\ a \in [SupCalls -> DOMAIN es \cup {0}]
  /\ t \in [SupCalls -> [turns : 0 .. MaxRetries, respawns : 0 .. RespawnRetries]]
  /\ LocksKept(es, st, a)

Admitting == {"admit", "queued", "evict"}

\* The calls that move are past their admission.
Away(st, st2) ==
  \A d \in SupCalls :
    st2[d] # st[d] => st[d] \notin Admitting \cup {"done"} /\ st2[d] # "evict"

\* What each step that is not an admission makes of es.
Follows(es) ==
  Calm(es, entries') /\ CallsOk(entries', step', at', tries') /\ Away(step, step')

LEMMA EndsKeeps ==
  ASSUME NEW es, NEW fs, NEW c \in SupCalls, CallsOk(es, step, at, tries),
         OthersStand(c, es, fs), Ends(c)
  PROVE  /\ CallsOk(fs, step', at', tries')
         /\ step[c] \notin Admitting \cup {"done"} => Away(step, step')
<1>1. step' \in [SupCalls -> CallSteps] /\ step'[c] = "done"
  BY DEF Ends, CallsOk, CallSteps
<1>2. at' \in [SupCalls -> DOMAIN fs \cup {0}]
  BY DEF Ends, CallsOk, OthersStand
<1>3. NoTries \in [turns : 0 .. MaxRetries, respawns : 0 .. RespawnRetries]
  BY SupervisorAssumption DEF NoTries
<1>4. tries' \in [SupCalls -> [turns : 0 .. MaxRetries, respawns : 0 .. RespawnRetries]]
  BY <1>3 DEF Ends, CallsOk
<1>5. Stands(c, fs, step'[c], at'[c])
  BY <1>1 DEF Stands
<1>6. ASSUME NEW d \in SupCalls, d # c PROVE Stands(d, fs, step'[d], at'[d])
  <2>1. step'[d] = step[d] /\ at'[d] = at[d] /\ step[d] \in CallSteps /\ at[d] \in DOMAIN es \cup {0}
    BY <1>6 DEF Ends, CallsOk
  <2> QED
    BY <1>6, <2>1 DEF CallsOk, LocksKept, OthersStand
<1>7. LocksKept(fs, step', at')
  BY <1>5, <1>6 DEF LocksKept
<1>8. step[c] \notin Admitting \cup {"done"} => Away(step, step')
  <2>1. step \in [SupCalls -> CallSteps] /\ step' = [step EXCEPT ![c] = "done"]
    BY DEF Ends, CallsOk
  <2>2. step'[c] = "done" /\ \A d \in SupCalls : d # c => step'[d] = step[d]
    BY <2>1
  <2> QED
    BY <2>2 DEF Away
<1> QED
  BY <1>1, <1>2, <1>4, <1>7, <1>8 DEF CallsOk

LEMMA MovesKeeps ==
  ASSUME NEW es, NEW fs, NEW c \in SupCalls, CallsOk(es, step, at, tries),
         OthersStand(c, es, fs), NEW where \in CallSteps, NEW e \in DOMAIN fs \cup {0},
         Stands(c, fs, where, e), Moves(c, where, e)
  PROVE  /\ CallsOk(fs, step', at', tries')
         /\ step[c] \notin Admitting \cup {"done"} /\ where # "evict" => Away(step, step')
<1>1. step' \in [SupCalls -> CallSteps] /\ step'[c] = where
  BY DEF Moves, CallsOk
<1>2. at' \in [SupCalls -> DOMAIN fs \cup {0}] /\ at'[c] = e
  BY DEF Moves, CallsOk, OthersStand
<1>4. tries' \in [SupCalls -> [turns : 0 .. MaxRetries, respawns : 0 .. RespawnRetries]]
  BY DEF Moves, CallsOk
<1>6. ASSUME NEW d \in SupCalls, d # c PROVE Stands(d, fs, step'[d], at'[d])
  <2>1. step'[d] = step[d] /\ at'[d] = at[d] /\ step[d] \in CallSteps /\ at[d] \in DOMAIN es \cup {0}
    BY <1>6 DEF Moves, CallsOk
  <2> QED
    BY <1>6, <2>1 DEF CallsOk, LocksKept, OthersStand
<1>7. LocksKept(fs, step', at')
  BY <1>1, <1>2, <1>6 DEF LocksKept
<1>8. step[c] \notin Admitting \cup {"done"} /\ where # "evict" => Away(step, step')
  <2>1. step \in [SupCalls -> CallSteps] /\ step' = [step EXCEPT ![c] = where]
    BY DEF Moves, CallsOk
  <2>2. step'[c] = where /\ \A d \in SupCalls : d # c => step'[d] = step[d]
    BY <2>1
  <2> QED
    BY <2>2 DEF Away
<1> QED
  BY <1>1, <1>2, <1>4, <1>7, <1>8 DEF CallsOk

\* Calls that rest.
LEMMA RestKeeps ==
  ASSUME NEW es, NEW fs, CallsOk(es, step, at, tries), SameLocks(es, fs), UNCHANGED callVars
  PROVE  CallsOk(fs, step', at', tries') /\ Away(step, step')
<1>1. \A d, st, x : Stands(d, es, st, x) => Stands(d, fs, st, x)
  BY SameLocksStand
<1>2. LocksKept(fs, step, at)
  BY <1>1 DEF CallsOk, LocksKept
<1>3. step' = step /\ at' = at /\ tries' = tries /\ DOMAIN fs = DOMAIN es
  BY DEF callVars, SameLocks
<1>4. Away(step, step')
  BY <1>3 DEF Away
<1> QED
  BY <1>2, <1>3, <1>4 DEF CallsOk

LEMMA CalmItself ==
  ASSUME NEW es \in Seq(EntryStates)
  PROVE  Calm(es, es) /\ SameLocks(es, es)
BY DEF Calm, SameLocks

LEMMA SameLocksOnward ==
  ASSUME NEW c, NEW es, NEW fs, NEW gs, OthersStand(c, es, fs), SameLocks(fs, gs)
  PROVE  OthersStand(c, es, gs)
<1>1. \A d, st, x : Stands(d, fs, st, x) => Stands(d, gs, st, x)
  BY SameLocksStand
<1> QED
  BY <1>1 DEF OthersStand, SameLocks

LEMMA LeavesKeeps ==
  ASSUME NEW es \in Seq(EntryStates), NEW e \in DOMAIN es, NEW c \in SupCalls,
         CallsOk(es, step, at, tries), step[c] \notin Admitting \cup {"done"}, Leaves(c, e, es)
  PROVE  Follows(es)
<1> DEFINE fs == Unlock(es, e, c)
<1>1. fs \in Seq(EntryStates) /\ DOMAIN fs = DOMAIN es /\ Calm(es, fs) /\ OthersStand(c, es, fs)
  BY UnlockCalm DEF Calm
<1>2. Calm(fs, Retire(fs, e)) /\ SameLocks(fs, Retire(fs, e))
  BY <1>1, RetireCalm
<1>3. Calm(es, Retire(fs, e)) /\ OthersStand(c, es, Retire(fs, e))
  BY <1>1, <1>2, CalmOnward, SameLocksOnward
<1>4. CASE KeyOf[c] \in Ephemeral
  <2>1. entries' = Retire(fs, e) /\ Moves(c, "ending", e)
    BY <1>4 DEF Leaves
  <2>2. e \in DOMAIN entries' /\ Stands(c, entries', "ending", e) /\ "ending" \in CallSteps
    BY <1>3, <2>1 DEF Stands, Calm, CallSteps
  <2> QED
    BY <1>3, <2>1, <2>2, MovesKeeps DEF Follows
<1>5. CASE KeyOf[c] \notin Ephemeral
  <2>1. entries' = fs /\ Ends(c)
    BY <1>5 DEF Leaves
  <2> QED
    BY <1>1, <2>1, EndsKeeps DEF Follows
<1> QED
  BY <1>4, <1>5

\* A call that holds the lock of its entry.
LEMMA RunTurnKeeps ==
  ASSUME NEW es \in Seq(EntryStates), NEW e \in DOMAIN es, NEW c \in SupCalls,
         CallsOk(es, step, at, tries), step[c] \notin Admitting \cup {"done"}, at[c] = e,
         es[e].lock # <<>>, Head(es[e].lock) = c, RunTurn(c, e, es)
  PROVE  Follows(es)
<1>0. OthersStand(c, es, es) /\ Calm(es, es)
  BY CalmItself, SameLocksStand
<1>1. CASE es[e].claude = "alive"
  <2>1. entries' = es /\ Moves(c, "turn", e)
    BY <1>1 DEF RunTurn
  <2>2. Stands(c, es, "turn", e) /\ "turn" \in CallSteps
    BY DEF Stands, CallSteps
  <2> QED
    BY <1>0, <2>1, <2>2, MovesKeeps DEF Follows
<1>2. CASE es[e].claude # "alive" /\ tries[c].turns < MaxRetries /\ KeyOf[c] \notin Ephemeral
  <2>1. /\ entries' = es
        /\ step' = [step EXCEPT ![c] = "backoff"]
        /\ tries' = [tries EXCEPT ![c] = [turns |-> tries[c].turns + 1, respawns |-> 0]]
        /\ at' = at
    BY <1>2 DEF RunTurn
  <2>2. /\ tries[c] \in [turns : 0 .. MaxRetries, respawns : 0 .. RespawnRetries]
        /\ MaxRetries \in Nat /\ RespawnRetries \in Nat
    BY SupervisorAssumption DEF CallsOk
  <2>3. [turns |-> tries[c].turns + 1, respawns |-> 0]
            \in [turns : 0 .. MaxRetries, respawns : 0 .. RespawnRetries]
    BY <1>2, <2>2
  <2>4. tries' \in [SupCalls -> [turns : 0 .. MaxRetries, respawns : 0 .. RespawnRetries]]
    BY <2>1, <2>3 DEF CallsOk
  <2>5. step' \in [SupCalls -> CallSteps] /\ at' \in [SupCalls -> DOMAIN entries' \cup {0}]
    BY <2>1 DEF CallsOk, CallSteps
  <2>6. ASSUME NEW d \in SupCalls PROVE Stands(d, es, step'[d], at[d])
    <3>1. CASE d = c
      BY <2>1, <3>1 DEF Stands, CallsOk
    <3>2. CASE d # c
      BY <2>1, <3>2 DEF CallsOk, LocksKept
    <3> QED
      BY <3>1, <3>2
  <2>7. LocksKept(entries', step', at')
    BY <2>1, <2>6 DEF LocksKept
  <2>8. CallsOk(entries', step', at', tries')
    BY <2>4, <2>5, <2>7 DEF CallsOk
  <2>9. step \in [SupCalls -> CallSteps] /\ \A d \in SupCalls : d # c => step'[d] = step[d]
    BY <2>1 DEF CallsOk
  <2>10. step'[c] = "backoff"
    BY <2>1, <2>9
  <2>11. Away(step, step')
    BY <2>9, <2>10 DEF Away
  <2> QED
    BY <1>0, <2>1, <2>8, <2>11 DEF Follows
<1>3. CASE es[e].claude # "alive" /\ ~(tries[c].turns < MaxRetries /\ KeyOf[c] \notin Ephemeral)
  BY <1>3, LeavesKeeps DEF RunTurn
<1> QED
  BY <1>1, <1>2, <1>3

LEMMA CallsStay ==
  ASSUME NEW es, NEW fs, NEW st, NEW a, NEW t, CallsOk(es, st, a, t), SameLocks(es, fs)
  PROVE  CallsOk(fs, st, a, t)
<1>1. \A d, s, x : Stands(d, es, s, x) => Stands(d, fs, s, x)
  BY SameLocksStand
<1>2. LocksKept(fs, st, a)
  BY <1>1 DEF CallsOk, LocksKept
<1> QED
  BY <1>2 DEF CallsOk, SameLocks

\* A change of one entry that leaves its key and its lock.
LEMMA ChangeOne ==
  ASSUME NEW es \in Seq(EntryStates), NEW e \in DOMAIN es, NEW r \in EntryStates,
         r.key = es[e].key, r.lock = es[e].lock, r.retiring = "no" => es[e].retiring = "no"
  PROVE  LET fs == [es EXCEPT ![e] = r] IN NoRevival(es, fs) /\ SameLocks(es, fs)
<1> DEFINE fs == [es EXCEPT ![e] = r]
<1>1. /\ fs \in Seq(EntryStates) /\ DOMAIN fs = DOMAIN es /\ fs[e] = r
      /\ \A d \in DOMAIN es : d # e => fs[d] = es[d]
  BY Update
<1> HIDE DEF fs
<1> QED
  BY <1>1 DEF NoRevival, SameLocks

\* The entries once the spawn of e has settled.
BootOver(es, e) == [es EXCEPT ![e].spawn = "none"]

LEMMA BootOverIs ==
  ASSUME NEW es \in Seq(EntryStates), NEW e \in DOMAIN es
  PROVE  /\ NoRevival(es, BootOver(es, e)) /\ SameLocks(es, BootOver(es, e))
         /\ \A d \in DOMAIN es :
              LET f == BootOver(es, e)[d]
              IN  /\ f.key = es[d].key /\ f.claude = es[d].claude
                  /\ f.retiring = es[d].retiring
                  /\ f.spawn = IF d = e THEN "none" ELSE es[d].spawn
<1> DEFINE r == [es[e] EXCEPT !.spawn = "none"]
<1>0. es[e] \in EntryStates
  BY EntryTyped
<1>1. /\ r \in EntryStates /\ r.key = es[e].key /\ r.claude = es[e].claude
      /\ r.spawn = "none" /\ r.lock = es[e].lock /\ r.retiring = es[e].retiring
  BY <1>0 DEF EntryStates
<1>2. BootOver(es, e) = [es EXCEPT ![e] = r]
  BY DEF BootOver
<1> HIDE DEF r
<1>3. NoRevival(es, BootOver(es, e)) /\ SameLocks(es, BootOver(es, e))
  BY <1>1, <1>2, ChangeOne
<1>4. BootOver(es, e)[e] = r /\ \A d \in DOMAIN es : d # e => BootOver(es, e)[d] = es[d]
  BY <1>1, <1>2, Update
<1> QED
  BY <1>1, <1>3, <1>4

LEMMA SpawnSettlesKeeps ==
  ASSUME NEW es \in Seq(EntryStates), NEW e \in DOMAIN es, NEW how,
         CallsOk(es, step, at, tries), SpawnSettles(e, es, how)
  PROVE  Follows(BootOver(es, e))
<1> DEFINE fs == BootOver(es, e)
           waiting == {c \in Reqs : at[c] = e /\ step[c] \in {"spawn", "respawn"}}
<1>1. fs \in Seq(EntryStates) /\ DOMAIN fs = DOMAIN es /\ SameLocks(es, fs)
  BY BootOverIs DEF NoRevival
<1>2. CallsOk(fs, step, at, tries)
  BY <1>1, CallsStay
<1>3. Calm(fs, fs) /\ SameLocks(fs, fs)
  BY <1>1, CalmItself
<1>4. CASE waiting = {}
  <2>1. entries' = fs /\ UNCHANGED callVars
    BY <1>4 DEF SpawnSettles, BootOver
  <2> QED
    BY <1>2, <1>3, <2>1, RestKeeps DEF Follows
<1>5. CASE waiting # {}
  <2>1. PICK c \in waiting :
          IF how = "ok" THEN RunTurn(c, e, fs)
          ELSE IF how = "failed" /\ step[c] = "respawn" /\ tries[c].respawns + 1 < RespawnRetries
            THEN /\ entries' = fs
                 /\ step' = [step EXCEPT ![c] = "backoff"]
                 /\ tries' = [tries EXCEPT ![c].respawns = @ + 1]
                 /\ UNCHANGED at
          ELSE Leaves(c, e, fs)
    BY <1>5 DEF SpawnSettles, BootOver
  <2>2. c \in SupCalls /\ at[c] = e /\ step[c] \in {"spawn", "respawn"}
    BY DEF SupCalls
  <2>3. step[c] \notin Admitting \cup {"done"}
    BY <2>2 DEF Admitting
  <2>4. fs[e].lock # <<>> /\ Head(fs[e].lock) = c
    BY <1>2, <2>2 DEF CallsOk, LocksKept, Stands
  <2> HIDE DEF fs
  <2>5. CASE how = "ok"
    BY <1>1, <1>2, <2>1, <2>2, <2>3, <2>4, <2>5, RunTurnKeeps DEF fs
  <2>6. CASE entries' = fs /\ step' = [step EXCEPT ![c] = "backoff"] /\ at' = at
             /\ tries' = [tries EXCEPT ![c].respawns = @ + 1]
             /\ tries[c].respawns + 1 < RespawnRetries
    <3>1. /\ tries[c] \in [turns : 0 .. MaxRetries, respawns : 0 .. RespawnRetries]
          /\ MaxRetries \in Nat /\ RespawnRetries \in Nat
      BY <1>2, <2>2, SupervisorAssumption DEF CallsOk
    <3>2. [tries[c] EXCEPT !.respawns = tries[c].respawns + 1]
              \in [turns : 0 .. MaxRetries, respawns : 0 .. RespawnRetries]
      BY <2>6, <3>1
    <3>3. tries' \in [SupCalls -> [turns : 0 .. MaxRetries, respawns : 0 .. RespawnRetries]]
      BY <1>2, <2>6, <3>2 DEF CallsOk
    <3>4. step' \in [SupCalls -> CallSteps] /\ at' \in [SupCalls -> DOMAIN entries' \cup {0}]
      BY <1>2, <2>6 DEF CallsOk, CallSteps
    <3>5. step \in [SupCalls -> CallSteps] /\ step'[c] = "backoff"
          /\ \A d \in SupCalls : d # c => step'[d] = step[d]
      BY <1>2, <2>2, <2>6 DEF CallsOk
    <3>6. ASSUME NEW d \in SupCalls PROVE Stands(d, fs, step'[d], at[d])
      <4>1. CASE d = c
        BY <1>1, <2>2, <2>4, <3>5, <4>1 DEF Stands
      <4>2. CASE d # c
        BY <1>2, <3>5, <4>2 DEF CallsOk, LocksKept
      <4> QED
        BY <4>1, <4>2
    <3>7. LocksKept(entries', step', at')
      BY <2>6, <3>6 DEF LocksKept
    <3>8. CallsOk(entries', step', at', tries')
      BY <3>3, <3>4, <3>7 DEF CallsOk
    <3>9. Away(step, step')
      BY <2>3, <3>5 DEF Away
    <3> QED
      BY <1>3, <2>6, <3>8, <3>9 DEF Follows, fs
  <2>7. CASE Leaves(c, e, fs)
    BY <1>1, <1>2, <2>2, <2>3, <2>7, LeavesKeeps DEF fs
  <2> QED
    BY <2>1, <2>5, <2>6, <2>7
<1> QED
  BY <1>4, <1>5

--------------------------------------------------------------------------------
\* The cap.
LEMMA LiveFinite ==
  ASSUME NEW es \in Seq(EntryStates)
  PROVE  /\ IsFiniteSet(Live(es)) /\ Cardinality(Live(es)) \in Nat
         /\ \A T \in SUBSET Live(es) : /\ IsFiniteSet(T) /\ Cardinality(T) \in Nat
                                     /\ Cardinality(T) <= Cardinality(Live(es))
<1>1. IsFiniteSet(1 .. Len(es)) /\ Live(es) \subseteq 1 .. Len(es)
  BY FS_Interval DEF Live
<1>2. IsFiniteSet(Live(es))
  BY <1>1, FS_Subset
<1>3. \A T \in SUBSET Live(es) : IsFiniteSet(T) /\ Cardinality(T) <= Cardinality(Live(es))
  BY <1>2, FS_Subset
<1> QED
  BY <1>2, <1>3, FS_CardinalityType

\* Retirements make room.
LEMMA RoomStays ==
  ASSUME NEW es \in Seq(EntryStates), NEW fs, NoRevival(es, fs)
  PROVE  (Fits(es) => Fits(fs)) /\ (Roomy(es) => Roomy(fs))
<1>1. Live(fs) \subseteq Live(es) /\ \A e \in Live(fs) : fs[e].key = es[e].key
  BY DEF NoRevival, Live
<1>2. Cardinality(Live(fs)) \in Nat /\ Cardinality(Live(es)) \in Nat
      /\ Cardinality(Live(fs)) <= Cardinality(Live(es))
  BY <1>1, LiveFinite
<1>3. AdhocIn(fs, Live(fs)) \subseteq AdhocIn(es, Live(es))
  BY <1>1 DEF AdhocIn
<1>4. MaxPtys \in Nat
  BY SupervisorAssumption
<1>5. OneAtMost(AdhocIn(es, Live(es))) => OneAtMost(AdhocIn(fs, Live(fs)))
  BY <1>3 DEF OneAtMost
<1>6. Fits(es) => Fits(fs)
  BY <1>2, <1>4, <1>5 DEF Fits
<1>7. Roomy(es) => Roomy(fs)
  BY <1>2, <1>3, <1>4 DEF Roomy
<1> QED
  BY <1>6, <1>7

LEMMA CallTypes ==
  SupervisorTypeOK => CallsOk(entries, step, at, tries) <=> LocksKept(entries, step, at)
BY DEF SupervisorTypeOK, CallsOk, CallSteps, EntryIds

LEMMA SupervisorFacts ==
  ASSUME SupervisorInv
  PROVE  /\ entries \in Seq(EntryStates)
         /\ ptys \in [Keys -> DOMAIN entries \cup {0}]
         /\ unproven \subseteq DOMAIN entries /\ standIns \subseteq DOMAIN entries
         /\ CallsOk(entries, step, at, tries)
         /\ ClaudesKnown(entries, ptys, unproven, standIns)
BY CallTypes DEF SupervisorInv, SupervisorTypeOK, EntryIds

\* The books of a step: what it leaves of the map, the records and the histories.
BooksKept(es) ==
  /\ ptys' \in [Keys -> DOMAIN es \cup {0}]
  /\ unproven' \subseteq DOMAIN es /\ standIns' \subseteq DOMAIN es
  /\ ClaudesKnown(es, ptys', unproven', standIns')
  /\ misreported' \subseteq {"gate"}
  /\ {faults', deaths', shutdowns'} \subseteq Nat

\* A step that changes the claudes as es does, then follows it, and is no admission.
LEMMA StepKeeps ==
  ASSUME SupervisorInv, NEW es, NoRevival(entries, es), Follows(es), BooksKept(es),
         UNCHANGED lockVars
  PROVE  SupervisorInv'
<1>1. es \in Seq(EntryStates) /\ DOMAIN es = DOMAIN entries /\ Calm(es, entries')
  BY DEF NoRevival, Follows
<1>2. entries' \in Seq(EntryStates) /\ DOMAIN entries' = DOMAIN es
  BY <1>1 DEF Calm
<1>3. UNCHANGED <<admissions, shuttingDown, overtaken, abandoned>>
  BY DEF lockVars
<1>4. CallsOk(entries', step', at', tries') /\ Away(step, step')
  BY DEF Follows
<1>5. SupervisorTypeOK'
  BY <1>2, <1>3, <1>4 DEF SupervisorInv, SupervisorTypeOK, CallsOk, CallSteps, EntryIds, BooksKept
<1>6. LocksKept(entries, step, at)'
  BY <1>4 DEF CallsOk
<1>7. ClaudesKnown(entries, ptys, unproven, standIns)'
  BY <1>1, CalmKeepsClaudes DEF BooksKept
<1>8. RoomKept'
  <2>1. NoRevival(entries, entries') /\ entries \in Seq(EntryStates)
    BY <1>1, SupervisorFacts, CalmRevivesNone, RevivalOnward
  <2>2. Fits(entries') /\ (Roomy(entries) => Roomy(entries'))
    BY <2>1, RoomStays DEF SupervisorInv, RoomKept
  <2>3. ASSUME NEW c \in SupCalls, step'[c] = "evict", c \notin overtaken'
        PROVE  HoldsAdmission(c)' /\ Roomy(entries')
    <3>1. step[c] = "evict" /\ c \notin overtaken
      BY <1>3, <1>4, <2>3 DEF Away
    <3>2. HoldsAdmission(c) /\ Roomy(entries)
      BY <3>1 DEF SupervisorInv, RoomKept
    <3> QED
      BY <1>3, <2>2, <3>2 DEF HoldsAdmission
  <2> QED
    BY <2>2, <2>3 DEF RoomKept
<1>9. NoneOutlivesShutdown'
  <2>1. ASSUME NEW c \in overtaken PROVE step'[c] \in {"admit", "queued", "evict", "done"}
    <3>1. c \in SupCalls /\ step[c] \in {"admit", "queued", "evict", "done"}
      BY DEF SupervisorInv, SupervisorTypeOK, SupCalls, NoneOutlivesShutdown
    <3> QED
      BY <1>4, <3>1 DEF Away, Admitting
  <2> QED
    BY <1>3, <2>1 DEF NoneOutlivesShutdown
<1>10. NotLiveMeansGone'
  BY DEF BooksKept, NotLiveMeansGone
<1> QED
  BY <1>5, <1>6, <1>7, <1>8, <1>9, <1>10 DEF SupervisorInv

LEMMA BooksRest ==
  ASSUME SupervisorInv, UNCHANGED <<ptys, recordVars, historyVars>>
  PROVE  BooksKept(entries)
<1>1. misreported \subseteq {"gate"} /\ {faults, deaths, shutdowns} \subseteq Nat
  BY DEF SupervisorInv, SupervisorTypeOK, NotLiveMeansGone
<1> QED
  BY <1>1, SupervisorFacts DEF BooksKept, recordVars, historyVars

\* A step that only moves calls and locks.
LEMMA CalmStepKeeps ==
  ASSUME SupervisorInv, Follows(entries), UNCHANGED <<ptys, recordVars, lockVars, historyVars>>
  PROVE  SupervisorInv'
<1>1. NoRevival(entries, entries)
  BY SupervisorFacts DEF NoRevival
<1> QED
  BY <1>1, BooksRest, StepKeeps

--------------------------------------------------------------------------------
\* Steps of calls past their admission.
LEMMA CallPlaced ==
  ASSUME SupervisorInv, NEW c \in SupCalls
  PROVE  /\ step[c] \in {"spawn", "turn", "backoff", "respawn", "ending", "wait"}
             => at[c] \in DOMAIN entries
         /\ step[c] \in {"spawn", "turn", "backoff", "respawn"}
             => entries[at[c]].lock # <<>> /\ Head(entries[at[c]].lock) = c
         /\ step[c] = "wait" => entries[at[c]].lock # <<>>
<1>1. Stands(c, entries, step[c], at[c])
  BY SupervisorFacts DEF CallsOk, LocksKept
<1>2. \A q : Listed(c, q) => q # <<>>
  BY DEF Listed
<1> QED
  BY <1>1, <1>2 DEF Stands

LEMMA EarlyKeeps ==
  ASSUME SupervisorInv, NEW c \in SupCalls, NEW where \in CallSteps \ {"evict"},
         NEW e \in DOMAIN entries \cup {0}, NEW es \in Seq(EntryStates),
         Calm(entries, es), OthersStand(c, entries, es), Stands(c, es, where, e),
         step[c] \notin Admitting \cup {"done"}, entries' = es, Moves(c, where, e)
  PROVE  Follows(entries)
<1>1. e \in DOMAIN es \cup {0}
  BY DEF Calm
<1>2. CallsOk(es, step', at', tries') /\ Away(step, step')
  BY <1>1, SupervisorFacts, MovesKeeps
<1> QED
  BY <1>2 DEF Follows

LEMMA WaitDeadlineKeeps ==
  ASSUME SupervisorInv, NEW c \in Reqs, WaitDeadline(c)
  PROVE  SupervisorInv'
<1>1. c \in SupCalls /\ at[c] \in DOMAIN entries /\ step[c] \notin Admitting \cup {"done"}
  BY CallPlaced DEF SupCalls, WaitDeadline, Admitting
<1>2. Follows(entries)
  BY <1>1, SupervisorFacts, LeavesKeeps DEF WaitDeadline
<1> QED
  BY <1>2, CalmStepKeeps DEF WaitDeadline

LEMMA TurnEndsKeeps ==
  ASSUME SupervisorInv, NEW c \in SupCalls, TurnEnds(c)
  PROVE  SupervisorInv'
<1>1. at[c] \in DOMAIN entries /\ step[c] \notin Admitting \cup {"done"}
  BY CallPlaced DEF TurnEnds, Admitting
<1>2. Follows(entries)
  BY <1>1, SupervisorFacts, LeavesKeeps DEF TurnEnds
<1> QED
  BY <1>2, CalmStepKeeps DEF TurnEnds

LEMMA TurnLostKeeps ==
  ASSUME SupervisorInv, NEW c \in SupCalls, TurnLost(c)
  PROVE  SupervisorInv'
<1>1. /\ at[c] \in DOMAIN entries /\ step[c] \notin Admitting \cup {"done"}
      /\ entries[at[c]].lock # <<>> /\ Head(entries[at[c]].lock) = c
  BY CallPlaced DEF TurnLost, Admitting
<1>2. Follows(entries)
  BY <1>1, SupervisorFacts, RunTurnKeeps DEF TurnLost
<1> QED
  BY <1>2, CalmStepKeeps DEF TurnLost

LEMMA TurnFailsKeeps ==
  ASSUME SupervisorInv, NEW c \in SupCalls, TurnFails(c)
  PROVE  SupervisorInv'
<1>1. at[c] \in DOMAIN entries /\ step[c] \notin Admitting \cup {"done"}
  BY CallPlaced DEF TurnFails, Admitting
<1>2. PICK es \in {entries, Unlock(entries, at[c], c)} :
        entries' = Retire(es, at[c]) /\ Moves(c, "ending", at[c])
  BY DEF TurnFails
<1>3. es \in Seq(EntryStates) /\ at[c] \in DOMAIN es /\ Calm(entries, es)
      /\ OthersStand(c, entries, es)
  <2>1. CASE es = entries
    BY <1>1, <2>1, SupervisorFacts, CalmItself, SameLocksStand
  <2>2. CASE es = Unlock(entries, at[c], c)
    BY <1>1, <2>2, SupervisorFacts, UnlockCalm DEF Calm
  <2> QED
    BY <1>2, <2>1, <2>2
<1> DEFINE fs == Retire(es, at[c])
<1>4. Calm(es, fs) /\ SameLocks(es, fs)
  BY <1>3, RetireCalm
<1> HIDE DEF fs
<1>a. Calm(entries, fs) /\ OthersStand(c, entries, fs)
  BY <1>3, <1>4, CalmOnward, SameLocksOnward
<1>5. Calm(entries, fs) /\ OthersStand(c, entries, fs) /\ fs \in Seq(EntryStates)
  BY <1>a DEF Calm
<1>6. Stands(c, fs, "ending", at[c]) /\ "ending" \in CallSteps \ {"evict"}
  BY <1>1, <1>5 DEF Stands, Calm, CallSteps
<1>7. Follows(entries)
  BY <1>1, <1>2, <1>5, <1>6, EarlyKeeps DEF fs
<1> QED
  BY <1>7, CalmStepKeeps DEF TurnFails

LEMMA ReturnsKeeps ==
  ASSUME SupervisorInv, NEW c \in SupCalls, Returns(c)
  PROVE  SupervisorInv'
<1>1. at[c] \in DOMAIN entries /\ step[c] \notin Admitting \cup {"done"}
  BY CallPlaced DEF Returns, Admitting
<1>2. Calm(entries, entries') /\ OthersStand(c, entries, entries')
  BY <1>1, SupervisorFacts, UnlockCalm DEF Returns
<1>3. Follows(entries)
  BY <1>1, <1>2, SupervisorFacts, EndsKeeps DEF Returns, Follows
<1> QED
  BY <1>3, CalmStepKeeps DEF Returns

LEMMA SpawnDeadlineKeeps ==
  ASSUME SupervisorInv, NEW c \in Reqs, SpawnDeadline(c)
  PROVE  SupervisorInv'
<1>1. c \in SupCalls /\ at[c] \in DOMAIN entries /\ step[c] \notin Admitting \cup {"done"}
  BY CallPlaced DEF SupCalls, SpawnDeadline, Admitting
<1>2. CASE Leaves(c, at[c], entries)
  <2>1. Follows(entries)
    BY <1>1, <1>2, SupervisorFacts, LeavesKeeps
  <2> QED
    BY <2>1, CalmStepKeeps DEF SpawnDeadline
<1>3. CASE entries' = Retire(Unlock(entries, at[c], c), at[c]) /\ Ends(c)
  <2> DEFINE es == Unlock(entries, at[c], c)
  <2>1. Calm(entries, es) /\ OthersStand(c, entries, es) /\ es \in Seq(EntryStates)
        /\ at[c] \in DOMAIN es
    BY <1>1, SupervisorFacts, UnlockCalm DEF Calm
  <2> HIDE DEF es
  <2>2. Calm(es, Retire(es, at[c])) /\ SameLocks(es, Retire(es, at[c]))
    BY <2>1, RetireCalm
  <2>3. Calm(entries, entries') /\ OthersStand(c, entries, entries')
    BY <1>3, <2>1, <2>2, CalmOnward, SameLocksOnward DEF es
  <2>4. Follows(entries)
    BY <1>1, <1>3, <2>3, SupervisorFacts, EndsKeeps DEF Follows
  <2> QED
    BY <2>4, CalmStepKeeps DEF SpawnDeadline
<1> QED
  BY <1>2, <1>3 DEF SpawnDeadline

LEMMA SendKeeps ==
  ASSUME SupervisorInv, NEW s \in Sends, Send(s)
  PROVE  SupervisorInv'
<1>1. s \in SupCalls /\ step[s] \notin Admitting \cup {"done"}
  BY DEF SupCalls, Send, Admitting
<1>2. Calm(entries, entries) /\ OthersStand(s, entries, entries)
  BY SupervisorFacts, CalmItself, SameLocksStand
<1>3. Stands(s, entries, "look", 0) /\ "look" \in CallSteps \ {"evict"}
  BY DEF Stands, CallSteps
<1>4. Follows(entries)
  BY <1>1, <1>2, <1>3, SupervisorFacts, EarlyKeeps DEF Send
<1> QED
  BY <1>4, CalmStepKeeps DEF Send

LEMMA SendGivesUpKeeps ==
  ASSUME SupervisorInv, NEW s \in Sends, SendGivesUp(s)
  PROVE  SupervisorInv'
<1>1. s \in SupCalls /\ step[s] \notin Admitting \cup {"done"} /\ Ends(s)
  BY DEF SupCalls, SendGivesUp, Admitting
<1>2. Calm(entries, entries') /\ OthersStand(s, entries, entries')
  <2>1. CASE entries' = entries
    BY <2>1, SupervisorFacts, CalmItself, SameLocksStand
  <2>2. CASE step[s] = "wait" /\ entries' = Unlock(entries, at[s], s)
    BY <1>1, <2>2, CallPlaced, SupervisorFacts, UnlockCalm
  <2> QED
    BY <2>1, <2>2 DEF SendGivesUp
<1>3. Follows(entries)
  BY <1>1, <1>2, SupervisorFacts, EndsKeeps DEF Follows
<1> QED
  BY <1>3, CalmStepKeeps DEF SendGivesUp

LEMMA RetirementBegins ==
  ASSUME SupervisorInv, NEW e \in DOMAIN entries, Reap(e) \/ RetireSession(e)
  PROVE  SupervisorInv'
<1>1. /\ entries' = Retire(entries, e)
      /\ UNCHANGED <<ptys, recordVars, lockVars, callVars, historyVars>>
  BY DEF Reap, RetireSession
<1>2. Calm(entries, entries') /\ SameLocks(entries, entries')
  BY <1>1, SupervisorFacts, RetireCalm
<1>3. Follows(entries)
  BY <1>1, <1>2, SupervisorFacts, RestKeeps DEF Follows
<1> QED
  BY <1>1, <1>3, CalmStepKeeps

--------------------------------------------------------------------------------
\* Steps that change a claude or a spawn.
LEMMA ClaudeChange ==
  ASSUME NEW es \in Seq(EntryStates), NEW e \in DOMAIN es, NEW r \in EntryStates,
         NEW p \in [Keys -> DOMAIN es \cup {0}], NEW u, NEW i, ClaudesKnown(es, p, u, i),
         r.key = es[e].key, r.retiring = es[e].retiring,
         r.claude \in {"alive", "closed"} => Writes(es, e),
         r.spawn \in {"prepare", "gate"} => r.claude = "none",
         r.retiring = "done" /\ r.spawn # "none" => e \in i,
         r.claude \in {"alive", "closed"} /\ r.retiring = "done" =>
           e \in u \/ (e \in i /\ r.spawn # "none")
  PROVE  ClaudesKnown([es EXCEPT ![e] = r], p, u, i)
<1> DEFINE fs == [es EXCEPT ![e] = r]
<1>1. /\ fs \in Seq(EntryStates) /\ DOMAIN fs = DOMAIN es /\ fs[e] = r
      /\ \A d \in DOMAIN es : d # e => fs[d] = es[d]
  BY Update
<1> HIDE DEF fs
<1>2. \A d \in DOMAIN es : fs[d].key = es[d].key /\ fs[d].retiring = es[d].retiring
                         /\ (Writes(fs, d) => Writes(es, d))
  BY <1>1 DEF Writes
<1>3. \A k \in Keys : p[k] # 0 => fs[p[k]].key = k
  <2>1. \A k \in Keys : p[k] # 0 => es[p[k]].key = k
    BY DEF ClaudesKnown
  <2> QED
    BY <1>1, <1>2, <2>1
<1>4. ASSUME NEW d \in DOMAIN es
      PROVE  /\ fs[d].retiring # "done" <=> p[fs[d].key] = d
             /\ fs[d].retiring = "done" /\ fs[d].spawn # "none" => d \in i
             /\ fs[d].spawn \in {"prepare", "gate"} => fs[d].claude = "none"
             /\ Writes(fs, d) => \/ fs[d].retiring # "done"
                                 \/ d \in u
                                 \/ d \in i /\ fs[d].spawn # "none"
  <2>1. CASE d = e
    BY <1>1, <2>1 DEF ClaudesKnown, Writes
  <2>2. CASE d # e
    BY <1>1, <2>2 DEF ClaudesKnown, Writes
  <2> QED
    BY <2>1, <2>2
<1>5. \A d, f \in DOMAIN es :
        d # f /\ fs[d].key = fs[f].key => ~(Writes(fs, d) /\ Writes(fs, f))
  BY <1>2 DEF ClaudesKnown
<1> QED
  BY <1>1, <1>3, <1>4, <1>5 DEF ClaudesKnown, fs

LEMMA MoreRecords ==
  ASSUME NEW es, NEW p, NEW u, NEW i, NEW v, ClaudesKnown(es, p, u, i), u \subseteq v
  PROVE  ClaudesKnown(es, p, v, i)
BY DEF ClaudesKnown

\* es are the entries with x for the claude of e.
ClaudeIs(es, e, x) ==
  /\ es \in Seq(EntryStates)
  /\ DOMAIN es = DOMAIN entries
  /\ \A d \in DOMAIN entries :
       /\ es[d].key = entries[d].key /\ es[d].retiring = entries[d].retiring
       /\ es[d].spawn = entries[d].spawn /\ es[d].lock = entries[d].lock
       /\ es[d].claude = IF d = e THEN x ELSE entries[d].claude

Claudes == {"none", "alive", "closed", "gone"}

LEMMA SetClaude ==
  ASSUME SupervisorInv, NEW e \in DOMAIN entries, NEW x \in Claudes
  PROVE  ClaudeIs([entries EXCEPT ![e].claude = x], e, x)
<1> DEFINE r == [entries[e] EXCEPT !.claude = x]
<1>1. entries \in Seq(EntryStates) /\ entries[e] \in EntryStates
  BY SupervisorFacts, EntryTyped
<1>2. /\ r \in EntryStates /\ r.key = entries[e].key /\ r.claude = x
      /\ r.spawn = entries[e].spawn /\ r.lock = entries[e].lock /\ r.retiring = entries[e].retiring
  BY <1>1 DEF EntryStates, Claudes
<1> HIDE DEF r
<1> DEFINE fs == [entries EXCEPT ![e] = r]
<1>3. /\ fs \in Seq(EntryStates) /\ DOMAIN fs = DOMAIN entries /\ fs[e] = r
      /\ \A d \in DOMAIN entries : d # e => fs[d] = entries[d]
  BY <1>1, <1>2, Update
<1>4. fs = [entries EXCEPT ![e].claude = x]
  BY DEF r
<1> HIDE DEF fs
<1>5. ClaudeIs(fs, e, x)
  BY <1>2, <1>3 DEF ClaudeIs
<1> QED
  BY <1>4, <1>5

LEMMA ClaudeItself ==
  ASSUME SupervisorInv, NEW e \in DOMAIN entries
  PROVE  ClaudeIs(entries, e, entries[e].claude)
BY SupervisorFacts DEF ClaudeIs

\* A spawn settles on an entry whose claude is x by then.
LEMMA SettlingKeeps ==
  ASSUME SupervisorInv, NEW e \in DOMAIN entries, NEW x, NEW es, NEW how, ClaudeIs(es, e, x),
         SpawnSettles(e, es, how),
         x \in {"alive", "closed"} =>
           Writes(entries, e) /\ (entries[e].retiring # "done" \/ e \in unproven'),
         unproven' \in {unproven, unproven \cup {e}},
         UNCHANGED <<ptys, standIns, lockVars, misreported, deaths, shutdowns>>,
         faults' \in Nat
  PROVE  SupervisorInv'
<1> DEFINE fs == BootOver(es, e)
<1>1. es \in Seq(EntryStates) /\ e \in DOMAIN es /\ DOMAIN es = DOMAIN entries
  BY DEF ClaudeIs
<1>2. SameLocks(entries, es)
  BY DEF ClaudeIs, SameLocks
<1>3. CallsOk(es, step, at, tries)
  BY <1>2, SupervisorFacts, CallsStay
<1>4. Follows(fs)
  BY <1>1, <1>3, SpawnSettlesKeeps
<1>5. /\ fs \in Seq(EntryStates) /\ DOMAIN fs = DOMAIN entries
      /\ \A d \in DOMAIN entries :
           /\ fs[d].key = entries[d].key /\ fs[d].retiring = entries[d].retiring
           /\ fs[d].claude = IF d = e THEN x ELSE entries[d].claude
           /\ fs[d].spawn = IF d = e THEN "none" ELSE entries[d].spawn
  BY <1>1, BootOverIs DEF ClaudeIs, NoRevival
<1> HIDE DEF fs
<1>6. NoRevival(entries, fs)
  BY <1>5 DEF NoRevival
<1>7. ClaudesKnown(entries, ptys, unproven, standIns) /\ unproven \subseteq unproven'
      /\ unproven' \subseteq DOMAIN entries /\ ptys \in [Keys -> DOMAIN entries \cup {0}]
      /\ standIns \subseteq DOMAIN entries
  BY SupervisorFacts
<1>8. ClaudesKnown(entries, ptys, unproven', standIns)
  BY <1>7, MoreRecords
<1>9. \A d \in DOMAIN entries : Writes(fs, d) => Writes(entries, d)
  BY <1>5 DEF Writes
<1>10. ClaudesKnown(fs, ptys, unproven', standIns)
  <2>1. \A k \in Keys : ptys[k] # 0 => fs[ptys[k]].key = k
    BY <1>5, <1>7 DEF ClaudesKnown
  <2>2. ASSUME NEW d \in DOMAIN fs
        PROVE  /\ fs[d].retiring # "done" <=> ptys[fs[d].key] = d
               /\ fs[d].retiring = "done" /\ fs[d].spawn # "none" => d \in standIns
               /\ fs[d].spawn \in {"prepare", "gate"} => fs[d].claude = "none"
               /\ Writes(fs, d) => \/ fs[d].retiring # "done"
                                   \/ d \in unproven'
                                   \/ d \in standIns /\ fs[d].spawn # "none"
    <3>1. CASE d = e
      BY <1>5, <1>8, <3>1 DEF ClaudesKnown, Writes
    <3>2. CASE d # e
      BY <1>5, <1>8, <3>2 DEF ClaudesKnown, Writes
    <3> QED
      BY <3>1, <3>2
  <2>3. \A d, f \in DOMAIN fs :
          d # f /\ fs[d].key = fs[f].key => ~(Writes(fs, d) /\ Writes(fs, f))
    BY <1>5, <1>8, <1>9 DEF ClaudesKnown
  <2> QED
    BY <2>1, <2>2, <2>3 DEF ClaudesKnown
<1>11. misreported \subseteq {"gate"} /\ {deaths, shutdowns} \subseteq Nat
  BY DEF SupervisorInv, SupervisorTypeOK, NotLiveMeansGone
<1>12. BooksKept(fs)
  BY <1>5, <1>7, <1>10, <1>11 DEF BooksKept
<1> QED
  BY <1>4, <1>6, <1>12, StepKeeps DEF fs

LEMMA BootFailsKeeps ==
  ASSUME SupervisorInv, NEW e \in DOMAIN entries, BootFails(e)
  PROVE  SupervisorInv'
<1>1. ClaudeIs([entries EXCEPT ![e].claude = "none"], e, "none")
  BY SetClaude DEF Claudes
<1>2. faults' \in Nat
  BY DEF SupervisorInv, SupervisorTypeOK, BootFails, historyVars
<1> QED
  BY <1>1, <1>2, SettlingKeeps DEF BootFails, recordVars, historyVars

LEMMA UnconfirmedRecord ==
  ASSUME SupervisorInv, NEW e, Unconfirmed(e)
  PROVE  unproven' = unproven \cup {e} /\ faults' \in Nat
BY DEF SupervisorInv, SupervisorTypeOK, Unconfirmed

LEMMA DisposeLateKeeps ==
  ASSUME SupervisorInv, NEW e \in DOMAIN entries, DisposeLate(e)
  PROVE  SupervisorInv'
<1>1. CASE SpawnSettles(e, [entries EXCEPT ![e].claude = "gone"], "removed")
           /\ UNCHANGED <<unproven, faults>>
  <2>1. ClaudeIs([entries EXCEPT ![e].claude = "gone"], e, "gone")
    BY SetClaude DEF Claudes
  <2>2. faults' \in Nat
    BY <1>1 DEF SupervisorInv, SupervisorTypeOK
  <2> QED
    BY <1>1, <2>1, <2>2, SettlingKeeps DEF DisposeLate
<1>2. CASE SpawnSettles(e, entries, "removed") /\ Unconfirmed(e)
  <2>1. ClaudeIs(entries, e, entries[e].claude)
    BY ClaudeItself
  <2> QED
    BY <1>2, <2>1, UnconfirmedRecord, SettlingKeeps DEF DisposeLate, Writes
<1> QED
  BY <1>1, <1>2 DEF DisposeLate

\* A step that gives e the entry r, and moves no call.
LEMMA RestingChange ==
  ASSUME SupervisorInv, NEW e \in DOMAIN entries, NEW r \in EntryStates,
         r.key = entries[e].key, r.lock = entries[e].lock,
         r.retiring = "no" => entries[e].retiring = "no",
         entries' = [entries EXCEPT ![e] = r], BooksKept(entries'),
         UNCHANGED <<callVars, lockVars>>
  PROVE  SupervisorInv'
<1> DEFINE es == [entries EXCEPT ![e] = r]
<1>1. NoRevival(entries, es) /\ SameLocks(entries, es) /\ es \in Seq(EntryStates)
  BY SupervisorFacts, ChangeOne DEF NoRevival
<1> HIDE DEF es
<1>2. CallsOk(es, step', at', tries') /\ Away(step, step') /\ Calm(es, es)
  BY <1>1, SupervisorFacts, RestKeeps, CalmItself
<1>3. Follows(es) /\ BooksKept(es)
  BY <1>2 DEF Follows, es
<1> QED
  BY <1>1, <1>3, StepKeeps

LEMMA LandKeeps ==
  ASSUME SupervisorInv, NEW e \in DOMAIN entries, Land(e)
  PROVE  SupervisorInv'
<1>0. /\ UNCHANGED <<ptys, recordVars, lockVars, historyVars>>
      /\ misreported \subseteq {"gate"} /\ {faults, deaths, shutdowns} \subseteq Nat
  BY DEF Land, SupervisorInv, SupervisorTypeOK, NotLiveMeansGone
<1>1. CASE IsCurrent(e)
  <2>1. ClaudeIs(entries, e, entries[e].claude) /\ SpawnSettles(e, entries, "ok")
    BY <1>1, ClaudeItself DEF Land
  <2>2. entries[e].retiring # "done" /\ faults' \in Nat
    BY <1>0, <1>1 DEF IsCurrent, historyVars
  <2> QED
    BY <1>0, <2>1, <2>2, SettlingKeeps DEF recordVars, historyVars, Writes
<1>2. CASE ~IsCurrent(e)
  <2> DEFINE r == [entries[e] EXCEPT !.spawn = "late"]
  <2>1. entries[e] \in EntryStates /\ entries \in Seq(EntryStates)
    BY SupervisorFacts, EntryTyped
  <2>2. /\ r \in EntryStates /\ r.key = entries[e].key /\ r.claude = entries[e].claude
        /\ r.spawn = "late" /\ r.lock = entries[e].lock /\ r.retiring = entries[e].retiring
    BY <2>1 DEF EntryStates
  <2>3. entries' = [entries EXCEPT ![e] = r] /\ UNCHANGED callVars /\ entries[e].spawn = "boot"
    BY <1>2 DEF Land
  <2> HIDE DEF r
  <2>4. ClaudesKnown(entries, ptys, unproven, standIns) /\ ptys \in [Keys -> DOMAIN entries \cup {0}]
        /\ unproven \subseteq DOMAIN entries /\ standIns \subseteq DOMAIN entries
    BY SupervisorFacts
  <2>5. ClaudesKnown(entries', ptys, unproven, standIns)
    <3>1. r.retiring = "done" => e \in standIns
      BY <2>2, <2>3, <2>4 DEF ClaudesKnown
    <3> QED
      BY <2>1, <2>2, <2>3, <2>4, <3>1, ClaudeChange DEF Writes
  <2>6. BooksKept(entries')
    BY <1>0, <2>1, <2>2, <2>3, <2>4, <2>5, Update DEF BooksKept, recordVars, historyVars
  <2> QED
    BY <1>0, <2>2, <2>3, <2>6, RestingChange
<1> QED
  BY <1>1, <1>2

\* The spawn of a current entry, or of one without a claude, goes on to x.
LEMMA SpawnChange ==
  ASSUME SupervisorInv, NEW e \in DOMAIN entries, NEW x \in {"prepare", "dispose", "gate"},
         NEW y \in Claudes, NEW es,
         es = [entries EXCEPT ![e] = [entries[e] EXCEPT !.spawn = x, !.claude = y]],
         IsCurrent(e), y \in {"none", entries[e].claude}, x # "dispose" => y = "none",
         UNCHANGED <<ptys, recordVars, historyVars>>
  PROVE  NoRevival(entries, es) /\ SameLocks(entries, es) /\ BooksKept(es)
         /\ es \in Seq(EntryStates)
<1> DEFINE r == [entries[e] EXCEPT !.spawn = x, !.claude = y]
<1>1. entries[e] \in EntryStates /\ entries \in Seq(EntryStates)
  BY SupervisorFacts, EntryTyped
<1>2. /\ r \in EntryStates /\ r.key = entries[e].key /\ r.claude = y
      /\ r.spawn = x /\ r.lock = entries[e].lock /\ r.retiring = entries[e].retiring
  BY <1>1 DEF EntryStates, Claudes
<1> DEFINE fs == [entries EXCEPT ![e] = r]
<1>3. es = fs
  OBVIOUS
<1> HIDE DEF r
<1>4. NoRevival(entries, fs) /\ SameLocks(entries, fs)
  BY <1>1, <1>2, ChangeOne
<1>5. ClaudesKnown(entries, ptys, unproven, standIns) /\ ptys \in [Keys -> DOMAIN entries \cup {0}]
      /\ unproven \subseteq DOMAIN entries /\ standIns \subseteq DOMAIN entries
  BY SupervisorFacts
<1>6. r.retiring = "no"
  BY <1>2 DEF IsCurrent
<1>7. ClaudesKnown(fs, ptys, unproven, standIns)
  <2>1. r.claude \in {"alive", "closed"} => Writes(entries, e)
    BY <1>2 DEF Writes
  <2>2. r.spawn \in {"prepare", "gate"} => r.claude = "none"
    BY <1>2
  <2> QED
    BY <1>1, <1>2, <1>5, <1>6, <2>1, <2>2, ClaudeChange
<1>8. misreported \subseteq {"gate"} /\ {faults, deaths, shutdowns} \subseteq Nat
  BY DEF SupervisorInv, SupervisorTypeOK, NotLiveMeansGone
<1> HIDE DEF fs
<1>9. fs \in Seq(EntryStates) /\ BooksKept(fs)
  BY <1>4, <1>5, <1>7, <1>8 DEF BooksKept, recordVars, historyVars, NoRevival
<1> QED
  BY <1>3, <1>4, <1>9

\* A change of the spawn with the claude kept.
LEMMA SpawnOnly ==
  ASSUME SupervisorInv, NEW e \in DOMAIN entries, NEW x
  PROVE  [entries EXCEPT ![e].spawn = x]
           = [entries EXCEPT ![e] = [entries[e] EXCEPT !.spawn = x, !.claude = entries[e].claude]]
<1>1. entries[e] \in EntryStates
  BY SupervisorFacts, EntryTyped
<1>2. [entries[e] EXCEPT !.spawn = x] = [entries[e] EXCEPT !.spawn = x, !.claude = entries[e].claude]
  BY <1>1 DEF EntryStates
<1> QED
  BY <1>2

LEMMA PreparedKeeps ==
  ASSUME SupervisorInv, NEW e \in DOMAIN entries, Prepared(e)
  PROVE  SupervisorInv'
<1>0. /\ UNCHANGED <<ptys, recordVars, lockVars, historyVars>> /\ faults \in Nat
      /\ entries[e].claude = "none"
  BY SupervisorFacts DEF Prepared, SupervisorInv, SupervisorTypeOK, ClaudesKnown
<1>1. CASE IsCurrent(e)
  <2> DEFINE es == [entries EXCEPT ![e] = [entries[e] EXCEPT !.spawn = "gate", !.claude = "none"]]
  <2>1. entries' = es /\ UNCHANGED callVars
    BY <1>0, <1>1, SpawnOnly DEF Prepared
  <2>2. NoRevival(entries, es) /\ SameLocks(entries, es) /\ BooksKept(es)
        /\ es \in Seq(EntryStates)
    BY <1>0, <1>1, SpawnChange DEF Claudes
  <2> HIDE DEF es
  <2>3. Follows(es)
    BY <2>1, <2>2, SupervisorFacts, RestKeeps, CalmItself DEF Follows
  <2> QED
    BY <1>0, <2>2, <2>3, StepKeeps
<1>2. CASE ~IsCurrent(e)
  <2>1. ClaudeIs(entries, e, "none") /\ SpawnSettles(e, entries, "removed")
    BY <1>0, <1>2, ClaudeItself DEF Prepared
  <2> QED
    BY <1>0, <2>1, SettlingKeeps DEF recordVars, historyVars
<1> QED
  BY <1>1, <1>2

LEMMA DisposeDeadKeeps ==
  ASSUME SupervisorInv, NEW e \in DOMAIN entries, DisposeDead(e)
  PROVE  SupervisorInv'
<1>0. UNCHANGED <<ptys, standIns, lockVars, misreported, deaths, shutdowns>> /\ faults \in Nat
  BY DEF DisposeDead, SupervisorInv, SupervisorTypeOK
<1> DEFINE cleared == [entries EXCEPT ![e].claude = "none"]
<1>1. CASE /\ UNCHANGED <<unproven, faults>> /\ IsCurrent(e)
           /\ entries' = [cleared EXCEPT ![e].spawn = "gate"] /\ UNCHANGED callVars
  <2> DEFINE es == [entries EXCEPT ![e] = [entries[e] EXCEPT !.spawn = "gate", !.claude = "none"]]
  <2>1. entries \in Seq(EntryStates) /\ entries[e] \in EntryStates
    BY SupervisorFacts, EntryTyped
  <2>2. [[entries[e] EXCEPT !.claude = "none"] EXCEPT !.spawn = "gate"]
          = [entries[e] EXCEPT !.spawn = "gate", !.claude = "none"]
    BY <2>1 DEF EntryStates
  <2>3. entries' = es
    BY <1>1, <2>1, <2>2
  <2>4. NoRevival(entries, es) /\ SameLocks(entries, es) /\ BooksKept(es)
        /\ es \in Seq(EntryStates)
    BY <1>0, <1>1, SpawnChange DEF Claudes, recordVars, historyVars
  <2> HIDE DEF es
  <2>5. Follows(es)
    BY <1>1, <2>3, <2>4, SupervisorFacts, RestKeeps, CalmItself DEF Follows
  <2> QED
    BY <1>0, <2>4, <2>5, StepKeeps
<1>2. CASE UNCHANGED <<unproven, faults>> /\ SpawnSettles(e, cleared, "removed")
  <2>1. ClaudeIs(cleared, e, "none")
    BY SetClaude DEF Claudes
  <2> QED
    BY <1>0, <1>2, <2>1, SettlingKeeps
<1>3. CASE Unconfirmed(e) /\ SpawnSettles(e, entries, "quarantined")
  <2>1. ClaudeIs(entries, e, entries[e].claude)
    BY ClaudeItself
  <2> QED
    BY <1>0, <1>3, <2>1, UnconfirmedRecord, SettlingKeeps DEF Writes
<1> QED
  BY <1>1, <1>2, <1>3 DEF DisposeDead

LEMMA ClaudeDiesKeeps ==
  ASSUME SupervisorInv, NEW e \in DOMAIN entries, ClaudeDies(e)
  PROVE  SupervisorInv'
<1> DEFINE r == [entries[e] EXCEPT !.claude = "closed"]
<1>1. entries[e] \in EntryStates /\ entries \in Seq(EntryStates)
  BY SupervisorFacts, EntryTyped
<1>2. /\ r \in EntryStates /\ r.key = entries[e].key /\ r.claude = "closed"
      /\ r.spawn = entries[e].spawn /\ r.lock = entries[e].lock /\ r.retiring = entries[e].retiring
  BY <1>1 DEF EntryStates
<1>3. /\ entries' = [entries EXCEPT ![e] = r] /\ entries[e].claude = "alive"
      /\ entries[e].spawn = "none"
      /\ UNCHANGED <<ptys, recordVars, lockVars, callVars, misreported, faults, shutdowns>>
  BY DEF ClaudeDies
<1> HIDE DEF r
<1>4. ClaudesKnown(entries, ptys, unproven, standIns) /\ ptys \in [Keys -> DOMAIN entries \cup {0}]
      /\ unproven \subseteq DOMAIN entries /\ standIns \subseteq DOMAIN entries
  BY SupervisorFacts
<1>5. r.retiring = "done" => e \in unproven
  BY <1>2, <1>3, <1>4 DEF ClaudesKnown, Writes
<1>6. ClaudesKnown(entries', ptys, unproven, standIns)
  BY <1>1, <1>2, <1>3, <1>4, <1>5, ClaudeChange DEF Writes
<1>7. misreported \subseteq {"gate"} /\ {faults, deaths', shutdowns} \subseteq Nat
  BY DEF SupervisorInv, SupervisorTypeOK, NotLiveMeansGone, ClaudeDies
<1>8. BooksKept(entries')
  BY <1>1, <1>2, <1>3, <1>4, <1>6, <1>7, Update DEF BooksKept, recordVars
<1> QED
  BY <1>2, <1>3, <1>8, RestingChange

LEMMA SpawnStarts ==
  ASSUME SupervisorInv, NEW c \in SupCalls, NEW x \in {"prepare", "dispose"},
         NEW where \in {"spawn", "respawn"},
         step[c] \notin Admitting \cup {"done"}, at[c] \in DOMAIN entries,
         entries[at[c]].lock # <<>>, Head(entries[at[c]].lock) = c,
         IsCurrent(at[c]), x = "prepare" /\ entries[at[c]].spawn = "none"
                             => entries[at[c]].claude = "none",
         entries' = IF entries[at[c]].spawn = "none"
                      THEN [entries EXCEPT ![at[c]].spawn = x] ELSE entries,
         Moves(c, where, at[c]), UNCHANGED <<ptys, recordVars, lockVars, historyVars>>
  PROVE  SupervisorInv'
<1> DEFINE e == at[c]
<1>1. where \in CallSteps \ {"evict"} /\ CallsOk(entries, step, at, tries)
  BY SupervisorFacts DEF CallSteps
<1>2. ASSUME NEW es \in Seq(EntryStates), SameLocks(entries, es), entries' = es
      PROVE  Follows(es)
  <2>1. OthersStand(c, entries, es) /\ e \in DOMAIN es \cup {0} /\ Stands(c, es, where, e)
    BY <1>2, SameLocksStand DEF SameLocks, Stands
  <2>2. CallsOk(es, step', at', tries') /\ Away(step, step')
    BY <1>1, <2>1, MovesKeeps
  <2> QED
    BY <1>2, <2>2, CalmItself DEF Follows
<1>3. CASE entries[e].spawn = "none"
  <2> DEFINE y == entries[e].claude
             es == [entries EXCEPT ![e] = [entries[e] EXCEPT !.spawn = x, !.claude = y]]
  <2>1. entries' = es
    BY <1>3, SpawnOnly
  <2>2. entries[e] \in EntryStates
    BY SupervisorFacts, EntryTyped
  <2>3. y \in Claudes /\ (x # "dispose" => y = "none")
    BY <1>3, <2>2 DEF EntryStates, Claudes
  <2>4. NoRevival(entries, es) /\ SameLocks(entries, es) /\ BooksKept(es)
        /\ es \in Seq(EntryStates)
    BY <2>3, SpawnChange
  <2> HIDE DEF es
  <2> QED
    BY <1>2, <2>1, <2>4, StepKeeps
<1>4. CASE entries[e].spawn # "none"
  <2>1. entries' = entries /\ SameLocks(entries, entries)
    BY <1>4, SupervisorFacts, CalmItself
  <2> QED
    BY <1>2, <2>1, SupervisorFacts, CalmStepKeeps
<1> QED
  BY <1>3, <1>4

LEMMA BeginKeeps ==
  ASSUME SupervisorInv, NEW c \in Reqs, Begin(c)
  PROVE  SupervisorInv'
<1> DEFINE e == at[c]
<1>1. /\ c \in SupCalls /\ e \in DOMAIN entries /\ step[c] \notin Admitting \cup {"done"}
      /\ entries[e].lock # <<>> /\ Head(entries[e].lock) = c
      /\ UNCHANGED <<ptys, recordVars, lockVars, historyVars>>
  BY CallPlaced DEF SupCalls, Begin, Admitting, AtHead
<1>2. CASE Leaves(c, e, entries)
  <2>1. Follows(entries)
    BY <1>1, <1>2, SupervisorFacts, LeavesKeeps
  <2> QED
    BY <1>1, <2>1, CalmStepKeeps
<1>3. CASE RunTurn(c, e, entries)
  <2>1. Follows(entries)
    BY <1>1, <1>3, SupervisorFacts, RunTurnKeeps
  <2> QED
    BY <1>1, <2>1, CalmStepKeeps
<1>4. CASE /\ IsCurrent(e)
           /\ entries[e].claude = "none" \/ entries[e].spawn # "none"
           /\ entries' = IF entries[e].spawn = "none"
                           THEN [entries EXCEPT ![e].spawn = "prepare"] ELSE entries
           /\ Moves(c, "spawn", e)
  <2>1. entries[e].spawn = "none" => entries[e].claude = "none"
    BY <1>4
  <2> QED
    BY <1>1, <1>4, <2>1, SpawnStarts
<1> QED
  BY <1>2, <1>3, <1>4 DEF Begin

LEMMA RespawnKeeps ==
  ASSUME SupervisorInv, NEW c \in Reqs, Respawn(c)
  PROVE  SupervisorInv'
<1> DEFINE e == at[c]
<1>1. /\ c \in SupCalls /\ e \in DOMAIN entries /\ step[c] \notin Admitting \cup {"done"}
      /\ entries[e].lock # <<>> /\ Head(entries[e].lock) = c
      /\ UNCHANGED <<ptys, recordVars, lockVars, historyVars>>
  BY CallPlaced DEF SupCalls, Respawn, Admitting
<1>2. CASE Leaves(c, e, entries)
  <2>1. Follows(entries)
    BY <1>1, <1>2, SupervisorFacts, LeavesKeeps
  <2> QED
    BY <1>1, <2>1, CalmStepKeeps
<1>3. CASE /\ IsCurrent(e)
           /\ entries' = IF entries[e].spawn = "none"
                           THEN [entries EXCEPT ![e].spawn = "dispose"] ELSE entries
           /\ Moves(c, "respawn", e)
  BY <1>1, <1>3, SpawnStarts
<1> QED
  BY <1>2, <1>3 DEF Respawn

--------------------------------------------------------------------------------
\* The quarantine answers: those in S are gone.
ConfirmIs(S, gs) ==
  /\ gs \in Seq(EntryStates)
  /\ DOMAIN gs = DOMAIN entries
  /\ \A d \in DOMAIN entries :
       /\ gs[d].key = entries[d].key /\ gs[d].retiring = entries[d].retiring
       /\ gs[d].spawn = entries[d].spawn /\ gs[d].lock = entries[d].lock
       /\ gs[d].claude = IF d \in S /\ entries[d].claude # "none"
                           THEN "gone" ELSE entries[d].claude

LEMMA ConfirmGoneIs ==
  ASSUME SupervisorInv, NEW S
  PROVE  ConfirmIs(S, ConfirmGone(S))
<1> DEFINE gs == ConfirmGone(S)
           n == Len(entries)
<1>1. n \in Nat /\ DOMAIN entries = 1 .. n /\ \A d \in 1 .. n : entries[d] \in EntryStates
  BY SupervisorFacts, EntryTyped
<1>2. \A r \in EntryStates : LET g == [r EXCEPT !.claude = "gone"]
        IN  /\ g \in EntryStates /\ g.key = r.key /\ g.retiring = r.retiring
            /\ g.spawn = r.spawn /\ g.lock = r.lock /\ g.claude = "gone"
  BY DEF EntryStates
<1>3. gs = [d \in 1 .. n |-> IF d \in S /\ entries[d].claude # "none"
                              THEN [entries[d] EXCEPT !.claude = "gone"] ELSE entries[d]]
  BY <1>1 DEF ConfirmGone, EntryIds
<1> HIDE DEF gs, n
<1>4. gs \in [1 .. n -> EntryStates]
  BY <1>1, <1>2, <1>3
<1>5. gs \in Seq(EntryStates) /\ DOMAIN gs = 1 .. n
  BY <1>1, <1>4, SeqDef
<1>6. ASSUME NEW d \in 1 .. n
      PROVE  /\ gs[d].key = entries[d].key /\ gs[d].retiring = entries[d].retiring
             /\ gs[d].spawn = entries[d].spawn /\ gs[d].lock = entries[d].lock
             /\ gs[d].claude = IF d \in S /\ entries[d].claude # "none"
                                 THEN "gone" ELSE entries[d].claude
  BY <1>1, <1>2, <1>3
<1> QED
  BY <1>1, <1>5, <1>6 DEF ConfirmIs, gs

LEMMA ConfirmedKnown ==
  ASSUME SupervisorInv, NEW S, NEW gs, ConfirmIs(S, gs), NEW i \in SUBSET standIns,
         \A e \in standIns : entries[e].spawn # "none" => e \in i
  PROVE  /\ ClaudesKnown(gs, ptys, unproven \ S, i)
         /\ NoRevival(entries, gs) /\ SameLocks(entries, gs)
         /\ ptys \in [Keys -> DOMAIN gs \cup {0}]
         /\ unproven \ S \subseteq DOMAIN gs /\ i \subseteq DOMAIN gs
<1>1. ClaudesKnown(entries, ptys, unproven, standIns) /\ ptys \in [Keys -> DOMAIN entries \cup {0}]
      /\ unproven \subseteq DOMAIN entries /\ standIns \subseteq DOMAIN entries
  BY SupervisorFacts
<1>2. \A d \in DOMAIN entries : Writes(gs, d) => Writes(entries, d) /\ d \notin S
  BY DEF ConfirmIs, Writes
<1>3. \A k \in Keys : ptys[k] # 0 => gs[ptys[k]].key = k
  BY <1>1 DEF ConfirmIs, ClaudesKnown
<1>4. ASSUME NEW d \in DOMAIN gs
      PROVE  /\ gs[d].retiring # "done" <=> ptys[gs[d].key] = d
             /\ gs[d].retiring = "done" /\ gs[d].spawn # "none" => d \in i
             /\ gs[d].spawn \in {"prepare", "gate"} => gs[d].claude = "none"
             /\ Writes(gs, d) => \/ gs[d].retiring # "done"
                                 \/ d \in unproven \ S
                                 \/ d \in i /\ gs[d].spawn # "none"
  BY <1>1, <1>2 DEF ConfirmIs, ClaudesKnown
<1>5. \A d, f \in DOMAIN gs :
        d # f /\ gs[d].key = gs[f].key => ~(Writes(gs, d) /\ Writes(gs, f))
  BY <1>1, <1>2 DEF ConfirmIs, ClaudesKnown
<1>6. ClaudesKnown(gs, ptys, unproven \ S, i)
  BY <1>3, <1>4, <1>5 DEF ClaudesKnown
<1> QED
  BY <1>1, <1>6 DEF ConfirmIs, NoRevival, SameLocks

\* What is left when the processes recorded for k were asked.
LEMMA Asked ==
  ASSUME SupervisorInv, NEW k, NEW S, Asks(k, S)
  PROVE  LET gs == ConfirmGone(S)
         IN  /\ ConfirmIs(S, gs) /\ gs \in Seq(EntryStates) /\ DOMAIN gs = DOMAIN entries
             /\ NoRevival(entries, gs) /\ SameLocks(entries, gs)
             /\ CallsOk(gs, step, at, tries)
             /\ unproven' = unproven \ S /\ standIns' \subseteq standIns
             /\ ClaudesKnown(gs, ptys, unproven', standIns')
             /\ UNCHANGED <<ptys, faults, deaths, shutdowns>> /\ misreported' \subseteq {"gate"}
                  => BooksKept(gs)
<1> DEFINE gs == ConfirmGone(S)
<1>1. ConfirmIs(S, gs)
  BY ConfirmGoneIs
<1> HIDE DEF gs
<1>2. /\ unproven' = unproven \ S /\ standIns' \in SUBSET standIns
      /\ \A e \in standIns : entries[e].spawn # "none" => e \in standIns'
  BY DEF Asks, SettledOf, OfKey
<1>3. /\ ClaudesKnown(gs, ptys, unproven', standIns')
      /\ NoRevival(entries, gs) /\ SameLocks(entries, gs)
      /\ ptys \in [Keys -> DOMAIN gs \cup {0}]
      /\ unproven' \subseteq DOMAIN gs /\ standIns' \subseteq DOMAIN gs
  BY <1>1, <1>2, ConfirmedKnown
<1>4. CallsOk(gs, step, at, tries)
  BY <1>3, SupervisorFacts, CallsStay
<1>5. {faults, deaths, shutdowns} \subseteq Nat
  BY DEF SupervisorInv, SupervisorTypeOK
<1>6. UNCHANGED <<ptys, faults, deaths, shutdowns>> /\ misreported' \subseteq {"gate"}
        => BooksKept(gs)
  BY <1>3, <1>5 DEF BooksKept
<1> QED
  BY <1>1, <1>2, <1>3, <1>4, <1>6 DEF gs, ConfirmIs

LEMMA SettledKnown ==
  ASSUME NEW es \in Seq(EntryStates), NEW e \in DOMAIN es,
         NEW p \in [Keys -> DOMAIN es \cup {0}], NEW u, NEW i, ClaudesKnown(es, p, u, i),
         Writes(es, e) /\ es[e].retiring = "done" => e \in u
  PROVE  ClaudesKnown(BootOver(es, e), p, u, i)
<1> DEFINE r == [es[e] EXCEPT !.spawn = "none"]
<1>0. es[e] \in EntryStates
  BY EntryTyped
<1>1. /\ r \in EntryStates /\ r.key = es[e].key /\ r.claude = es[e].claude
      /\ r.spawn = "none" /\ r.retiring = es[e].retiring
  BY <1>0 DEF EntryStates
<1>2. BootOver(es, e) = [es EXCEPT ![e] = r]
  BY DEF BootOver
<1> HIDE DEF r
<1>3. /\ r.claude \in {"alive", "closed"} => Writes(es, e)
      /\ r.claude \in {"alive", "closed"} /\ r.retiring = "done" => e \in u
  BY <1>1 DEF Writes
<1>4. ClaudesKnown([es EXCEPT ![e] = r], p, u, i)
  BY <1>1, <1>3, ClaudeChange
<1> QED
  BY <1>2, <1>4

\* A claude that starts where its session has no other.
LEMMA ForkedKnown ==
  ASSUME NEW es \in Seq(EntryStates), NEW e \in DOMAIN es,
         NEW p \in [Keys -> DOMAIN es \cup {0}], NEW u, NEW i, ClaudesKnown(es, p, u, i),
         es[e].retiring = "no",
         \A f \in DOMAIN es : f # e /\ es[f].key = es[e].key => ~Writes(es, f),
         NEW r \in EntryStates, r.key = es[e].key, r.retiring = "no", r.spawn = "boot"
  PROVE  ClaudesKnown([es EXCEPT ![e] = r], p, u, i)
<1> DEFINE fs == [es EXCEPT ![e] = r]
<1>1. /\ fs \in Seq(EntryStates) /\ DOMAIN fs = DOMAIN es /\ fs[e] = r
      /\ \A d \in DOMAIN es : d # e => fs[d] = es[d]
  BY Update
<1> HIDE DEF fs
<1>2. \A d \in DOMAIN es : fs[d].key = es[d].key /\ fs[d].retiring = es[d].retiring
  BY <1>1
<1>3. \A k \in Keys : p[k] # 0 => fs[p[k]].key = k
  <2>1. \A k \in Keys : p[k] # 0 => es[p[k]].key = k
    BY DEF ClaudesKnown
  <2> QED
    BY <1>2, <2>1
<1>4. ASSUME NEW d \in DOMAIN es
      PROVE  /\ fs[d].retiring # "done" <=> p[fs[d].key] = d
             /\ fs[d].retiring = "done" /\ fs[d].spawn # "none" => d \in i
             /\ fs[d].spawn \in {"prepare", "gate"} => fs[d].claude = "none"
             /\ Writes(fs, d) => \/ fs[d].retiring # "done"
                                 \/ d \in u
                                 \/ d \in i /\ fs[d].spawn # "none"
  <2>1. CASE d = e
    BY <1>1, <2>1 DEF ClaudesKnown
  <2>2. CASE d # e
    BY <1>1, <2>2 DEF ClaudesKnown, Writes
  <2> QED
    BY <2>1, <2>2
<1>5. ASSUME NEW d \in DOMAIN es, NEW f \in DOMAIN es, d # f, fs[d].key = fs[f].key
      PROVE  ~(Writes(fs, d) /\ Writes(fs, f))
  <2>1. CASE d = e \/ f = e
    BY <1>1, <1>2, <1>5, <2>1 DEF Writes
  <2>2. CASE d # e /\ f # e
    BY <1>1, <1>5, <2>2 DEF ClaudesKnown, Writes
  <2> QED
    BY <2>1, <2>2
<1> QED
  BY <1>1, <1>3, <1>4, <1>5 DEF ClaudesKnown, fs

\* The last gate before the fork.
LEMMA ForkKeeps ==
  ASSUME SupervisorInv, NEW e \in DOMAIN entries, Fork(e)
  PROVE  SupervisorInv'
<1> DEFINE k == entries[e].key
<1>0. PICK S \in SUBSET unproven :
        /\ Asks(k, S)
        /\ IF Passes(k, S) /\ Spawnable(k)
             THEN /\ entries' = [ConfirmGone(S) EXCEPT ![e].spawn = "boot", ![e].claude = "alive"]
                  /\ UNCHANGED callVars
             ELSE SpawnSettles(e, ConfirmGone(S), "quarantined")
  BY DEF Fork
<1>1. UNCHANGED <<ptys, lockVars, historyVars>> /\ entries[e].spawn = "gate"
      /\ misreported' \subseteq {"gate"}
  BY DEF Fork, historyVars, SupervisorInv, SupervisorTypeOK, NotLiveMeansGone
<1> DEFINE gs == ConfirmGone(S)
<1>2. /\ ConfirmIs(S, gs) /\ gs \in Seq(EntryStates) /\ DOMAIN gs = DOMAIN entries
      /\ NoRevival(entries, gs) /\ SameLocks(entries, gs)
      /\ CallsOk(gs, step, at, tries)
      /\ unproven' = unproven \ S /\ standIns' \subseteq standIns
      /\ BooksKept(gs)
  BY <1>0, <1>1, Asked DEF historyVars
<1>3. entries[e].claude = "none" /\ gs[e].claude = "none"
  BY <1>1, <1>2, SupervisorFacts DEF ClaudesKnown, ConfirmIs
<1>4. /\ ptys' \in [Keys -> DOMAIN gs \cup {0}]
      /\ unproven' \subseteq DOMAIN gs /\ standIns' \subseteq DOMAIN gs
      /\ ClaudesKnown(gs, ptys', unproven', standIns')
      /\ misreported' \subseteq {"gate"}
      /\ {faults', deaths', shutdowns'} \subseteq Nat
  BY <1>2 DEF BooksKept
<1>5. CASE SpawnSettles(e, gs, "quarantined")
  <2>1. Follows(BootOver(gs, e))
    BY <1>2, <1>5, SpawnSettlesKeeps
  <2>2. NoRevival(gs, BootOver(gs, e))
    BY <1>2, BootOverIs
  <2>3. ClaudesKnown(BootOver(gs, e), ptys', unproven', standIns')
    BY <1>2, <1>3, <1>4, SettledKnown DEF Writes
  <2>4. NoRevival(entries, BootOver(gs, e)) /\ DOMAIN BootOver(gs, e) = DOMAIN gs
    BY <1>2, <2>2, RevivalOnward DEF NoRevival
  <2>5. BooksKept(BootOver(gs, e))
    BY <1>4, <2>3, <2>4 DEF BooksKept
  <2> QED
    BY <1>1, <2>1, <2>4, <2>5, StepKeeps
<1>6. CASE /\ Passes(k, S) /\ Spawnable(k)
           /\ entries' = [gs EXCEPT ![e].spawn = "boot", ![e].claude = "alive"]
           /\ UNCHANGED callVars
  <2> HIDE DEF gs
  <2>1. entries[e].retiring = "no"
    <3>0. entries[e] \in EntryStates
      BY SupervisorFacts, EntryTyped
    <3>1. entries[e].retiring # "running"
      BY <1>6 DEF Spawnable, Fenced, EntryIds
    <3>2. ASSUME entries[e].retiring = "done" PROVE FALSE
      <4>1. e \in standIns
        BY <1>1, <3>2, SupervisorFacts DEF ClaudesKnown
      <4>2. e \in SettledOf(k)
        BY <1>6, <4>1 DEF Passes, OfKey
      <4> QED
        BY <1>1, <4>2 DEF SettledOf
    <3> QED
      BY <3>0, <3>1, <3>2 DEF EntryStates
  <2>2. gs[e].retiring = "no" /\ gs[e].key = k /\ ptys[k] = e
    BY <1>2, <2>1, SupervisorFacts DEF ConfirmIs, ClaudesKnown
  <2>3. ASSUME NEW f \in DOMAIN gs, f # e, gs[f].key = gs[e].key PROVE ~Writes(gs, f)
    <3>1. entries[f].key = k /\ gs[f].spawn = entries[f].spawn /\ ptys' = ptys
      BY <1>1, <1>2, <2>2, <2>3 DEF ConfirmIs
    <3>2. gs[f].retiring = "done"
      BY <1>4, <2>2, <2>3, <3>1 DEF ClaudesKnown
    <3>3. f \notin unproven'
      BY <1>2, <1>6, <3>1 DEF Passes, OfKey
    <3>4. ~(f \in standIns' /\ gs[f].spawn # "none")
      BY <1>2, <1>6, <3>1 DEF Passes, OfKey, SettledOf
    <3> QED
      BY <1>4, <3>2, <3>3, <3>4 DEF ClaudesKnown
  <2> DEFINE r == [gs[e] EXCEPT !.spawn = "boot", !.claude = "alive"]
             fs == [gs EXCEPT ![e] = r]
  <2>4. gs[e] \in EntryStates /\ e \in DOMAIN gs
    BY <1>2, EntryTyped
  <2>5. entries' = fs
    <3>1. [[gs EXCEPT ![e].spawn = "boot"] EXCEPT ![e].claude = "alive"]
            = [gs EXCEPT ![e] = [[gs[e] EXCEPT !.spawn = "boot"] EXCEPT !.claude = "alive"]]
      BY <1>2, <2>4
    <3> QED
      BY <1>6, <3>1
  <2>6. /\ r \in EntryStates /\ r.key = gs[e].key /\ r.retiring = "no" /\ r.spawn = "boot"
        /\ r.lock = gs[e].lock
    BY <2>2, <2>4 DEF EntryStates
  <2> HIDE DEF r
  <2>7. ClaudesKnown(fs, ptys', unproven', standIns')
    BY <1>2, <1>4, <2>2, <2>3, <2>4, <2>6, ForkedKnown
  <2>8. NoRevival(gs, fs) /\ SameLocks(gs, fs)
    BY <1>2, <2>2, <2>4, <2>6, ChangeOne
  <2> HIDE DEF fs
  <2>9. NoRevival(entries, fs) /\ DOMAIN fs = DOMAIN gs /\ fs \in Seq(EntryStates)
    BY <1>2, <2>8, RevivalOnward DEF NoRevival
  <2>10. BooksKept(fs)
    BY <1>4, <2>7, <2>9 DEF BooksKept
  <2>11. Follows(fs)
    BY <1>2, <1>6, <2>5, <2>8, <2>9, RestKeeps, CalmItself DEF Follows
  <2> QED
    BY <1>1, <2>9, <2>10, <2>11, StepKeeps
<1> QED
  BY <1>0, <1>5, <1>6

LEMMA ConfirmAllKeeps ==
  ASSUME SupervisorInv, ConfirmAll
  PROVE  SupervisorInv'
<1>1. PICK S \in {{}, unproven} : unproven' = unproven \ S /\ entries' = ConfirmGone(S)
  BY DEF ConfirmAll
<1>2. /\ UNCHANGED <<ptys, lockVars, callVars, historyVars>>
      /\ standIns' \in SUBSET standIns
      /\ \A e \in standIns : entries[e].spawn # "none" => e \in standIns'
  BY DEF ConfirmAll
<1> DEFINE gs == ConfirmGone(S)
<1>3. ConfirmIs(S, gs)
  BY ConfirmGoneIs
<1> HIDE DEF gs
<1>4. /\ ClaudesKnown(gs, ptys, unproven', standIns')
      /\ NoRevival(entries, gs) /\ SameLocks(entries, gs)
      /\ ptys \in [Keys -> DOMAIN gs \cup {0}]
      /\ unproven' \subseteq DOMAIN gs /\ standIns' \subseteq DOMAIN gs
  BY <1>1, <1>2, <1>3, ConfirmedKnown
<1>5. gs \in Seq(EntryStates)
  BY <1>3 DEF ConfirmIs
<1>6. Follows(gs)
  BY <1>1, <1>2, <1>4, <1>5, SupervisorFacts, RestKeeps, CalmItself DEF Follows, gs
<1>7. misreported \subseteq {"gate"} /\ {faults, deaths, shutdowns} \subseteq Nat
  BY DEF SupervisorInv, SupervisorTypeOK, NotLiveMeansGone
<1>8. BooksKept(gs)
  BY <1>2, <1>4, <1>7 DEF BooksKept, historyVars
<1> QED
  BY <1>2, <1>4, <1>6, <1>8, StepKeeps

--------------------------------------------------------------------------------
\* Sends.
LEMMA AppendCalm ==
  ASSUME NEW es \in Seq(EntryStates), NEW e \in DOMAIN es, NEW c \in SupCalls
  PROVE  LET fs == [es EXCEPT ![e].lock = Append(@, c)]
         IN  Calm(es, fs) /\ OthersStand(c, es, fs) /\ Listed(c, fs[e].lock)
<1> DEFINE q == Append(es[e].lock, c)
           r == [es[e] EXCEPT !.lock = q]
           fs == [es EXCEPT ![e] = r]
<1>0. es[e] \in EntryStates
  BY EntryTyped
<1>2. es[e].lock \in Seq(SupCalls)
  BY <1>0 DEF EntryStates
<1>3. /\ q \in Seq(SupCalls) /\ Listed(c, q)
      /\ \A y : Listed(y, es[e].lock) => Listed(y, q)
      /\ \A y : es[e].lock # <<>> /\ Head(es[e].lock) = y => q # <<>> /\ Head(q) = y
  <2>1. /\ q \in Seq(SupCalls) /\ Len(q) = Len(es[e].lock) + 1 /\ q[Len(es[e].lock) + 1] = c
        /\ \A i \in 1 .. Len(es[e].lock) : q[i] = es[e].lock[i]
    BY <1>2, AppendProperties
  <2> QED
    BY <1>2, <2>1 DEF Listed
<1> HIDE DEF q
<1>4. /\ r \in EntryStates /\ r.key = es[e].key /\ r.claude = es[e].claude
      /\ r.spawn = es[e].spawn /\ r.lock = q /\ r.retiring = es[e].retiring
  BY <1>0, <1>3 DEF EntryStates
<1> HIDE DEF r
<1>5. /\ fs \in Seq(EntryStates) /\ DOMAIN fs = DOMAIN es /\ fs[e] = r
      /\ \A d \in DOMAIN es : d # e => fs[d] = es[d]
  BY <1>4, Update
<1> HIDE DEF fs
<1>6. Calm(es, fs)
  BY <1>4, <1>5 DEF Calm
<1>7. ASSUME NEW d \in SupCalls, NEW st, NEW x, Stands(d, es, st, x)
      PROVE  Stands(d, fs, st, x)
  <2>1. CASE x = e
    BY <1>3, <1>4, <1>5, <1>7, <2>1 DEF Stands
  <2>2. CASE x # e
    BY <1>5, <1>7, <2>2 DEF Stands
  <2> QED
    BY <2>1, <2>2
<1>8. OthersStand(c, es, fs) /\ Listed(c, fs[e].lock)
  BY <1>3, <1>4, <1>5, <1>7 DEF OthersStand
<1> QED
  BY <1>6, <1>8 DEF fs, r, q

\* Moves of a call that is not in admission, on entries that only calm changes touch.
LEMMA MovesOn ==
  ASSUME NEW es \in Seq(EntryStates), NEW c \in SupCalls, CallsOk(es, step, at, tries),
         NEW where \in CallSteps \ {"evict"}, NEW e \in DOMAIN es \cup {0},
         Calm(es, entries'), OthersStand(c, es, entries'), Stands(c, entries', where, e),
         step[c] \notin Admitting \cup {"done"}, Moves(c, where, e)
  PROVE  Follows(es)
<1>1. e \in DOMAIN entries' \cup {0}
  BY DEF Calm
<1>2. CallsOk(entries', step', at', tries') /\ Away(step, step')
  BY <1>1, MovesKeeps
<1> QED
  BY <1>2 DEF Follows

LEMMA EndsOn ==
  ASSUME NEW es \in Seq(EntryStates), NEW c \in SupCalls, CallsOk(es, step, at, tries),
         Calm(es, entries'), OthersStand(c, es, entries'),
         step[c] \notin Admitting \cup {"done"}, Ends(c)
  PROVE  Follows(es)
BY EndsKeeps DEF Follows

LEMMA DecideKeeps ==
  ASSUME NEW es \in Seq(EntryStates), NEW s \in SupCalls, CallsOk(es, step, at, tries),
         NEW e \in DOMAIN es \cup {0}, step[s] \notin Admitting \cup {"done"}, Decide(s, e, es)
  PROVE  Follows(es) /\ misreported' \in {misreported, misreported \cup {step[s]}}
<1>0. misreported' \in {misreported, misreported \cup {step[s]}}
  BY DEF Decide
<1>1. Calm(es, es) /\ OthersStand(s, es, es)
  BY CalmItself, SameLocksStand
<1>2. {"look", "wait"} \subseteq CallSteps \ {"evict"}
  BY DEF CallSteps
<1>3. CASE entries' = es /\ Ends(s)
  BY <1>1, <1>3, <1>0, EndsOn
<1>4. CASE entries' = es /\ Moves(s, "look", 0)
  <2>1. Stands(s, es, "look", 0)
    BY DEF Stands
  <2> QED
    BY <1>0, <1>1, <1>2, <1>4, <2>1, MovesOn
<1>5. CASE e # 0 /\ entries' = [es EXCEPT ![e].lock = Append(@, s)] /\ Moves(s, "wait", e)
  <2>1. Calm(es, entries') /\ OthersStand(s, es, entries') /\ Listed(s, entries'[e].lock)
    BY <1>5, AppendCalm
  <2>2. Stands(s, entries', "wait", e)
    BY <1>5, <2>1 DEF Stands, Calm
  <2> QED
    BY <1>0, <1>2, <1>5, <2>1, <2>2, MovesOn
<1> QED
  BY <1>3, <1>4, <1>5 DEF Decide

LEMMA KeysOfCalls ==
  ASSUME SupervisorInv, NEW c \in SupCalls
  PROVE  KeyOf[c] \in Keys /\ EntryOf(c) \in DOMAIN entries \cup {0}
BY SupervisorFacts, SupervisorAssumption DEF SupCalls, EntryOf

\* A send that finds no record and no live claude in the entry it read: there is none.
LEMMA LookKeeps ==
  ASSUME SupervisorInv, NEW s \in Sends, Look(s)
  PROVE  SupervisorInv'
<1> DEFINE k == KeyOf[s]
           e == EntryOf(s)
<1>0. /\ s \in SupCalls /\ step[s] = "look" /\ step[s] \notin Admitting \cup {"done"}
      /\ UNCHANGED <<ptys, recordVars, lockVars, faults, deaths, shutdowns>>
  BY DEF SupCalls, Look, Admitting
<1>1. k \in Keys /\ e \in DOMAIN entries \cup {0}
  BY <1>0, KeysOfCalls
<1>2. CASE Quarantined(k)
  <2>1. Moves(s, "gate", e) /\ UNCHANGED <<entries, misreported>>
    BY <1>2 DEF Look
  <2>2. Calm(entries, entries') /\ OthersStand(s, entries, entries')
        /\ Stands(s, entries', "gate", e) /\ "gate" \in CallSteps \ {"evict"}
    BY <2>1, SupervisorFacts, CalmItself, SameLocksStand DEF Stands, CallSteps
  <2>3. Follows(entries)
    BY <1>0, <1>1, <2>1, <2>2, SupervisorFacts, MovesOn
  <2> QED
    BY <1>0, <2>1, <2>3, CalmStepKeeps DEF historyVars
<1>3. CASE ~Quarantined(k)
  <2>1. Decide(s, e, entries)
    BY <1>3 DEF Look
  <2>2. Follows(entries)
    BY <1>0, <1>1, <2>1, SupervisorFacts, DecideKeeps
  <2>3. misreported' = misreported
    <3>1. ASSUME NEW f \in DOMAIN entries, entries[f].key = k, entries[f].claude = "alive"
          PROVE  e = f /\ e # 0
      <4>1. f \notin unproven \cup standIns
        BY <1>3, <3>1 DEF Quarantined, OfKey
      <4>2. entries[f].retiring # "done"
        BY <3>1, <4>1, SupervisorFacts DEF ClaudesKnown, Writes
      <4>3. f # 0
        BY SupervisorFacts, EntryTyped
      <4> QED
        BY <3>1, <4>2, <4>3, SupervisorFacts DEF ClaudesKnown, EntryOf
    <3> DEFINE notLive == \/ e = 0 \/ k \in Ephemeral
                          \/ /\ entries[e].retiring = "no" /\ entries[e].spawn = "none"
                             /\ entries[e].lock = <<>> /\ entries[e].claude # "alive"
    <3>2. notLive => ~LiveClaude(k, entries)
      BY <3>1 DEF LiveClaude
    <3>3. misreported' = IF notLive /\ LiveClaude(k, entries)
                           THEN misreported \cup {step[s]} ELSE misreported
      BY <2>1 DEF Decide
    <3> QED
      BY <3>2, <3>3
  <2> QED
    BY <1>0, <2>2, <2>3, CalmStepKeeps DEF historyVars
<1> QED
  BY <1>2, <1>3

LEMMA GateAnswersKeeps ==
  ASSUME SupervisorInv, NEW s \in Sends, GateAnswers(s)
  PROVE  SupervisorInv'
<1>0. /\ s \in SupCalls /\ step[s] = "gate" /\ step[s] \notin Admitting \cup {"done"}
      /\ UNCHANGED <<ptys, lockVars, faults, deaths, shutdowns>>
  BY DEF SupCalls, GateAnswers, Admitting
<1>1. PICK S \in SUBSET unproven :
        /\ Asks(KeyOf[s], S)
        /\ IF Passes(KeyOf[s], S)
             THEN Decide(s, at[s], ConfirmGone(S))
             ELSE entries' = ConfirmGone(S) /\ Ends(s) /\ UNCHANGED misreported
  BY DEF GateAnswers
<1> DEFINE gs == ConfirmGone(S)
<1>2. misreported \subseteq {"gate"} /\ at[s] \in DOMAIN entries \cup {0}
  BY <1>0, SupervisorFacts DEF SupervisorInv, SupervisorTypeOK, NotLiveMeansGone, CallsOk
<1>3. /\ gs \in Seq(EntryStates) /\ DOMAIN gs = DOMAIN entries
      /\ NoRevival(entries, gs) /\ CallsOk(gs, step, at, tries)
      /\ UNCHANGED <<ptys, faults, deaths, shutdowns>> /\ misreported' \subseteq {"gate"}
           => BooksKept(gs)
  BY <1>1, Asked
<1> HIDE DEF gs
<1>4. CASE Decide(s, at[s], gs)
  <2>1. Follows(gs) /\ misreported' \in {misreported, misreported \cup {step[s]}}
    BY <1>0, <1>2, <1>3, <1>4, DecideKeeps
  <2> QED
    BY <1>0, <1>2, <1>3, <2>1, StepKeeps
<1>5. CASE entries' = gs /\ Ends(s) /\ UNCHANGED misreported
  <2>1. Follows(gs)
    BY <1>0, <1>3, <1>5, CalmItself, SameLocksStand, EndsOn
  <2> QED
    BY <1>0, <1>2, <1>3, <1>5, <2>1, StepKeeps
<1> QED
  BY <1>1, <1>4, <1>5 DEF gs

LEMMA SendBeginsKeeps ==
  ASSUME SupervisorInv, NEW s \in Sends, SendBegins(s)
  PROVE  SupervisorInv'
<1>0. /\ s \in SupCalls /\ step[s] = "wait" /\ step[s] \notin Admitting \cup {"done"}
      /\ UNCHANGED <<ptys, lockVars, historyVars>> /\ AtHead(s)
  BY DEF SupCalls, SendBegins, Admitting
<1> DEFINE e == at[s]
<1>1. PICK S \in SUBSET unproven :
        /\ Asks(KeyOf[s], S)
        /\ \/ entries' = Unlock(ConfirmGone(S), e, s) /\ Ends(s)
           \/ entries' = ConfirmGone(S) /\ Moves(s, "turn", e)
           \/ entries' = Unlock(ConfirmGone(S), e, s) /\ Moves(s, "look", 0)
  BY DEF SendBegins
<1> DEFINE gs == ConfirmGone(S)
<1>2. misreported' \subseteq {"gate"} /\ e \in DOMAIN entries /\ entries[e].lock # <<>>
      /\ Head(entries[e].lock) = s
  BY <1>0, CallPlaced DEF SupervisorInv, SupervisorTypeOK, NotLiveMeansGone, historyVars, AtHead
<1>3. /\ gs \in Seq(EntryStates) /\ DOMAIN gs = DOMAIN entries /\ ConfirmIs(S, gs)
      /\ NoRevival(entries, gs) /\ CallsOk(gs, step, at, tries) /\ BooksKept(gs)
  BY <1>0, <1>1, <1>2, Asked DEF historyVars
<1> HIDE DEF gs
<1>4. Calm(gs, Unlock(gs, e, s)) /\ OthersStand(s, gs, Unlock(gs, e, s))
  BY <1>2, <1>3, UnlockCalm
<1>5. {"look", "turn"} \subseteq CallSteps \ {"evict"}
  BY DEF CallSteps
<1>6. CASE entries' = Unlock(gs, e, s) /\ Ends(s)
  BY <1>0, <1>3, <1>4, <1>6, EndsOn, StepKeeps
<1>7. CASE entries' = gs /\ Moves(s, "turn", e)
  <2>1. Stands(s, gs, "turn", e)
    BY <1>2, <1>3 DEF Stands, ConfirmIs
  <2>2. Follows(gs)
    BY <1>0, <1>2, <1>3, <1>5, <1>7, <2>1, CalmItself, SameLocksStand, MovesOn
  <2> QED
    BY <1>0, <1>3, <2>2, StepKeeps
<1>8. CASE entries' = Unlock(gs, e, s) /\ Moves(s, "look", 0)
  <2>1. Stands(s, entries', "look", 0)
    BY DEF Stands
  <2>2. Follows(gs)
    BY <1>0, <1>3, <1>4, <1>5, <1>8, <2>1, MovesOn
  <2> QED
    BY <1>0, <1>3, <2>2, StepKeeps
<1> QED
  BY <1>1, <1>6, <1>7, <1>8 DEF gs

--------------------------------------------------------------------------------
\* Retirements, kills and shutdowns.
LEMMA RetirementEndsKeeps ==
  ASSUME SupervisorInv, NEW e \in DOMAIN entries, RetirementEnds(e)
  PROVE  SupervisorInv'
<1> DEFINE k == entries[e].key
           joined == entries[e].spawn # "none"
<1>0. /\ entries[e] \in EntryStates /\ entries \in Seq(EntryStates) /\ k \in Keys
      /\ entries[e].retiring = "running" /\ UNCHANGED <<lockVars, callVars>>
      /\ e # 0 /\ faults \in Nat
  BY SupervisorFacts, EntryTyped DEF EntryStates, RetirementEnds, SupervisorInv, SupervisorTypeOK
<1>1. PICK x \in {entries[e].claude, "gone"} :
        /\ entries' = [entries EXCEPT ![e] = [entries[e] EXCEPT !.retiring = "done", !.claude = x]]
        /\ unproven' \in {unproven, unproven \cup {e}} /\ faults' \in Nat
        /\ standIns' = IF joined THEN standIns \cup {e} ELSE standIns
        /\ x = "gone" \/ x = "none" \/ (joined \/ e \in unproven')
        /\ x = "gone" => entries[e].claude # "none"
  <2> DEFINE done(x) == [entries EXCEPT ![e] = [entries[e] EXCEPT !.retiring = "done", !.claude = x]]
  <2>1. [entries EXCEPT ![e].retiring = "done"] = done(entries[e].claude)
    <3>1. [entries[e] EXCEPT !.retiring = "done"]
            = [entries[e] EXCEPT !.retiring = "done", !.claude = entries[e].claude]
      BY <1>0 DEF EntryStates
    <3> QED
      BY <3>1
  <2>2. CASE joined
    BY <1>0, <2>1, <2>2 DEF RetirementEnds, recordVars
  <2>3. CASE /\ entries' = [[entries EXCEPT ![e].retiring = "done"]
                   EXCEPT ![e].claude = IF @ = "none" THEN @ ELSE "gone"]
             /\ UNCHANGED <<recordVars, faults>> /\ ~joined
    <3> DEFINE x == IF entries[e].claude = "none" THEN "none" ELSE "gone"
    <3>1. [[entries[e] EXCEPT !.retiring = "done"] EXCEPT !.claude = x]
            = [entries[e] EXCEPT !.retiring = "done", !.claude = x]
      BY <1>0 DEF EntryStates
    <3>2. entries' = done(x)
      <4>1. [entries[e] EXCEPT !.retiring = "done"].claude = entries[e].claude
        BY <1>0 DEF EntryStates
      <4> QED
        BY <1>0, <2>3, <3>1, <4>1
    <3> QED
      BY <1>0, <2>3, <3>2 DEF recordVars
  <2>4. CASE /\ ~joined /\ Unconfirmed(e) /\ UNCHANGED standIns
             /\ entries' = [entries EXCEPT ![e].retiring = "done"]
    BY <1>0, <2>1, <2>4, UnconfirmedRecord
  <2> QED
    BY <2>2, <2>3, <2>4 DEF RetirementEnds
<1> DEFINE r == [entries[e] EXCEPT !.retiring = "done", !.claude = x]
<1>2. /\ r \in EntryStates /\ r.key = k /\ r.claude = x /\ r.spawn = entries[e].spawn
      /\ r.lock = entries[e].lock /\ r.retiring = "done"
  BY <1>0 DEF EntryStates
<1> DEFINE fs == [entries EXCEPT ![e] = r]
<1>3. entries' = fs
  BY <1>1
<1> HIDE DEF r
<1>4. /\ fs \in Seq(EntryStates) /\ DOMAIN fs = DOMAIN entries /\ fs[e] = r
      /\ \A d \in DOMAIN entries : d # e => fs[d] = entries[d]
  BY <1>0, <1>2, Update
<1> HIDE DEF fs
<1>5. /\ ClaudesKnown(entries, ptys, unproven, standIns)
      /\ ptys \in [Keys -> DOMAIN entries \cup {0}]
      /\ unproven \subseteq DOMAIN entries /\ standIns \subseteq DOMAIN entries
      /\ \A d \in DOMAIN entries : entries[d].key \in Keys
  <2>1. \A d \in DOMAIN entries : entries[d] \in EntryStates
    BY <1>0, EntryTyped
  <2> QED
    BY <2>1, SupervisorFacts DEF EntryStates
<1>6. ptys[k] = e
  BY <1>0, <1>5 DEF ClaudesKnown
<1>7. ptys' = [ptys EXCEPT ![k] = 0]
  BY <1>0, <1>5, <1>6 DEF RetirementEnds, Untracked
<1>8. /\ ptys' \in [Keys -> DOMAIN fs \cup {0}] /\ ptys'[k] = 0
      /\ \A j \in Keys : j # k => ptys'[j] = ptys[j]
  BY <1>0, <1>4, <1>5, <1>7
<1>9. \A d \in DOMAIN entries : fs[d].key = entries[d].key /\ (Writes(fs, d) => Writes(entries, d))
  BY <1>1, <1>2, <1>4 DEF Writes
<1>10. unproven \subseteq unproven' /\ standIns \subseteq standIns'
       /\ unproven' \subseteq DOMAIN fs /\ standIns' \subseteq DOMAIN fs
  BY <1>1, <1>4, <1>5
<1>11. \A j \in Keys : ptys'[j] # 0 => fs[ptys'[j]].key = j
  <2>1. \A j \in Keys : ptys[j] # 0 => entries[ptys[j]].key = j
    BY <1>5 DEF ClaudesKnown
  <2> QED
    BY <1>5, <1>8, <1>9, <2>1
<1>12. ASSUME NEW d \in DOMAIN fs
       PROVE  /\ fs[d].retiring # "done" <=> ptys'[fs[d].key] = d
              /\ fs[d].retiring = "done" /\ fs[d].spawn # "none" => d \in standIns'
              /\ fs[d].spawn \in {"prepare", "gate"} => fs[d].claude = "none"
              /\ Writes(fs, d) => \/ fs[d].retiring # "done"
                                  \/ d \in unproven'
                                  \/ d \in standIns' /\ fs[d].spawn # "none"
  <2>1. CASE d = e
    <3>1. fs[e].spawn # "none" => e \in standIns'
      BY <1>1, <1>2, <1>4
    <3>2. fs[e].spawn \in {"prepare", "gate"} => fs[e].claude = "none"
      BY <1>1, <1>2, <1>4, <1>5 DEF ClaudesKnown
    <3>3. Writes(fs, e) => e \in unproven' \/ (e \in standIns' /\ fs[e].spawn # "none")
      BY <1>1, <1>2, <1>4 DEF Writes
    <3> QED
      BY <1>0, <1>2, <1>4, <1>8, <2>1, <3>1, <3>2, <3>3
  <2>2. CASE d # e
    <3>1. d \in DOMAIN entries /\ fs[d] = entries[d] /\ d # 0
      BY <1>0, <1>4, <2>2, EntryTyped
    <3>2. entries[d].retiring # "done" <=> ptys'[entries[d].key] = d
      BY <1>5, <1>6, <1>8, <2>2, <3>1 DEF ClaudesKnown
    <3> QED
      BY <1>5, <1>10, <3>1, <3>2 DEF ClaudesKnown, Writes
  <2> QED
    BY <2>1, <2>2
<1>13. \A d, f \in DOMAIN fs :
         d # f /\ fs[d].key = fs[f].key => ~(Writes(fs, d) /\ Writes(fs, f))
  BY <1>4, <1>5, <1>9 DEF ClaudesKnown
<1>14. ClaudesKnown(fs, ptys', unproven', standIns')
  BY <1>11, <1>12, <1>13 DEF ClaudesKnown
<1>15. misreported' \subseteq {"gate"} /\ {deaths', shutdowns'} \subseteq Nat
  BY DEF SupervisorInv, SupervisorTypeOK, NotLiveMeansGone, RetirementEnds
<1>16. BooksKept(fs)
  BY <1>1, <1>8, <1>10, <1>14, <1>15 DEF BooksKept
<1> QED
  BY <1>0, <1>2, <1>3, <1>16, RestingChange DEF fs

LEMMA RetireAllCalm ==
  ASSUME SupervisorInv, NEW S
  PROVE  Calm(entries, RetireAll(S)) /\ SameLocks(entries, RetireAll(S))
<1> DEFINE n == Len(entries)
           fs == RetireAll(S)
<1>1. n \in Nat /\ DOMAIN entries = 1 .. n /\ entries \in Seq(EntryStates)
      /\ \A d \in 1 .. n : entries[d] \in EntryStates
  BY SupervisorFacts, EntryTyped
<1>2. fs = [d \in 1 .. n |-> IF d \in S THEN Retire(entries, d)[d] ELSE entries[d]]
  BY <1>1 DEF RetireAll, EntryIds
<1> HIDE DEF fs, n
<1>3. ASSUME NEW d \in 1 .. n
      PROVE  LET f == Retire(entries, d)[d]
             IN  /\ f \in EntryStates /\ f.key = entries[d].key /\ f.lock = entries[d].lock
                 /\ f.claude = entries[d].claude /\ f.spawn = entries[d].spawn
                 /\ f.retiring # entries[d].retiring =>
                      entries[d].retiring = "no" /\ f.retiring = "running"
  <2>1. Calm(entries, Retire(entries, d)) /\ SameLocks(entries, Retire(entries, d))
    BY <1>1, RetireCalm
  <2>2. Retire(entries, d)[d] \in EntryStates
    BY <1>1, <2>1, EntryTyped DEF Calm
  <2> QED
    BY <1>1, <2>1, <2>2 DEF Calm, SameLocks
<1>4. fs \in [1 .. n -> EntryStates]
  BY <1>1, <1>2, <1>3
<1>5. fs \in Seq(EntryStates) /\ DOMAIN fs = 1 .. n
  BY <1>1, <1>4, SeqDef
<1>6. ASSUME NEW d \in 1 .. n
      PROVE  /\ fs[d].key = entries[d].key /\ fs[d].lock = entries[d].lock
             /\ fs[d].claude = entries[d].claude /\ fs[d].spawn = entries[d].spawn
             /\ fs[d].retiring # entries[d].retiring =>
                  entries[d].retiring = "no" /\ fs[d].retiring = "running"
  BY <1>2, <1>3
<1> QED
  BY <1>1, <1>5, <1>6 DEF Calm, SameLocks, fs

LEMMA KillKeeps ==
  ASSUME SupervisorInv, Kill
  PROVE  SupervisorInv'
<1>1. PICK S : entries' = RetireAll(S)
  BY DEF Kill
<1>2. Calm(entries, entries') /\ SameLocks(entries, entries')
  BY <1>1, RetireAllCalm
<1>3. Follows(entries)
  BY <1>2, SupervisorFacts, RestKeeps DEF Follows, Kill
<1> QED
  BY <1>3, CalmStepKeeps DEF Kill

LEMMA StartShutdownKeeps ==
  ASSUME SupervisorInv, StartShutdown
  PROVE  SupervisorInv'
<1>0. /\ entries' = RetireAll(Tracked) /\ shuttingDown' = TRUE
      /\ overtaken' = overtaken \cup {c \in Reqs : step[c] \in Admitting}
      /\ UNCHANGED <<ptys, recordVars, admissions, abandoned, callVars, misreported, faults, deaths>>
      /\ shutdowns' = shutdowns - 1 /\ shutdowns > 0
  BY DEF StartShutdown, Admitting
<1>1. Calm(entries, entries') /\ SameLocks(entries, entries')
  BY <1>0, RetireAllCalm
<1>2. CallsOk(entries', step', at', tries')
  BY <1>0, <1>1, SupervisorFacts, RestKeeps
<1>3. shutdowns' \in Nat
  BY <1>0 DEF SupervisorInv, SupervisorTypeOK
<1>4. SupervisorTypeOK'
  BY <1>0, <1>1, <1>2, <1>3, SupervisorFacts DEF SupervisorInv, SupervisorTypeOK, CallsOk, CallSteps, Calm, EntryIds,
     recordVars
<1>5. ClaudesKnown(entries, ptys, unproven, standIns)'
  BY <1>0, <1>1, SupervisorFacts, CalmKeepsClaudes DEF recordVars
<1>6. RoomKept'
  <2>1. Fits(entries')
    BY <1>1, SupervisorFacts, CalmRevivesNone, RoomStays DEF SupervisorInv, RoomKept
  <2>2. ASSUME NEW c \in SupCalls, step[c] = "evict", c \notin overtaken' PROVE FALSE
    <3>1. HoldsAdmission(c) /\ admissions \in Seq(Reqs)
      BY <1>0, <2>2 DEF SupervisorInv, SupervisorTypeOK, RoomKept
    <3>2. c \in Reqs
      BY <3>1 DEF HoldsAdmission
    <3> QED
      BY <1>0, <2>2, <3>2 DEF Admitting
  <2> QED
    BY <1>0, <2>1, <2>2 DEF RoomKept, callVars
<1>7. NoneOutlivesShutdown'
  BY <1>0 DEF SupervisorInv, NoneOutlivesShutdown, callVars, Admitting
<1>8. NotLiveMeansGone'
  BY <1>0 DEF SupervisorInv, NotLiveMeansGone
<1> QED
  BY <1>2, <1>4, <1>5, <1>6, <1>7, <1>8 DEF SupervisorInv, CallsOk

\* Steps that change no more than the flag or the answers given at a deadline.
LEMMA QuietKeeps ==
  ASSUME SupervisorInv, shuttingDown' \in BOOLEAN, abandoned' \subseteq Reqs,
         UNCHANGED <<entries, ptys, recordVars, admissions, overtaken, callVars, historyVars>>
  PROVE  SupervisorInv'
<1>1. SupervisorTypeOK'
  BY DEF SupervisorInv, SupervisorTypeOK, recordVars, callVars, historyVars, EntryIds
<1>2. RoomKept'
  BY DEF SupervisorInv, RoomKept, HoldsAdmission, callVars
<1> QED
  BY <1>1, <1>2 DEF SupervisorInv, recordVars, callVars, historyVars, NoneOutlivesShutdown,
     NotLiveMeansGone

--------------------------------------------------------------------------------
\* Admission.
LEMMA OneHolds ==
  ASSUME SupervisorInv, NEW c, NEW d, HoldsAdmission(c), HoldsAdmission(d),
         c \in overtaken <=> d \in overtaken
  PROVE  c = d
<1>0. admissions \in Seq(Reqs)
  BY DEF SupervisorInv, SupervisorTypeOK
<1>1. PICK i \in 1 .. Len(admissions) : /\ admissions[i] = c
        /\ \A k \in 1 .. i - 1 : (admissions[k] \in overtaken) # (c \in overtaken)
  BY <1>0 DEF HoldsAdmission
<1>2. PICK j \in 1 .. Len(admissions) : /\ admissions[j] = d
        /\ \A k \in 1 .. j - 1 : (admissions[k] \in overtaken) # (d \in overtaken)
  BY <1>0 DEF HoldsAdmission
<1>3. ~(i < j) /\ ~(j < i)
  BY <1>1, <1>2
<1> QED
  BY <1>1, <1>2, <1>3

LEMMA JoinKeepsHolder ==
  ASSUME SupervisorInv, NEW c \in Reqs, NEW d, admissions' = Append(admissions, c),
         UNCHANGED overtaken
  PROVE  admissions' \in Seq(Reqs) /\ (HoldsAdmission(d) => HoldsAdmission(d)')
<1>0. admissions \in Seq(Reqs)
  BY DEF SupervisorInv, SupervisorTypeOK
<1>1. /\ admissions' \in Seq(Reqs) /\ Len(admissions') = Len(admissions) + 1
      /\ \A i \in 1 .. Len(admissions) : admissions'[i] = admissions[i]
  BY <1>0, AppendProperties
<1>2. ASSUME HoldsAdmission(d) PROVE HoldsAdmission(d)'
  <2>1. PICK i \in 1 .. Len(admissions) : /\ admissions[i] = d
          /\ \A k \in 1 .. i - 1 : (admissions[k] \in overtaken) # (d \in overtaken)
    BY <1>0, <1>2 DEF HoldsAdmission
  <2>2. i \in DOMAIN admissions' /\ admissions'[i] = d
    BY <1>0, <1>1, <2>1
  <2>3. \A k \in 1 .. i - 1 : (admissions'[k] \in overtaken') # (d \in overtaken')
    BY <1>0, <1>1, <2>1
  <2> QED
    BY <2>2, <2>3 DEF HoldsAdmission
<1> QED
  BY <1>1, <1>2

LEMMA FreeKeepsHolder ==
  ASSUME SupervisorInv, NEW c \in Reqs, FreeAdmission(c), UNCHANGED overtaken
  PROVE  /\ admissions' \in Seq(Reqs)
         /\ \A d : d # c /\ HoldsAdmission(d) => HoldsAdmission(d)'
<1> DEFINE q == admissions
           r == admissions'
<1>0. q \in Seq(Reqs) /\ r = RemoveFirst(q, c)
  BY DEF SupervisorInv, SupervisorTypeOK, FreeAdmission
<1>1. CASE ~Listed(c, q)
  <2>1. r = q
    BY <1>0, <1>1 DEF Listed, RemoveFirst
  <2> QED
    BY <1>0, <2>1 DEF HoldsAdmission
<1>2. CASE Listed(c, q)
  <2>1. r \in Seq(Reqs)
    BY <1>0, <1>2, RemoveFirstPlaces
  <2>2. PICK p \in 1 .. Len(q) : /\ q[p] = c /\ Len(r) = Len(q) - 1
                               /\ \A i \in 1 .. Len(r) : r[i] = IF i < p THEN q[i] ELSE q[i + 1]
    BY <1>0, <1>2, RemoveFirstPlaces
  <2>3. ASSUME NEW d, d # c, HoldsAdmission(d) PROVE HoldsAdmission(d)'
    <3>1. PICK i \in 1 .. Len(q) : /\ q[i] = d
            /\ \A k \in 1 .. i - 1 : (q[k] \in overtaken) # (d \in overtaken)
      BY <1>0, <2>3 DEF HoldsAdmission
    <3> DEFINE j == IF i < p THEN i ELSE i - 1
    <3>2. j \in 1 .. Len(r) /\ r[j] = d
      BY <1>0, <2>1, <2>2, <2>3, <3>1
    <3>3. ASSUME NEW k \in 1 .. j - 1 PROVE (r[k] \in overtaken) # (d \in overtaken)
      <4>1. k \in 1 .. Len(r) /\ (k \in 1 .. i - 1 /\ (~(k < p) => k + 1 \in 1 .. i - 1))
        BY <1>0, <2>1, <2>2, <3>1, <3>2
      <4> QED
        BY <2>2, <3>1, <4>1
    <3> HIDE DEF j
    <3>4. j \in DOMAIN admissions' /\ admissions'[j] = d
      BY <2>1, <3>2
    <3>5. \A k \in 1 .. j - 1 : (admissions'[k] \in overtaken') # (d \in overtaken')
      BY <3>3
    <3> QED
      BY <3>4, <3>5 DEF HoldsAdmission
  <2> QED
    BY <2>1, <2>3
<1> QED
  BY <1>1, <1>2

\* A step of an admission.
LEMMA AdmissionKeeps ==
  ASSUME SupervisorInv, NEW c \in Reqs, step[c] \in Admitting,
         entries' \in Seq(EntryStates), CallsOk(entries', step', at', tries'),
         BooksKept(entries'), admissions' \in Seq(Reqs),
         UNCHANGED <<shuttingDown, overtaken, abandoned>>,
         \A d \in SupCalls : d # c => step'[d] = step[d],
         c \in overtaken => step'[c] \in Admitting \cup {"done"},
         Fits(entries'),
         \A d \in SupCalls : d # c /\ step[d] = "evict" /\ d \notin overtaken
                               => HoldsAdmission(d)' /\ Roomy(entries'),
         step'[c] = "evict" /\ c \notin overtaken => HoldsAdmission(c)' /\ Roomy(entries')
  PROVE  SupervisorInv'
<1>1. SupervisorTypeOK'
  BY DEF SupervisorInv, SupervisorTypeOK, CallsOk, CallSteps, EntryIds, BooksKept
<1>2. RoomKept'
  <2>1. ASSUME NEW d \in SupCalls, step'[d] = "evict", d \notin overtaken'
        PROVE  HoldsAdmission(d)' /\ Roomy(entries')
    <3>1. CASE d = c
      BY <2>1, <3>1
    <3>2. CASE d # c
      <4>1. step[d] = "evict" /\ d \notin overtaken
        BY <2>1, <3>2
      <4> QED
        BY <3>2, <4>1
    <3> QED
      BY <3>1, <3>2
  <2> QED
    BY <2>1 DEF RoomKept
<1>3. NoneOutlivesShutdown'
  <2>1. ASSUME NEW d \in overtaken PROVE step'[d] \in {"admit", "queued", "evict", "done"}
    <3>1. d \in SupCalls /\ step[d] \in {"admit", "queued", "evict", "done"}
      BY DEF SupervisorInv, SupervisorTypeOK, SupCalls, NoneOutlivesShutdown
    <3>2. CASE d = c
      BY <3>2 DEF Admitting
    <3>3. CASE d # c
      BY <3>1, <3>3
    <3> QED
      BY <3>2, <3>3
  <2> QED
    BY <2>1 DEF NoneOutlivesShutdown
<1>4. NotLiveMeansGone'
  BY DEF BooksKept, NotLiveMeansGone
<1> QED
  BY <1>1, <1>2, <1>3, <1>4 DEF SupervisorInv, CallsOk, BooksKept

LEMMA OnlyMoves ==
  ASSUME SupervisorInv, NEW c \in SupCalls, NEW where, NEW e, Moves(c, where, e) \/ Ends(c)
  PROVE  /\ \A d \in SupCalls : d # c => step'[d] = step[d]
         /\ Moves(c, where, e) => step'[c] = where
         /\ Ends(c) => step'[c] = "done"
<1>1. step \in [SupCalls -> CallSteps]
  BY SupervisorFacts DEF CallsOk
<1> QED
  BY <1>1 DEF Moves, Ends

LEMMA HoldersKeep ==
  ASSUME SupervisorInv, NEW es, NoRevival(entries, es), NEW d \in SupCalls, step[d] = "evict",
         d \notin overtaken
  PROVE  HoldsAdmission(d) /\ Roomy(es)
BY SupervisorFacts, RoomStays DEF SupervisorInv, RoomKept

LEMMA AdmitKeeps ==
  ASSUME SupervisorInv, NEW c \in Reqs, Admit(c)
  PROVE  SupervisorInv'
<1>0. /\ c \in SupCalls /\ step[c] = "admit" /\ step[c] \in Admitting
      /\ UNCHANGED <<ptys, shuttingDown, overtaken, abandoned, historyVars>>
      /\ admissions \in Seq(Reqs)
  BY DEF SupCalls, Admit, Admitting, SupervisorInv, SupervisorTypeOK
<1>1. CASE Refused(c)
  <2>1. Ends(c) /\ UNCHANGED <<entries, recordVars, admissions>>
    BY <1>1 DEF Admit
  <2>2. CallsOk(entries', step', at', tries')
    BY <1>0, <2>1, SupervisorFacts, CalmItself, SameLocksStand, EndsKeeps
  <2>3. BooksKept(entries') /\ NoRevival(entries, entries') /\ entries' \in Seq(EntryStates)
    BY <1>0, <2>1, SupervisorFacts, BooksRest DEF NoRevival
  <2>4. Fits(entries')
    BY <2>1 DEF SupervisorInv, RoomKept
  <2>5. \A d \in SupCalls : d # c /\ step[d] = "evict" /\ d \notin overtaken
                            => HoldsAdmission(d)' /\ Roomy(entries')
    BY <1>0, <2>1, <2>3, HoldersKeep DEF HoldsAdmission
  <2>6. step'[c] = "done" /\ \A d \in SupCalls : d # c => step'[d] = step[d]
    BY <1>0, <2>1, OnlyMoves
  <2> QED
    BY <1>0, <2>1, <2>2, <2>3, <2>4, <2>5, <2>6, AdmissionKeeps
<1>2. CASE ~Refused(c)
  <2>1. PICK S \in SUBSET unproven :
          /\ Asks(KeyOf[c], S)
          /\ entries' = ConfirmGone(S)
          /\ \/ Moves(c, "queued", 0) /\ admissions' = Append(admissions, c)
             \/ Ends(c) /\ UNCHANGED admissions
    BY <1>2 DEF Admit
  <2> DEFINE gs == ConfirmGone(S)
  <2>2. misreported' \subseteq {"gate"}
    BY <1>0 DEF SupervisorInv, SupervisorTypeOK, NotLiveMeansGone, historyVars
  <2>3. /\ gs \in Seq(EntryStates) /\ NoRevival(entries, gs) /\ SameLocks(entries, gs)
        /\ BooksKept(gs)
    BY <1>0, <2>1, <2>2, Asked DEF historyVars
  <2> HIDE DEF gs
  <2>4. /\ OthersStand(c, entries, gs) /\ "queued" \in CallSteps /\ Stands(c, gs, "queued", 0)
    BY <2>3, SameLocksStand DEF CallSteps, Stands
  <2>5. CallsOk(entries', step', at', tries')
    BY <1>0, <2>1, <2>4, SupervisorFacts, EndsKeeps, MovesKeeps DEF gs
  <2>6. Fits(entries')
    BY <2>1, <2>3, SupervisorFacts, RoomStays DEF SupervisorInv, RoomKept, gs
  <2>7. admissions' \in Seq(Reqs) /\ \A d : HoldsAdmission(d) => HoldsAdmission(d)'
    <3>1. CASE admissions' = Append(admissions, c)
      BY <1>0, <3>1, JoinKeepsHolder
    <3>2. CASE UNCHANGED admissions
      BY <1>0, <3>2 DEF HoldsAdmission
    <3> QED
      BY <2>1, <3>1, <3>2
  <2>8. \A d \in SupCalls : d # c /\ step[d] = "evict" /\ d \notin overtaken
                            => HoldsAdmission(d)' /\ Roomy(entries')
    BY <2>1, <2>3, <2>7, HoldersKeep DEF gs
  <2>9. step'[c] \in {"queued", "done"} /\ \A d \in SupCalls : d # c => step'[d] = step[d]
    BY <1>0, <2>1, OnlyMoves
  <2> QED
    BY <1>0, <2>1, <2>3, <2>5, <2>6, <2>7, <2>8, <2>9, AdmissionKeeps DEF Admitting, gs
<1> QED
  BY <1>1, <1>2

\* The map and the entries when a key gets its entry.
LEMMA NewEntryKnown ==
  ASSUME SupervisorInv, NEW k \in Keys, ptys[k] = 0
  PROVE  LET es == Append(entries, NewEntry(k))
             n  == Len(entries) + 1
         IN  /\ es \in Seq(EntryStates) /\ DOMAIN es = 1 .. n /\ n \in DOMAIN es
             /\ n \notin DOMAIN entries /\ DOMAIN entries \subseteq DOMAIN es
             /\ es[n] = NewEntry(k) /\ \A d \in DOMAIN entries : es[d] = entries[d]
             /\ DOMAIN es = DOMAIN entries \cup {n}
             /\ ClaudesKnown(es, [ptys EXCEPT ![k] = n], unproven, standIns)
<1> DEFINE es == Append(entries, NewEntry(k))
           n  == Len(entries) + 1
           p  == [ptys EXCEPT ![k] = n]
<1>1. NewEntry(k) \in EntryStates
  BY DEF NewEntry, EntryStates
<1>2. entries \in Seq(EntryStates) /\ n \in Nat /\ DOMAIN entries = 1 .. Len(entries)
      /\ Len(entries) \in Nat
  BY SupervisorFacts
<1>3. /\ es \in Seq(EntryStates) /\ DOMAIN es = 1 .. n /\ n \in DOMAIN es
      /\ n \notin DOMAIN entries /\ DOMAIN entries \subseteq DOMAIN es
      /\ es[n] = NewEntry(k) /\ \A d \in DOMAIN entries : es[d] = entries[d]
      /\ DOMAIN es = DOMAIN entries \cup {n}
  BY <1>1, <1>2, AppendProperties
<1>4. /\ ClaudesKnown(entries, ptys, unproven, standIns)
      /\ ptys \in [Keys -> DOMAIN entries \cup {0}]
      /\ \A d \in DOMAIN entries : entries[d].key \in Keys /\ d # 0
  <2>1. \A d \in DOMAIN entries : entries[d] \in EntryStates /\ d # 0
    BY SupervisorFacts, EntryTyped
  <2> QED
    BY <2>1, SupervisorFacts DEF EntryStates
<1>5. /\ es[n].key = k /\ es[n].claude = "none" /\ es[n].spawn = "none"
      /\ es[n].retiring = "no"
  BY <1>3 DEF NewEntry
<1>6. p[k] = n /\ \A j \in Keys : j # k => p[j] = ptys[j]
  BY <1>4
<1> HIDE DEF es, p, n
<1>7. \A j \in Keys : p[j] # 0 => es[p[j]].key = j
  <2>1. \A j \in Keys : ptys[j] # 0 => entries[ptys[j]].key = j
    BY <1>4 DEF ClaudesKnown
  <2> QED
    BY <1>3, <1>4, <1>5, <1>6, <2>1
<1>8. ASSUME NEW d \in DOMAIN es
      PROVE  /\ es[d].retiring # "done" <=> p[es[d].key] = d
             /\ es[d].retiring = "done" /\ es[d].spawn # "none" => d \in standIns
             /\ es[d].spawn \in {"prepare", "gate"} => es[d].claude = "none"
             /\ Writes(es, d) => \/ es[d].retiring # "done"
                                 \/ d \in unproven
                                 \/ d \in standIns /\ es[d].spawn # "none"
  <2>1. CASE d = n
    BY <1>5, <1>6, <2>1 DEF Writes
  <2>2. CASE d # n
    <3>1. d \in DOMAIN entries /\ es[d] = entries[d] /\ d # 0
      BY <1>3, <1>4, <2>2
    <3>2. entries[d].retiring # "done" <=> p[entries[d].key] = d
      BY <1>4, <1>6, <2>2, <3>1 DEF ClaudesKnown
    <3> QED
      BY <1>4, <3>1, <3>2 DEF ClaudesKnown, Writes
  <2> QED
    BY <2>1, <2>2
<1>9. ASSUME NEW d \in DOMAIN es, NEW f \in DOMAIN es, d # f, es[d].key = es[f].key
      PROVE  ~(Writes(es, d) /\ Writes(es, f))
  <2>1. CASE d = n \/ f = n
    BY <1>5, <2>1 DEF Writes
  <2>2. CASE d # n /\ f # n
    <3>1. /\ d \in DOMAIN entries /\ es[d] = entries[d]
          /\ f \in DOMAIN entries /\ es[f] = entries[f]
      BY <1>3, <2>2
    <3>2. ~(Writes(entries, d) /\ Writes(entries, f))
      BY <1>4, <1>9, <3>1 DEF ClaudesKnown
    <3> QED
      BY <3>1, <3>2 DEF Writes
  <2> QED
    BY <2>1, <2>2
<1>10. ClaudesKnown(es, p, unproven, standIns)
  BY <1>7, <1>8, <1>9 DEF ClaudesKnown
<1> QED
  BY <1>3, <1>10 DEF es, p, n

LEMMA NewEntryFits ==
  ASSUME SupervisorInv, NEW k \in Keys, ptys[k] = 0, k \in Ephemeral \/ Roomy(entries)
  PROVE  Fits(Append(entries, NewEntry(k)))
<1> DEFINE es == Append(entries, NewEntry(k))
           n  == Len(entries) + 1
           L  == Live(entries)
<1>1. /\ es \in Seq(EntryStates) /\ DOMAIN es = DOMAIN entries \cup {n}
      /\ n \notin DOMAIN entries /\ es[n].key = k /\ es[n].retiring = "no"
      /\ \A d \in DOMAIN entries : es[d] = entries[d]
  <2>1. /\ es \in Seq(EntryStates) /\ DOMAIN es = DOMAIN entries \cup {n}
        /\ n \notin DOMAIN entries /\ es[n] = NewEntry(k)
        /\ \A d \in DOMAIN entries : es[d] = entries[d]
    BY NewEntryKnown
  <2>2. NewEntry(k).key = k /\ NewEntry(k).retiring = "no"
    BY DEF NewEntry
  <2> HIDE DEF es, n
  <2> QED
    BY <2>1, <2>2
<1> HIDE DEF es, n
<1>2. Live(es) = IF k \in Ephemeral THEN L ELSE L \cup {n}
  BY <1>1 DEF Live
<1>3. MaxPtys \in Nat /\ IsFiniteSet(L) /\ Cardinality(L) \in Nat /\ Fits(entries)
  BY SupervisorAssumption, SupervisorFacts, LiveFinite DEF SupervisorInv, RoomKept
<1>4. n \notin L /\ L \subseteq DOMAIN entries
  BY <1>1 DEF Live
<1>5. CASE k \in Ephemeral
  <2>1. AdhocIn(es, Live(es)) = AdhocIn(entries, L)
    BY <1>1, <1>2, <1>4, <1>5 DEF AdhocIn
  <2> QED
    BY <1>2, <1>3, <1>5, <2>1 DEF Fits, es
<1>6. CASE k \notin Ephemeral /\ Roomy(entries)
  <2>1. CASE Cardinality(L) < MaxPtys
    <3>1. Cardinality(Live(es)) = Cardinality(L) + 1
      BY <1>2, <1>3, <1>4, <1>6, FS_AddElement
    <3> QED
      BY <1>3, <2>1, <3>1 DEF Fits, es
  <2>2. CASE AdhocIn(entries, L) = {}
    <3>1. AdhocIn(es, Live(es)) \subseteq {n}
      BY <1>1, <1>2, <1>4, <2>2 DEF AdhocIn
    <3> QED
      BY <3>1 DEF Fits, OneAtMost, es
  <2> QED
    BY <1>6, <2>1, <2>2 DEF Roomy
<1> QED
  BY <1>5, <1>6

LEMMA OthersOnward ==
  ASSUME NEW c, NEW es, NEW fs, NEW gs, OthersStand(c, es, fs), OthersStand(c, fs, gs)
  PROVE  OthersStand(c, es, gs)
BY DEF OthersStand

\* What an admission makes of the entry it ends with.
LEMMA GetOrCreateKeeps ==
  ASSUME SupervisorInv, NEW c \in Reqs, GetOrCreate(c),
         EntryOf(c) # 0 \/ KeyOf[c] \in Ephemeral \/ Roomy(entries),
         UNCHANGED <<recordVars, historyVars>>
  PROVE  /\ entries' \in Seq(EntryStates) /\ Fits(entries')
         /\ CallsOk(entries', step', at', tries') /\ BooksKept(entries')
         /\ step'[c] \in {"wait", "done"} /\ \A d \in SupCalls : d # c => step'[d] = step[d]
<1> DEFINE k == KeyOf[c]
           e == IF EntryOf(c) = 0 THEN Len(entries) + 1 ELSE EntryOf(c)
           es == IF EntryOf(c) = 0 THEN Append(entries, NewEntry(k)) ELSE entries
           p == [ptys EXCEPT ![k] = e]
<1>0. c \in SupCalls /\ k \in Keys /\ EntryOf(c) \in DOMAIN entries \cup {0} /\ EntryOf(c) = ptys[k]
      /\ ptys \in [Keys -> DOMAIN entries \cup {0}]
  BY KeysOfCalls, SupervisorFacts DEF SupCalls, EntryOf
<1>1. /\ es \in Seq(EntryStates) /\ e \in DOMAIN es /\ DOMAIN entries \subseteq DOMAIN es
      /\ \A d \in DOMAIN entries : es[d] = entries[d]
      /\ ClaudesKnown(es, p, unproven, standIns) /\ Fits(es)
  <2>1. CASE EntryOf(c) = 0
    BY <1>0, <2>1, NewEntryKnown, NewEntryFits
  <2>2. CASE EntryOf(c) # 0
    <3>1. p = ptys /\ es = entries /\ e \in DOMAIN entries
      BY <1>0, <2>2
    <3> QED
      BY <3>1, SupervisorFacts DEF SupervisorInv, RoomKept
  <2> QED
    BY <2>1, <2>2
<1>2. ptys' = p /\ p \in [Keys -> DOMAIN es \cup {0}]
  BY <1>0, <1>1 DEF GetOrCreate
<1>3. OthersStand(c, entries, es)
  <2>1. \A d, st : \A x \in DOMAIN entries : Stands(d, entries, st, x) => Stands(d, es, st, x)
    BY <1>1 DEF Stands
  <2>2. 0 \notin DOMAIN entries
    BY SupervisorFacts, EntryTyped
  <2>3. \A d, st : Stands(d, entries, st, 0) => Stands(d, es, st, 0)
    BY <2>2 DEF Stands
  <2> QED
    BY <1>1, <2>1, <2>3 DEF OthersStand
<1>4. \/ Moves(c, "wait", e) /\ entries' = [es EXCEPT ![e].lock = Append(@, c)]
      \/ Ends(c) /\ entries' \in {es, Retire(es, e)}
  BY DEF GetOrCreate
<1> HIDE DEF es, e, p
<1> DEFINE Goal == /\ Calm(es, entries') /\ CallsOk(entries', step', at', tries')
                   /\ step'[c] \in {"wait", "done"}
                   /\ \A d \in SupCalls : d # c => step'[d] = step[d]
<1>5. ASSUME Moves(c, "wait", e) /\ entries' = [es EXCEPT ![e].lock = Append(@, c)]
      PROVE  Goal
  <2>1. Calm(es, entries') /\ OthersStand(c, es, entries') /\ Listed(c, entries'[e].lock)
    BY <1>0, <1>1, <1>5, AppendCalm
  <2>2. OthersStand(c, entries, entries') /\ e \in DOMAIN entries' /\ "wait" \in CallSteps
        /\ Stands(c, entries', "wait", e)
    BY <1>1, <1>3, <2>1, OthersOnward DEF Calm, Stands, CallSteps
  <2>3. CallsOk(entries', step', at', tries')
    BY <1>0, <1>5, <2>2, SupervisorFacts, MovesKeeps
  <2>4. step'[c] = "wait" /\ \A d \in SupCalls : d # c => step'[d] = step[d]
    BY <1>0, <1>5, OnlyMoves
  <2> QED
    BY <2>1, <2>3, <2>4
<1>6. ASSUME Ends(c) /\ entries' \in {es, Retire(es, e)}
      PROVE  Goal
  <2>1. Calm(es, entries') /\ SameLocks(es, entries')
    BY <1>1, <1>6, CalmItself, RetireCalm
  <2>2. OthersStand(c, entries, entries')
    BY <1>3, <2>1, SameLocksOnward
  <2>3. CallsOk(entries', step', at', tries')
    BY <1>0, <1>6, <2>2, SupervisorFacts, EndsKeeps
  <2>4. step'[c] = "done" /\ \A d \in SupCalls : d # c => step'[d] = step[d]
    BY <1>0, <1>6, OnlyMoves
  <2> QED
    BY <2>1, <2>3, <2>4
<1>7. Goal
  BY <1>4, <1>5, <1>6
<1>8. entries' \in Seq(EntryStates) /\ DOMAIN entries' = DOMAIN es
  BY <1>7 DEF Calm
<1>9. Fits(entries')
  BY <1>1, <1>7, CalmRevivesNone, RoomStays
<1>10. ClaudesKnown(entries', p, unproven, standIns)
  BY <1>1, <1>2, <1>7, CalmKeepsClaudes
<1>11. /\ misreported \subseteq {"gate"} /\ {faults, deaths, shutdowns} \subseteq Nat
       /\ unproven \subseteq DOMAIN entries /\ standIns \subseteq DOMAIN entries
  BY SupervisorFacts DEF SupervisorInv, SupervisorTypeOK, NotLiveMeansGone
<1>12. BooksKept(entries')
  BY <1>1, <1>2, <1>8, <1>10, <1>11 DEF BooksKept, recordVars, historyVars
<1> QED
  BY <1>7, <1>8, <1>9, <1>12

\* What the cap counts.
LEMMA CountedIsLive ==
  ASSUME SupervisorInv
  PROVE  Counted = Live(entries)
<1>1. \A e \in DOMAIN entries : IsCurrent(e) <=> entries[e].retiring = "no"
  BY SupervisorFacts DEF ClaudesKnown, IsCurrent
<1> QED
  BY <1>1 DEF Counted, Live, EntryIds

LEMMA TakeAdmissionKeeps ==
  ASSUME SupervisorInv, NEW c \in Reqs, TakeAdmission(c)
  PROVE  SupervisorInv'
<1>0. /\ c \in SupCalls /\ step[c] = "queued" /\ step[c] \in Admitting /\ HoldsAdmission(c)
      /\ UNCHANGED <<recordVars, shuttingDown, overtaken, abandoned, historyVars>>
      /\ admissions \in Seq(Reqs)
  BY DEF SupCalls, TakeAdmission, Admitting, SupervisorInv, SupervisorTypeOK
<1>1. CASE /\ FreeAdmission(c) /\ UNCHANGED <<entries, ptys>>
           /\ Moves(c, "admit", 0) \/ Ends(c)
  <2>1. "admit" \in CallSteps /\ Stands(c, entries, "admit", 0) /\ OthersStand(c, entries, entries')
    BY <1>1, SupervisorFacts, CalmItself, SameLocksStand DEF CallSteps, Stands
  <2>2. CallsOk(entries', step', at', tries')
    BY <1>0, <1>1, <2>1, SupervisorFacts, EndsKeeps, MovesKeeps
  <2>3. BooksKept(entries') /\ NoRevival(entries, entries') /\ entries' \in Seq(EntryStates)
    BY <1>0, <1>1, SupervisorFacts, BooksRest DEF NoRevival
  <2>4. Fits(entries')
    BY <1>1 DEF SupervisorInv, RoomKept
  <2>5. admissions' \in Seq(Reqs) /\ \A d : d # c /\ HoldsAdmission(d) => HoldsAdmission(d)'
    BY <1>0, <1>1, FreeKeepsHolder
  <2>6. \A d \in SupCalls : d # c /\ step[d] = "evict" /\ d \notin overtaken
                            => HoldsAdmission(d)' /\ Roomy(entries')
    BY <2>3, <2>5, HoldersKeep
  <2>7. step'[c] \in {"admit", "done"} /\ \A d \in SupCalls : d # c => step'[d] = step[d]
    BY <1>0, <1>1, OnlyMoves
  <2> QED
    BY <1>0, <2>2, <2>3, <2>4, <2>5, <2>6, <2>7, AdmissionKeeps DEF Admitting
<1>2. CASE ~Refused(c) /\ Victims(c) = {} /\ FreeAdmission(c) /\ GetOrCreate(c)
  <2>1. c \notin overtaken
    BY <1>2 DEF Refused
  <2>2. EntryOf(c) # 0 \/ KeyOf[c] \in Ephemeral \/ Roomy(entries)
    BY <1>2, CountedIsLive DEF Victims, Roomy, AdhocIn
  <2>3. /\ entries' \in Seq(EntryStates) /\ Fits(entries')
        /\ CallsOk(entries', step', at', tries') /\ BooksKept(entries')
        /\ step'[c] \in {"wait", "done"} /\ \A d \in SupCalls : d # c => step'[d] = step[d]
    BY <1>0, <1>2, <2>2, GetOrCreateKeeps
  <2>4. admissions' \in Seq(Reqs)
    BY <1>0, <1>2, FreeKeepsHolder
  <2>5. ASSUME NEW d \in SupCalls, d # c, step[d] = "evict", d \notin overtaken PROVE FALSE
    <3>1. HoldsAdmission(d)
      BY <2>5 DEF SupervisorInv, RoomKept
    <3> QED
      BY <1>0, <2>1, <2>5, <3>1, OneHolds
  <2> QED
    BY <1>0, <2>1, <2>3, <2>4, <2>5, AdmissionKeeps
<1>3. ASSUME ~Refused(c), NEW v \in Victims(c), entries' = Retire(entries, v),
             Moves(c, "evict", v), UNCHANGED <<ptys, admissions>>
      PROVE  SupervisorInv'
  <2>1. v \in Live(entries) /\ v \in AdhocIn(entries, Live(entries)) /\ v \in DOMAIN entries
    BY <1>3, CountedIsLive DEF Victims, AdhocIn, Live
  <2>2. /\ Calm(entries, entries') /\ SameLocks(entries, entries') /\ entries'[v].retiring # "no"
        /\ entries' \in Seq(EntryStates) /\ NoRevival(entries, entries')
    BY <1>3, <2>1, SupervisorFacts, RetireCalm, CalmRevivesNone DEF Calm
  <2>3. CallsOk(entries', step', at', tries')
    <3>1. OthersStand(c, entries, entries') /\ v \in DOMAIN entries' \cup {0}
          /\ "evict" \in CallSteps /\ Stands(c, entries', "evict", v)
      BY <2>1, <2>2, SameLocksStand DEF Stands, Calm, CallSteps
    <3> QED
      BY <1>0, <1>3, <3>1, SupervisorFacts, MovesKeeps
  <2>4. Fits(entries')
    BY <2>2, SupervisorFacts, RoomStays DEF SupervisorInv, RoomKept
  <2>5. Roomy(entries')
    <3> DEFINE L == Live(entries)
               M == Live(entries')
    <3>1. M \subseteq L \ {v} /\ \A d \in M : entries'[d].key = entries[d].key
      BY <2>2 DEF Live, NoRevival
    <3>2. MaxPtys \in Nat /\ IsFiniteSet(L) /\ Cardinality(L) \in Nat
      BY SupervisorAssumption, SupervisorFacts, LiveFinite
    <3>3. Cardinality(L \ {v}) = Cardinality(L) - 1 /\ IsFiniteSet(L \ {v})
      BY <2>1, <3>2, FS_RemoveElement
    <3>4. Cardinality(M) <= Cardinality(L) - 1 /\ Cardinality(M) \in Nat
      BY <3>1, <3>3, FS_Subset, FS_CardinalityType
    <3>5. CASE Cardinality(L) <= MaxPtys
      BY <3>2, <3>4, <3>5 DEF Roomy
    <3>6. CASE OneAtMost(AdhocIn(entries, L))
      <4>1. AdhocIn(entries', M) \subseteq AdhocIn(entries, L) \ {v}
        BY <3>1 DEF AdhocIn
      <4> QED
        BY <2>1, <3>6, <4>1 DEF Roomy, OneAtMost
    <3> QED
      BY <3>5, <3>6 DEF SupervisorInv, RoomKept, Fits
  <2>6. \A d : HoldsAdmission(d) => HoldsAdmission(d)'
    BY <1>0, <1>3 DEF HoldsAdmission
  <2>7. \A d \in SupCalls : d # c /\ step[d] = "evict" /\ d \notin overtaken
                            => HoldsAdmission(d)' /\ Roomy(entries')
    BY <2>2, <2>6, HoldersKeep
  <2>8. step'[c] = "evict" /\ \A d \in SupCalls : d # c => step'[d] = step[d]
    BY <1>0, <1>3, OnlyMoves
  <2>9. BooksKept(entries')
    <3>1. BooksKept(entries) /\ ClaudesKnown(entries', ptys, unproven, standIns)
      BY <1>0, <1>3, <2>2, SupervisorFacts, BooksRest, CalmKeepsClaudes
    <3> QED
      BY <1>0, <1>3, <2>2, <3>1 DEF BooksKept, Calm, recordVars
  <2> QED
    BY <1>0, <1>3, <2>2, <2>3, <2>4, <2>5, <2>6, <2>7, <2>8, <2>9, AdmissionKeeps DEF Admitting
<1> QED
  BY <1>1, <1>2, <1>3 DEF TakeAdmission

LEMMA AfterEvictionKeeps ==
  ASSUME SupervisorInv, NEW c \in Reqs, AfterEviction(c)
  PROVE  SupervisorInv'
<1>0. /\ c \in SupCalls /\ step[c] = "evict" /\ step[c] \in Admitting /\ FreeAdmission(c)
      /\ UNCHANGED <<recordVars, shuttingDown, overtaken, abandoned, historyVars>>
  BY DEF SupCalls, AfterEviction, Admitting
<1>1. admissions' \in Seq(Reqs) /\ \A d : d # c /\ HoldsAdmission(d) => HoldsAdmission(d)'
  BY <1>0, FreeKeepsHolder
<1>2. CASE Refused(c)
  <2>1. Ends(c) /\ UNCHANGED <<entries, ptys>>
    BY <1>2 DEF AfterEviction
  <2>2. CallsOk(entries', step', at', tries')
    BY <1>0, <2>1, SupervisorFacts, CalmItself, SameLocksStand, EndsKeeps
  <2>3. BooksKept(entries') /\ NoRevival(entries, entries') /\ entries' \in Seq(EntryStates)
    BY <1>0, <2>1, SupervisorFacts, BooksRest DEF NoRevival
  <2>4. Fits(entries')
    BY <2>1 DEF SupervisorInv, RoomKept
  <2>5. \A d \in SupCalls : d # c /\ step[d] = "evict" /\ d \notin overtaken
                            => HoldsAdmission(d)' /\ Roomy(entries')
    BY <1>1, <2>3, HoldersKeep
  <2>6. step'[c] = "done" /\ \A d \in SupCalls : d # c => step'[d] = step[d]
    BY <1>0, <2>1, OnlyMoves
  <2> QED
    BY <1>0, <1>1, <2>2, <2>3, <2>4, <2>5, <2>6, AdmissionKeeps
<1>3. CASE ~Refused(c)
  <2>1. c \notin overtaken /\ GetOrCreate(c)
    BY <1>3 DEF Refused, AfterEviction
  <2>2. HoldsAdmission(c) /\ Roomy(entries)
    BY <1>0, <2>1 DEF SupervisorInv, RoomKept
  <2>3. /\ entries' \in Seq(EntryStates) /\ Fits(entries')
        /\ CallsOk(entries', step', at', tries') /\ BooksKept(entries')
        /\ step'[c] \in {"wait", "done"} /\ \A d \in SupCalls : d # c => step'[d] = step[d]
    BY <1>0, <2>1, <2>2, GetOrCreateKeeps
  <2>5. ASSUME NEW d \in SupCalls, d # c, step[d] = "evict", d \notin overtaken PROVE FALSE
    <3>1. HoldsAdmission(d)
      BY <2>5 DEF SupervisorInv, RoomKept
    <3> QED
      BY <2>1, <2>2, <2>5, <3>1, OneHolds
  <2> QED
    BY <1>0, <1>1, <2>1, <2>3, <2>5, AdmissionKeeps
<1> QED
  BY <1>2, <1>3

LEMMA RequestKeeps ==
  ASSUME SupervisorInv, NEW c \in Reqs, Request(c)
  PROVE  SupervisorInv'
<1>0. /\ c \in SupCalls /\ step[c] \notin Admitting \cup {"done"}
      /\ Ends(c) \/ Moves(c, "admit", 0)
      /\ UNCHANGED <<entries, ptys, recordVars, lockVars, historyVars>>
  BY DEF SupCalls, Request, Admitting
<1>1. /\ "admit" \in CallSteps \ {"evict"} /\ Stands(c, entries', "admit", 0)
      /\ Calm(entries, entries') /\ OthersStand(c, entries, entries')
  BY <1>0, SupervisorFacts, CalmItself, SameLocksStand DEF CallSteps, Stands
<1>2. Follows(entries)
  BY <1>0, <1>1, SupervisorFacts, MovesOn, EndsOn
<1> QED
  BY <1>0, <1>2, CalmStepKeeps

LEMMA StepKeepsAll ==
  SupervisorInv /\ [SupervisorNext]_supVars => SupervisorInv'
<1> SUFFICES ASSUME SupervisorInv, [SupervisorNext]_supVars PROVE SupervisorInv'
  OBVIOUS
<1>1. ASSUME NEW c \in Reqs, Request(c) \/ RequestMoves(c) PROVE SupervisorInv'
  <2>1. CASE AdmissionDeadline(c)
    <3>1. shuttingDown' \in BOOLEAN /\ abandoned' \subseteq Reqs
      BY <2>1 DEF AdmissionDeadline, SupervisorInv, SupervisorTypeOK
    <3> QED
      BY <2>1, <3>1, QuietKeeps DEF AdmissionDeadline
  <2> QED
    BY <1>1, <2>1, RequestKeeps, AdmitKeeps, TakeAdmissionKeeps, AfterEvictionKeeps,
       WaitDeadlineKeeps, BeginKeeps, RespawnKeeps, SpawnDeadlineKeeps DEF RequestMoves
<1>2. ASSUME NEW s \in Sends, Send(s) \/ SendMoves(s) PROVE SupervisorInv'
  BY <1>2, SendKeeps, LookKeeps, GateAnswersKeeps, SendBeginsKeeps, SendGivesUpKeeps DEF SendMoves
<1>3. ASSUME NEW c \in SupCalls, TurnMoves(c) PROVE SupervisorInv'
  BY <1>3, TurnEndsKeeps, TurnLostKeeps, TurnFailsKeeps, ReturnsKeeps DEF TurnMoves
<1>4. ASSUME NEW e \in EntryIds,
             \/ Prepared(e) \/ Fork(e) \/ BootFails(e) \/ Land(e) \/ Disposes(e)
             \/ RetirementEnds(e) \/ Reap(e) \/ RetireSession(e) \/ ClaudeDies(e)
      PROVE  SupervisorInv'
  BY <1>4, PreparedKeeps, ForkKeeps, BootFailsKeeps, LandKeeps, DisposeDeadKeeps, DisposeLateKeeps,
     RetirementEndsKeeps, RetirementBegins, ClaudeDiesKeeps DEF Disposes, EntryIds
<1>5. CASE EndShutdown
  <2>1. shuttingDown' \in BOOLEAN /\ abandoned' \subseteq Reqs
    BY <1>5 DEF EndShutdown, SupervisorInv, SupervisorTypeOK
  <2> QED
    BY <1>5, <2>1, QuietKeeps DEF EndShutdown
<1>6. CASE UNCHANGED supVars
  <2>1. shuttingDown' \in BOOLEAN /\ abandoned' \subseteq Reqs
    BY <1>6 DEF supVars, lockVars, SupervisorInv, SupervisorTypeOK
  <2> QED
    BY <1>6, <2>1, QuietKeeps DEF supVars, lockVars
<1> QED
  BY <1>1, <1>2, <1>3, <1>4, <1>5, <1>6, KillKeeps, ConfirmAllKeeps, StartShutdownKeeps
     DEF SupervisorNext

--------------------------------------------------------------------------------
\* The start: the claudes that earlier calls left.
LEMMA FirstPlaceOf ==
  ASSUME NEW w \in Seq(Keys), IsInjective(w), NEW k
  PROVE  /\ PlaceIn(w, k) \in DOMAIN w \cup {0}
         /\ PlaceIn(w, k) # 0 => w[PlaceIn(w, k)] = k
         /\ \A i \in DOMAIN w : w[i] = k => PlaceIn(w, k) = i
<1> DEFINE places == {i \in 1 .. Len(w) : w[i] = k}
<1>1. PlaceIn(w, k) = IF places # {} THEN Min(places) ELSE 0
  BY DEF SelectInSeq, PlaceIn
<1>2. places # {} => Min(places) \in places
  <2>1. places \in SUBSET Nat
    OBVIOUS
  <2> QED
    BY <2>1, LeastPlace
<1>3. \A i, j \in DOMAIN w : w[i] = w[j] => i = j
  BY DEF IsInjective
<1>4. DOMAIN w = 1 .. Len(w)
  OBVIOUS
<1>5. CASE places = {}
  <2>1. PlaceIn(w, k) = 0
    BY <1>1, <1>5
  <2>2. \A i \in DOMAIN w : w[i] # k
    BY <1>4, <1>5
  <2> QED
    BY <2>1, <2>2
<1>6. CASE places # {}
  <2> DEFINE first == Min(places)
  <2>1. PlaceIn(w, k) = first /\ first \in places
    BY <1>1, <1>2, <1>6
  <2>2. first \in DOMAIN w /\ w[first] = k
    BY <1>4, <2>1
  <2> HIDE DEF first
  <2>3. \A i \in DOMAIN w : w[i] = k => first = i
    BY <1>3, <2>2
  <2> QED
    BY <2>1, <2>2, <2>3
<1> QED
  BY <1>5, <1>6

LEMMA SupervisorInvInit == SupervisorInit => SupervisorInv
<1> SUFFICES ASSUME SupervisorInit PROVE SupervisorInv
  OBVIOUS
<1>1. PICK cast \in Casts :
        /\ entries = [e \in DOMAIN cast.warm |-> [NewEntry(cast.warm[e]) EXCEPT !.claude = "alive"]]
        /\ ptys = [k \in Keys |-> PlaceIn(cast.warm, k)]
        /\ step = [c \in SupCalls |-> IF c \in cast.calls THEN "idle" ELSE "done"]
        /\ faults = cast.faults /\ deaths = cast.deaths /\ shutdowns = cast.shutdowns
  BY DEF SupervisorInit
<1> DEFINE w == cast.warm
<1>2. /\ w \in Seq(Keys) /\ IsInjective(w) /\ WithinCap(w)
      /\ {cast.faults, cast.deaths, cast.shutdowns} \subseteq Nat
  BY SupervisorAssumption
<1>3. /\ unproven = {} /\ standIns = {} /\ admissions = <<>> /\ shuttingDown = FALSE
      /\ overtaken = {} /\ abandoned = {} /\ misreported = {}
      /\ at = [c \in SupCalls |-> 0] /\ tries = [c \in SupCalls |-> NoTries]
  BY DEF SupervisorInit
<1>4. /\ entries \in Seq(EntryStates) /\ DOMAIN entries = 1 .. Len(w) /\ DOMAIN entries = DOMAIN w
      /\ Len(w) \in Nat
      /\ \A e \in DOMAIN entries : /\ entries[e].key = w[e] /\ entries[e].spawn = "none"
                                  /\ entries[e].retiring = "no"
  <2>1. ASSUME NEW k \in Keys
        PROVE  LET r == [NewEntry(k) EXCEPT !.claude = "alive"]
               IN r \in EntryStates /\ r.key = k /\ r.spawn = "none" /\ r.retiring = "no"
    <3>1. [NewEntry(k) EXCEPT !.claude = "alive"]
            = [key |-> k, claude |-> "alive", spawn |-> "none", retiring |-> "no", lock |-> <<>>]
      BY DEF NewEntry
    <3>2. <<>> \in Seq(SupCalls)
      OBVIOUS
    <3>3. [key |-> k, claude |-> "alive", spawn |-> "none", retiring |-> "no", lock |-> <<>>]
            \in EntryStates
      BY <3>2 DEF EntryStates
    <3> QED
      BY <3>1, <3>3
  <2>2. Len(w) \in Nat /\ DOMAIN w = 1 .. Len(w) /\ \A e \in 1 .. Len(w) : w[e] \in Keys
    BY <1>2
  <2>3. entries = [e \in 1 .. Len(w) |-> [NewEntry(w[e]) EXCEPT !.claude = "alive"]]
    BY <1>1, <2>2
  <2> HIDE DEF w
  <2>4. entries \in [1 .. Len(w) -> EntryStates]
    BY <2>1, <2>2, <2>3
  <2>5. entries \in Seq(EntryStates) /\ DOMAIN entries = 1 .. Len(w)
    BY <2>2, <2>4, SeqDef
  <2>6. ASSUME NEW e \in 1 .. Len(w)
        PROVE  entries[e].key = w[e] /\ entries[e].spawn = "none" /\ entries[e].retiring = "no"
    <3>1. entries[e] = [NewEntry(w[e]) EXCEPT !.claude = "alive"] /\ w[e] \in Keys
      BY <2>2, <2>3
    <3> QED
      BY <2>1, <3>1
  <2> QED
    BY <2>2, <2>5, <2>6
<1>5. /\ ptys \in [Keys -> DOMAIN entries \cup {0}]
      /\ \A k \in Keys : ptys[k] # 0 => w[ptys[k]] = k
      /\ \A e \in DOMAIN entries : ptys[w[e]] = e
  <2>1. \A k \in Keys : /\ ptys[k] \in DOMAIN w \cup {0} /\ (ptys[k] # 0 => w[ptys[k]] = k)
                        /\ \A i \in DOMAIN w : w[i] = k => ptys[k] = i
    <3>1. \A k \in Keys : ptys[k] = PlaceIn(w, k)
      BY <1>1
    <3> QED
      BY <1>2, <3>1, FirstPlaceOf
  <2>2. \A e \in DOMAIN w : w[e] \in Keys
    BY <1>2
  <2>3. DOMAIN ptys = Keys /\ ptys = [k \in Keys |-> ptys[k]]
    BY <1>1
  <2> HIDE DEF w
  <2> QED
    BY <1>4, <2>1, <2>2, <2>3
<1> HIDE DEF w
<1>6. CallsOk(entries, step, at, tries)
  <2>1. step \in [SupCalls -> CallSteps] /\ \A c \in SupCalls : step[c] \in {"idle", "done"}
    BY <1>1 DEF CallSteps
  <2>2. NoTries \in [turns : 0 .. MaxRetries, respawns : 0 .. RespawnRetries]
    BY SupervisorAssumption DEF NoTries
  <2>3. LocksKept(entries, step, at)
    BY <2>1 DEF LocksKept, Stands
  <2> QED
    BY <1>3, <2>1, <2>2, <2>3 DEF CallsOk
<1>7. SupervisorTypeOK
  <2>1. {faults, deaths, shutdowns} \subseteq Nat
    BY <1>1, <1>2
  <2>2. /\ unproven \subseteq DOMAIN entries /\ standIns \subseteq DOMAIN entries
        /\ admissions \in Seq(Reqs) /\ shuttingDown \in BOOLEAN
        /\ overtaken \subseteq Reqs /\ abandoned \subseteq Reqs /\ misreported \subseteq {"look", "gate"}
    <3>1. admissions \in Seq(Reqs)
      BY <1>3
    <3>2. /\ unproven = {} /\ standIns = {} /\ shuttingDown = FALSE
          /\ overtaken = {} /\ abandoned = {} /\ misreported = {}
      BY <1>3
    <3> QED
      BY <3>1, <3>2
  <2> QED
    BY <1>4, <1>5, <1>6, <2>1, <2>2 DEF SupervisorTypeOK, CallsOk, CallSteps, EntryIds
<1>8. ClaudesKnown(entries, ptys, unproven, standIns)
  <2>1. \A e, f \in DOMAIN entries : entries[e].key = entries[f].key => e = f
    BY <1>4, <1>5
  <2>2. \A k \in Keys : ptys[k] # 0 => entries[ptys[k]].key = k
    BY <1>4, <1>5
  <2> QED
    BY <1>4, <1>5, <2>1, <2>2 DEF ClaudesKnown
<1>9. RoomKept
  <2>1. Fits(entries)
    <3>1. CASE Len(w) <= MaxPtys
      <4>0. Live(entries) \subseteq 1 .. Len(w)
        BY <1>4 DEF Live
      <4>1. IsFiniteSet(1 .. Len(w)) /\ Cardinality(1 .. Len(w)) = Len(w)
        <5> DEFINE n == Len(w)
      <5>1. n \in Int /\ 1 \in Int /\ n >= 0
        BY <1>4
      <5> HIDE DEF n
      <5>2. /\ IsFiniteSet(1 .. n)
            /\ Cardinality(1 .. n) = IF 1 > n THEN 0 ELSE n - 1 + 1
        BY <5>1, FS_Interval
      <5>3. IsFiniteSet(1 .. n) /\ Cardinality(1 .. n) = n
        BY <5>1, <5>2
      <5> QED
        BY <5>3 DEF n
      <4>2. Cardinality(Live(entries)) <= Len(w) /\ Cardinality(Live(entries)) \in Nat
        BY <4>0, <4>1, FS_Subset, FS_CardinalityType
      <4> QED
        BY <1>4, <3>1, <4>2, SupervisorAssumption DEF Fits
    <3>2. CASE \A i, j \in DOMAIN w : {w[i], w[j]} \subseteq Adhoc => i = j
      BY <1>4, <3>2 DEF Fits, OneAtMost, AdhocIn, Live
    <3> QED
      BY <1>2, <3>1, <3>2 DEF WithinCap, w
  <2>2. \A c \in SupCalls : step[c] # "evict"
    BY <1>1
  <2> QED
    BY <2>1, <2>2 DEF RoomKept
<1>10. NoneOutlivesShutdown /\ NotLiveMeansGone
  BY <1>3 DEF NoneOutlivesShutdown, NotLiveMeansGone
<1> QED
  BY <1>6, <1>7, <1>8, <1>9, <1>10 DEF SupervisorInv, CallsOk

LEMMA SupervisorInvAlways == SupervisorSpec => []SupervisorInv
BY SupervisorInvInit, StepKeepsAll, PTL DEF SupervisorSpec

--------------------------------------------------------------------------------
\* Every entry, call and record of the supervisor is well typed.
THEOREM SupervisorTypes == SupervisorSpec => []SupervisorTypeOK
<1>1. SupervisorInv => SupervisorTypeOK
  BY DEF SupervisorInv
<1> QED
  BY <1>1, SupervisorInvAlways, PTL

LEMMA CapFromRoom == SupervisorInv => CapHeld
<1> SUFFICES ASSUME SupervisorInv PROVE CapHeld
  OBVIOUS
<1> DEFINE L == Live(entries)
           kept == {e \in L : entries[e].key \notin Adhoc}
           A == AdhocIn(entries, L)
<1>1. Counted = L
  BY CountedIsLive
<1>2. IsFiniteSet(L) /\ kept \subseteq L /\ Fits(entries)
  BY SupervisorFacts, LiveFinite DEF SupervisorInv, RoomKept
<1>3. CASE Cardinality(L) <= MaxPtys
  BY <1>1, <1>3 DEF CapHeld
<1>4. CASE OneAtMost(A)
  <2>1. IsFiniteSet(kept) /\ Cardinality(kept) \in Nat
    BY <1>2, FS_Subset, FS_CardinalityType
  <2>2. CASE A = {}
    <3>1. kept = L
      BY <2>2 DEF AdhocIn
    <3> HIDE DEF kept, L
    <3>2. Cardinality(L) <= Cardinality(kept) + 1
      BY <2>1, <3>1
    <3> QED
      BY <1>1, <3>2 DEF CapHeld, kept
  <2>3. ASSUME NEW x \in A PROVE CapHeld
    <3>1. L = kept \cup {x} /\ x \notin kept
      BY <1>4, <2>3 DEF OneAtMost, AdhocIn
    <3> HIDE DEF kept, L
    <3>2. Cardinality(L) = Cardinality(kept) + 1
      BY <2>1, <3>1, FS_AddElement
    <3>3. Cardinality(L) <= Cardinality(kept) + 1
      BY <2>1, <3>2
    <3> QED
      BY <1>1, <3>3 DEF CapHeld, kept
  <2> QED
    BY <2>2, <2>3
<1> QED
  BY <1>2, <1>3, <1>4 DEF Fits

\* One claude of a session and one turn on it, none beyond reach, the cap, no request
\* that outlives a shutdown and no live claude reported as none, whatever overlaps.
THEOREM SupervisorIsSafe == SupervisorSpec => []SupervisorSafety
<1>1. SupervisorInv => SupervisorSafety
  <2> SUFFICES ASSUME SupervisorInv PROVE SupervisorSafety
    OBVIOUS
  <2>1. OneClaudePerSession
    BY SupervisorFacts DEF OneClaudePerSession, ClaudesKnown, Unproven, Writes, EntryIds
  <2>2. OneTurnPerClaude
    <3> SUFFICES ASSUME NEW c \in SupCalls, NEW d \in SupCalls, step[c] = "turn", step[d] = "turn",
                        at[c] = at[d]
                 PROVE  c = d
      BY DEF OneTurnPerClaude
    <3> QED
      BY CallPlaced
  <2>3. NoClaudeUntracked
    BY SupervisorFacts DEF NoClaudeUntracked, ClaudesKnown, Unproven, Writes, EntryIds, Tracked
  <2> QED
    BY <2>1, <2>2, <2>3, CapFromRoom DEF SupervisorSafety, SupervisorInv
<1> QED
  BY <1>1, SupervisorInvAlways, PTL

--------------------------------------------------------------------------------
(* AgentJobs *)

\* A nonempty bounded set of naturals has a greatest element.
LEMMA Greatest ==
  ASSUME NEW n \in Nat, NEW T \in SUBSET (1 .. n), T # {}
  PROVE  \E x \in T : \A y \in T : y <= x
<1> DEFINE D == {n - i : i \in T}
<1>1. \A i \in T : n - i \in Nat
  OBVIOUS
<1>a. D \in SUBSET Nat /\ D # {}
  BY <1>1
<1>2. PICK d \in D : \A e \in D : d <= e
  <2> HIDE DEF D
  <2> QED
    BY <1>a, LeastPlace
<1>3. PICK x \in T : d = n - x
  OBVIOUS
<1>4. \A y \in T : n - x <= n - y
  BY <1>2, <1>3
<1> QED
  BY <1>4

\* The places of S that have at most m of its places up to them are at most m.
LEMMA FirstPlaces ==
  ASSUME NEW n \in Nat, NEW S \in SUBSET (1 .. n), NEW m \in Nat
  PROVE  LET T == {i \in S : Cardinality({k \in S : k <= i}) <= m}
         IN  IsFiniteSet(T) /\ Cardinality(T) <= m
<1> DEFINE upTo(i) == {k \in S : k <= i}
           T == {i \in S : Cardinality(upTo(i)) <= m}
<1> SUFFICES IsFiniteSet(T) /\ Cardinality(T) <= m
  OBVIOUS
<1>1. IsFiniteSet(1 .. n)
  BY FS_Interval
<1>2. IsFiniteSet(S) /\ IsFiniteSet(T)
  BY <1>1, FS_Subset
<1>3. CASE T = {}
  <2> HIDE DEF T
  <2> QED
    BY <1>2, <1>3, FS_EmptySet
<1>4. CASE T # {}
  <2>1. PICK x \in T : \A y \in T : y <= x
    BY <1>4, Greatest
  <2>2. T \subseteq upTo(x) /\ IsFiniteSet(upTo(x))
    BY <1>2, <2>1, FS_Subset
  <2>3. Cardinality(T) <= Cardinality(upTo(x)) /\ Cardinality(upTo(x)) <= m
    BY <2>1, <2>2, FS_Subset
  <2>4. Cardinality(T) \in Nat /\ Cardinality(upTo(x)) \in Nat
    BY <1>2, <2>2, FS_CardinalityType
  <2> QED
    BY <1>2, <2>3, <2>4
<1> QED
  BY <1>3, <1>4

--------------------------------------------------------------------------------
\* Taking a job out of the queue leaves a queue.
LEMMA RemoveFirstTyped ==
  ASSUME NEW q \in Seq(JobIds), NEW j
  PROVE  RemoveFirst(q, j) \in Seq(JobIds)
BY RemoveFirstKeeps

Starts(q, st, n) == IF stopped THEN {} ELSE {q[i] : i \in StartedAt(q, st, n)}

LEMMA StartsBounded ==
  ASSUME NEW q \in Seq(JobIds), NEW st, NEW n \in 0 .. MaxConcurrent
  PROVE  /\ Starts(q, st, n) \subseteq JobIds
         /\ \A j \in Starts(q, st, n) : st[j] = "queued"
         /\ IsFiniteSet(Starts(q, st, n))
         /\ Cardinality(Starts(q, st, n)) \in Nat
         /\ n + Cardinality(Starts(q, st, n)) <= MaxConcurrent
<1> DEFINE places == StartedAt(q, st, n)
           jobs == {q[i] : i \in places}
<1>1. MaxConcurrent \in Nat /\ MaxConcurrent - n \in Nat
  BY JobAssumption
<1>2. Startable(q, st) \in SUBSET (1 .. Len(q))
  BY DEF Startable
<1>3. IsFiniteSet(places) /\ Cardinality(places) <= MaxConcurrent - n
  <2> DEFINE S == Startable(q, st)
             m == MaxConcurrent - n
  <2>1. places = {i \in S : Cardinality({k \in S : k <= i}) <= m}
    BY DEF StartedAt
  <2>2. Len(q) \in Nat /\ m \in Nat /\ S \in SUBSET (1 .. Len(q))
    BY <1>1, <1>2
  <2> HIDE DEF S, m, places
  <2>3. IsFiniteSet(places) /\ Cardinality(places) <= m
    BY <2>1, <2>2, FirstPlaces
  <2> QED
    BY <2>3 DEF m
<1>4. places \subseteq Startable(q, st)
  BY DEF StartedAt
<1>5. jobs \subseteq JobIds /\ \A j \in jobs : st[j] = "queued"
  BY <1>2, <1>4 DEF Startable
<1> DEFINE f == [i \in places |-> q[i]]
<1>6. f \in Surjection(places, jobs)
  BY DEF Surjection
<1>7. IsFiniteSet(jobs) /\ Cardinality(jobs) <= Cardinality(places)
  BY <1>3, <1>6, FS_Surjection
<1>8. Cardinality(jobs) \in Nat /\ Cardinality(places) \in Nat
  BY <1>3, <1>7, FS_CardinalityType
<1>9. n + Cardinality(jobs) <= MaxConcurrent
  BY <1>1, <1>3, <1>7, <1>8
<1>10. CASE stopped
  BY <1>1, <1>10, FS_EmptySet DEF Starts
<1>11. CASE ~stopped
  BY <1>5, <1>7, <1>8, <1>9, <1>11 DEF Starts
<1> QED
  BY <1>10, <1>11

LEMMA StillQueuedTyped ==
  ASSUME NEW q \in Seq(JobIds), NEW st, NEW n
  PROVE  StillQueued(q, st, n) \in Seq(JobIds)
<1> DEFINE places == StartedAt(q, st, n)
           last == CHOOSE i \in DOMAIN q \cup {0} :
                     IF places = {} THEN i = 0 ELSE i \in places /\ \A k \in places : k <= i
<1>1. places \in SUBSET (1 .. Len(q))
  BY DEF StartedAt, Startable
<1>2. last \in 0 .. Len(q)
  <2>1. CASE places = {}
    BY <2>1
  <2>2. CASE places # {}
    <3> HIDE DEF places
    <3>0. Len(q) \in Nat
      OBVIOUS
    <3>1. PICK x \in places : \A y \in places : y <= x
      BY <1>1, <2>2, <3>0, Greatest
    <3>2. last \in DOMAIN q \cup {0}
      BY <1>1, <2>2, <3>1 DEF last
    <3> HIDE DEF last
    <3> QED
      BY <3>2
  <2> QED
    BY <2>1, <2>2
<1> DEFINE taken == IF Cardinality(places) < MaxConcurrent - n THEN Len(q) ELSE last
<1>3. taken \in 0 .. Len(q)
  BY <1>2
<1>4. StillQueued(q, st, n) = SubSeq(q, taken + 1, Len(q))
  BY DEF StillQueued
<1> HIDE DEF taken
<1> QED
  BY <1>3, <1>4

--------------------------------------------------------------------------------
LEMMA EvictTyped ==
  ASSUME NEW st \in [JobIds -> JobStatus], NEW b
  PROVE  /\ EvictOldTerminal(st, b) \in [JobIds -> JobStatus]
         /\ \A j \in JobIds : \/ EvictOldTerminal(st, b)[j] = st[j]
                              \/ st[j] \in Terminal /\ EvictOldTerminal(st, b)[j] = "absent"
BY DEF EvictOldTerminal, JobStatus

\* What the caller of maybeStart passes on: states of the runner.
LEMMA MaybeStartTyped ==
  ASSUME NEW q \in Seq(JobIds), NEW st \in [JobIds -> JobStatus], NEW n \in 0 .. MaxConcurrent,
         NEW cs \in SUBSET JobIds, NEW runs \in SUBSET JobIds,
         MaybeStart(q, st, n, cs, runs)
  PROVE  /\ jobQueue' \in Seq(JobIds)
         /\ status' \in [JobIds -> JobStatus]
         /\ runningCount' \in 0 .. MaxConcurrent
         /\ controllers' \in SUBSET JobIds
         /\ executing' \in SUBSET JobIds
<1> DEFINE starts == Starts(q, st, n)
<1>1. /\ jobQueue' = IF stopped THEN q ELSE StillQueued(q, st, n)
      /\ status' = [j \in JobIds |-> IF j \in starts THEN "running" ELSE st[j]]
      /\ runningCount' = n + Cardinality(starts)
      /\ controllers' = cs \cup starts /\ executing' = runs \cup starts
  BY DEF MaybeStart, Starts
<1>2. /\ starts \subseteq JobIds /\ Cardinality(starts) \in Nat
      /\ n + Cardinality(starts) <= MaxConcurrent
  BY StartsBounded
<1> HIDE DEF starts
<1>3. jobQueue' \in Seq(JobIds)
  BY <1>1, StillQueuedTyped
<1>4. status' \in [JobIds -> JobStatus]
  BY <1>1, <1>2 DEF JobStatus
<1>5. runningCount' \in 0 .. MaxConcurrent
  BY <1>1, <1>2, JobAssumption
<1> QED
  BY <1>1, <1>2, <1>3, <1>4, <1>5

TypeInv == JobTypeOK /\ runningCount <= MaxConcurrent

LEMMA TypeInit == JobsInit => TypeInv
<1>1. <<>> \in Seq(JobIds) /\ MaxConcurrent \in Nat /\ "absent" \in JobStatus
  BY JobAssumption DEF JobStatus
<1> SUFFICES ASSUME JobsInit PROVE TypeInv
  OBVIOUS
<1>2. /\ status \in [JobIds -> JobStatus] /\ jobQueue \in Seq(JobIds)
      /\ born \in [JobIds -> Nat] /\ delivered \in [JobIds -> Nat]
  BY <1>1 DEF JobsInit
<1>3. /\ controllers \subseteq JobIds /\ executing \subseteq JobIds /\ stopped \in BOOLEAN
      /\ runningCount = 0
  BY DEF JobsInit
<1> QED
  BY <1>1, <1>2, <1>3 DEF TypeInv, JobTypeOK

LEMMA TypeStep == TypeInv /\ [JobsNext]_jobVars => TypeInv'
<1> SUFFICES ASSUME TypeInv, [JobsNext]_jobVars PROVE TypeInv'
  OBVIOUS
<1> USE DEF TypeInv, JobTypeOK
<1>0. runningCount \in 0 .. MaxConcurrent /\ MaxConcurrent \in Nat
  BY JobAssumption
<1>1. ASSUME NEW j \in JobIds, Dispatch(j) PROVE TypeInv'
  <2> DEFINE b == [born EXCEPT ![j] = Cardinality({k \in JobIds : born[k] # 0}) + 1]
             st == EvictOldTerminal([status EXCEPT ![j] = "queued"], b)
  <2>1. MaybeStart(Append(jobQueue, j), st, runningCount, controllers, executing) /\ born' = b
    BY <1>1 DEF Dispatch
  <2>2. Append(jobQueue, j) \in Seq(JobIds)
    OBVIOUS
  <2>3. st \in [JobIds -> JobStatus]
    <3>1. [status EXCEPT ![j] = "queued"] \in [JobIds -> JobStatus]
      BY DEF JobStatus
    <3> QED
      BY <3>1, EvictTyped
  <2>4. b \in [JobIds -> Nat]
    <3>1. IsFiniteSet({k \in JobIds : born[k] # 0})
      BY JobAssumption, FS_Subset
    <3>2. Cardinality({k \in JobIds : born[k] # 0}) \in Nat
      BY <3>1, FS_CardinalityType
    <3> QED
      BY <3>2
  <2> HIDE DEF st, b
  <2>5. /\ jobQueue' \in Seq(JobIds) /\ status' \in [JobIds -> JobStatus]
        /\ runningCount' \in 0 .. MaxConcurrent
        /\ controllers' \in SUBSET JobIds /\ executing' \in SUBSET JobIds
    BY <1>0, <2>1, <2>2, <2>3, MaybeStartTyped
  <2> QED
    BY <1>0, <1>1, <2>1, <2>4, <2>5 DEF Dispatch
<1>2. ASSUME NEW j \in JobIds, CancelRunning(j) PROVE TypeInv'
  BY <1>2 DEF CancelRunning, JobStatus, Terminal
<1>3. ASSUME NEW j \in JobIds, CancelQueued(j) PROVE TypeInv'
  <2> DEFINE st == [status EXCEPT ![j] = "cancelled"]
  <2>1. MaybeStart(RemoveFirst(jobQueue, j), st, runningCount, controllers, executing)
    BY <1>3 DEF CancelQueued
  <2>2. RemoveFirst(jobQueue, j) \in Seq(JobIds)
    BY RemoveFirstTyped
  <2>3. st \in [JobIds -> JobStatus]
    BY DEF JobStatus, Terminal
  <2> HIDE DEF st
  <2>4. /\ jobQueue' \in Seq(JobIds) /\ status' \in [JobIds -> JobStatus]
        /\ runningCount' \in 0 .. MaxConcurrent
        /\ controllers' \in SUBSET JobIds /\ executing' \in SUBSET JobIds
    BY <1>0, <2>1, <2>2, <2>3, MaybeStartTyped
  <2>5. born' \in [JobIds -> Nat] /\ stopped' \in BOOLEAN /\ delivered' \in [JobIds -> Nat]
    BY <1>3 DEF CancelQueued
  <2> QED
    BY <1>0, <2>4, <2>5
<1>4. ASSUME NEW j \in JobIds, NEW result \in {"done", "failed", "timeout"}, Finish(j, result)
      PROVE  TypeInv'
  <2>1. CASE status[j] = "absent"
    BY <1>4, <2>1 DEF Finish
  <2>2. CASE status[j] # "absent"
    <3> DEFINE ended == IF status[j] = "cancelled" THEN status ELSE [status EXCEPT ![j] = result]
               st == EvictOldTerminal(ended, born)
               n == IF runningCount = 0 THEN 0 ELSE runningCount - 1
    <3>1. /\ MaybeStart(jobQueue, st, n, controllers \ {j}, executing \ {j})
          /\ delivered' = [delivered EXCEPT ![j] = @ + 1] /\ UNCHANGED <<born, stopped>>
      BY <1>4, <2>2 DEF Finish
    <3>2. st \in [JobIds -> JobStatus]
      <4>1. ended \in [JobIds -> JobStatus]
        BY DEF JobStatus, Terminal
      <4> QED
        BY <4>1, EvictTyped
    <3>3. n \in 0 .. MaxConcurrent
      BY <1>0
    <3> HIDE DEF st, n
    <3>4. /\ jobQueue' \in Seq(JobIds) /\ status' \in [JobIds -> JobStatus]
          /\ runningCount' \in 0 .. MaxConcurrent
          /\ controllers' \in SUBSET JobIds /\ executing' \in SUBSET JobIds
      <4>1. controllers \ {j} \in SUBSET JobIds /\ executing \ {j} \in SUBSET JobIds
        OBVIOUS
      <4> QED
        BY <3>1, <3>2, <3>3, <4>1, MaybeStartTyped
    <3>5. born' \in [JobIds -> Nat] /\ stopped' \in BOOLEAN /\ delivered' \in [JobIds -> Nat]
      BY <3>1
    <3> QED
      BY <1>0, <3>4, <3>5
  <2> QED
    BY <2>1, <2>2
<1>5. CASE StopJobs
  BY <1>5 DEF StopJobs
<1>6. CASE UNCHANGED jobVars
  BY <1>6 DEF jobVars
<1> QED
  BY <1>1, <1>2, <1>3, <1>4, <1>5, <1>6 DEF JobsNext, Settles

--------------------------------------------------------------------------------
\* maybeStart fills free slots and no more.
LEMMA MaybeStartFits ==
  ASSUME NEW q \in Seq(JobIds), NEW st, NEW n \in 0 .. MaxConcurrent,
         NEW cs, NEW runs, IsFiniteSet(runs), Cardinality(runs) <= n,
         MaybeStart(q, st, n, cs, runs)
  PROVE  Cardinality(executing') <= runningCount'
<1> DEFINE starts == Starts(q, st, n)
<1>1. runningCount' = n + Cardinality(starts) /\ executing' = runs \cup starts
  BY DEF MaybeStart, Starts
<1>2. IsFiniteSet(starts) /\ Cardinality(starts) \in Nat
  BY StartsBounded
<1> HIDE DEF starts
<1>3. Cardinality(runs \cup starts) = Cardinality(runs) + Cardinality(starts)
                                        - Cardinality(runs \cap starts)
  BY <1>2, FS_Union
<1>4. Cardinality(runs) \in Nat /\ Cardinality(runs \cap starts) \in Nat
  BY FS_CardinalityType, FS_Intersection
<1> QED
  BY <1>1, <1>2, <1>3, <1>4

LEMMA FitsStep == TypeInv /\ RunsFitSlots /\ [JobsNext]_jobVars => RunsFitSlots'
<1> SUFFICES ASSUME TypeInv, RunsFitSlots, [JobsNext]_jobVars
             PROVE  Cardinality(executing') <= runningCount'
  BY TypeStep DEF RunsFitSlots, TypeInv
<1>0. /\ runningCount \in 0 .. MaxConcurrent /\ Cardinality(executing) <= runningCount
      /\ executing \in SUBSET JobIds /\ jobQueue \in Seq(JobIds)
      /\ IsFiniteSet(executing) /\ Cardinality(executing) \in Nat
  BY JobAssumption, FS_Subset, FS_CardinalityType DEF TypeInv, JobTypeOK, RunsFitSlots
<1>1. ASSUME NEW j \in JobIds, Dispatch(j) PROVE Cardinality(executing') <= runningCount'
  <2>1. \E st : MaybeStart(Append(jobQueue, j), st, runningCount, controllers, executing)
    BY <1>1 DEF Dispatch
  <2>2. Append(jobQueue, j) \in Seq(JobIds)
    BY <1>0
  <2> QED
    BY <1>0, <2>1, <2>2, MaybeStartFits
<1>2. ASSUME NEW j \in JobIds, CancelQueued(j) PROVE Cardinality(executing') <= runningCount'
  <2>1. \E st : MaybeStart(RemoveFirst(jobQueue, j), st, runningCount, controllers, executing)
    BY <1>2 DEF CancelQueued
  <2> QED
    BY <1>0, <2>1, RemoveFirstTyped, MaybeStartFits
<1>3. ASSUME NEW j \in JobIds, NEW result \in {"done", "failed", "timeout"}, Finish(j, result)
      PROVE  Cardinality(executing') <= runningCount'
  <2>1. /\ IsFiniteSet(executing \ {j})
        /\ Cardinality(executing \ {j}) = Cardinality(executing) - 1
    BY <1>0, <1>3, FS_RemoveElement DEF Finish
  <2>2. Cardinality(executing) - 1 <= runningCount - 1 /\ runningCount # 0
    BY <1>0, <2>1, FS_CardinalityType
  <2>3. CASE status[j] = "absent"
    <3>1. executing' = executing \ {j} /\ runningCount' = runningCount
      BY <1>3, <2>3 DEF Finish
    <3> QED
      BY <1>0, <2>1, <2>2, <3>1
  <2>4. CASE status[j] # "absent"
    <3>1. \E st : MaybeStart(jobQueue, st, runningCount - 1, controllers \ {j}, executing \ {j})
      BY <1>3, <2>2, <2>4 DEF Finish
    <3>2. runningCount - 1 \in 0 .. MaxConcurrent
      BY <1>0, <2>2, JobAssumption
    <3> QED
      BY <1>0, <2>1, <2>2, <3>1, <3>2, MaybeStartFits
  <2> QED
    BY <2>3, <2>4
<1>4. ASSUME NEW j \in JobIds, CancelRunning(j) PROVE Cardinality(executing') <= runningCount'
  BY <1>0, <1>4 DEF CancelRunning
<1>5. CASE StopJobs
  BY <1>0, <1>5 DEF StopJobs
<1>6. CASE UNCHANGED jobVars
  BY <1>0, <1>6 DEF jobVars
<1> QED
  BY <1>1, <1>2, <1>3, <1>4, <1>5, <1>6 DEF JobsNext, Settles

--------------------------------------------------------------------------------
\* A job that was never dispatched has no run and no answer, one that runs is
\* recorded as running unless it was cancelled or evicted since, and a dispatcher
\* hears of its job when neither the queue nor a run holds it any more.
JobLife(j) ==
  /\ born[j] = 0 => status[j] = "absent" /\ j \notin executing /\ delivered[j] = 0
  /\ j \in executing => status[j] \in {"running", "cancelled", "absent"}
  /\ status[j] = "running" => j \in executing
  /\ delivered[j] <= 1
  /\ status[j] \in Terminal /\ j \notin executing => delivered[j] = 1
  /\ j \in executing \/ status[j] = "queued" => delivered[j] = 0

LifeInv == \A j \in JobIds : JobLife(j)

\* maybeStart starts a job it was handed as queued, or leaves it as it was handed.
LEMMA MaybeStartEach ==
  ASSUME NEW q \in Seq(JobIds), NEW st, NEW n \in 0 .. MaxConcurrent, NEW cs, NEW runs,
         MaybeStart(q, st, n, cs, runs), NEW j \in JobIds
  PROVE  \/ status'[j] = st[j] /\ (j \in executing' <=> j \in runs)
         \/ st[j] = "queued" /\ status'[j] = "running" /\ j \in executing'
<1> DEFINE starts == Starts(q, st, n)
<1>1. /\ status' = [k \in JobIds |-> IF k \in starts THEN "running" ELSE st[k]]
      /\ executing' = runs \cup starts
  BY DEF MaybeStart, Starts
<1>2. \A k \in starts : st[k] = "queued"
  BY StartsBounded
<1> HIDE DEF starts
<1> QED
  BY <1>1, <1>2

LEMMA LifeStep == TypeInv /\ LifeInv /\ [JobsNext]_jobVars => LifeInv'
<1> SUFFICES ASSUME TypeInv, LifeInv, [JobsNext]_jobVars PROVE LifeInv'
  OBVIOUS
<1>0. /\ runningCount \in 0 .. MaxConcurrent /\ jobQueue \in Seq(JobIds)
      /\ born \in [JobIds -> Nat] /\ status \in [JobIds -> JobStatus]
      /\ delivered \in [JobIds -> Nat]
  BY JobAssumption DEF TypeInv, JobTypeOK
<1>1. ASSUME NEW j \in JobIds, Dispatch(j), NEW k \in JobIds PROVE JobLife(k)'
  <2> DEFINE b == [born EXCEPT ![j] = Cardinality({i \in JobIds : born[i] # 0}) + 1]
             st == EvictOldTerminal([status EXCEPT ![j] = "queued"], b)
  <2>1. /\ MaybeStart(Append(jobQueue, j), st, runningCount, controllers, executing)
        /\ born' = b /\ born[j] = 0 /\ delivered' = delivered
    BY <1>1 DEF Dispatch
  <2>2. b[j] # 0 /\ (k # j => b[k] = born[k])
    <3>1. Cardinality({i \in JobIds : born[i] # 0}) \in Nat
      BY JobAssumption, FS_Subset, FS_CardinalityType
    <3> QED
      BY <1>0, <3>1
  <2>3. /\ st[j] = "queued"
        /\ k # j => st[k] = status[k] \/ (status[k] \in Terminal /\ st[k] = "absent")
    <3>1. [status EXCEPT ![j] = "queued"] \in [JobIds -> JobStatus]
      BY <1>0 DEF JobStatus
    <3>2. "queued" \notin Terminal
      BY DEF Terminal
    <3> DEFINE queued == [status EXCEPT ![j] = "queued"]
    <3>3. /\ queued \in [JobIds -> JobStatus] /\ st = EvictOldTerminal(queued, b)
          /\ queued[j] = "queued" /\ (k # j => queued[k] = status[k])
      BY <1>0, <3>1
    <3> HIDE DEF st, queued
    <3> QED
      BY <3>2, <3>3, EvictTyped
  <2> HIDE DEF b, st
  <2>4. Append(jobQueue, j) \in Seq(JobIds)
    BY <1>0
  <2>5. \/ status'[k] = st[k] /\ (k \in executing' <=> k \in executing)
        \/ st[k] = "queued" /\ status'[k] = "running" /\ k \in executing'
    BY <1>0, <2>1, <2>4, MaybeStartEach
  <2>6. JobLife(k)
    BY DEF LifeInv
  <2> QED
    BY <2>1, <2>2, <2>3, <2>5, <2>6 DEF JobLife, Terminal
<1>2. ASSUME NEW j \in JobIds, CancelRunning(j), NEW k \in JobIds PROVE JobLife(k)'
  BY <1>0, <1>2 DEF CancelRunning, LifeInv, JobLife, Terminal
<1>3. ASSUME NEW j \in JobIds, CancelQueued(j), NEW k \in JobIds PROVE JobLife(k)'
  <2> DEFINE st == [status EXCEPT ![j] = "cancelled"]
  <2>1. /\ MaybeStart(RemoveFirst(jobQueue, j), st, runningCount, controllers, executing)
        /\ born' = born /\ delivered' = [delivered EXCEPT ![j] = @ + 1] /\ status[j] = "queued"
    BY <1>3 DEF CancelQueued
  <2>2. st[k] = IF k = j THEN "cancelled" ELSE status[k]
    BY <1>0
  <2> HIDE DEF st
  <2>3. \/ status'[k] = st[k] /\ (k \in executing' <=> k \in executing)
        \/ st[k] = "queued" /\ status'[k] = "running" /\ k \in executing'
    BY <1>0, <2>1, RemoveFirstTyped, MaybeStartEach
  <2>4. JobLife(k)
    BY DEF LifeInv
  <2> QED
    BY <1>0, <2>1, <2>2, <2>3, <2>4 DEF JobLife, Terminal
<1>4. ASSUME NEW j \in JobIds, NEW result \in {"done", "failed", "timeout"}, Finish(j, result),
             NEW k \in JobIds
      PROVE  JobLife(k)'
  <2>1. JobLife(k) /\ j \in executing
    BY <1>4 DEF LifeInv, Finish
  <2>2. CASE status[j] = "absent"
    BY <1>0, <1>4, <2>1, <2>2 DEF Finish, JobLife, Terminal
  <2>3. CASE status[j] # "absent"
    <3> DEFINE ended == IF status[j] = "cancelled" THEN status ELSE [status EXCEPT ![j] = result]
               st == EvictOldTerminal(ended, born)
               n == IF runningCount = 0 THEN 0 ELSE runningCount - 1
    <3>1. /\ MaybeStart(jobQueue, st, n, controllers \ {j}, executing \ {j})
          /\ delivered' = [delivered EXCEPT ![j] = @ + 1] /\ born' = born
      BY <1>4, <2>3 DEF Finish
    <3>2. /\ st[j] \in Terminal \cup {"absent"}
          /\ k # j => st[k] = status[k] \/ (status[k] \in Terminal /\ st[k] = "absent")
      <4>1. ended \in [JobIds -> JobStatus]
        BY <1>0 DEF JobStatus, Terminal
      <4>2. ended[j] \in Terminal /\ (k # j => ended[k] = status[k])
        BY <1>0 DEF Terminal
      <4> HIDE DEF ended
      <4> QED
        BY <4>1, <4>2, EvictTyped
    <3>3. n \in 0 .. MaxConcurrent
      BY <1>0, JobAssumption
    <3> HIDE DEF st, n
    <3>4. \/ status'[k] = st[k] /\ (k \in executing' <=> k \in executing \ {j})
          \/ st[k] = "queued" /\ status'[k] = "running" /\ k \in executing'
      <4> DEFINE cs == controllers \ {j}
                 runs == executing \ {j}
      <4>1. MaybeStart(jobQueue, st, n, cs, runs)
        BY <3>1
      <4> HIDE DEF cs, runs
      <4>2. \/ status'[k] = st[k] /\ (k \in executing' <=> k \in runs)
            \/ st[k] = "queued" /\ status'[k] = "running" /\ k \in executing'
        BY <1>0, <3>3, <4>1, MaybeStartEach
      <4> QED
        BY <4>2 DEF runs
    <3> QED
      BY <1>0, <2>1, <3>1, <3>2, <3>4 DEF JobLife, Terminal
  <2> QED
    BY <2>2, <2>3
<1>5. CASE StopJobs
  BY <1>5 DEF StopJobs, LifeInv, JobLife
<1>6. CASE UNCHANGED jobVars
  BY <1>6 DEF jobVars, LifeInv, JobLife
<1> QED
  BY <1>1, <1>2, <1>3, <1>4, <1>5, <1>6 DEF JobsNext, Settles, LifeInv

--------------------------------------------------------------------------------
\* The queue q holds the jobs that st has as queued, each once.
Waiting(q, st) ==
  /\ IsInjective(q)
  /\ \A j \in JobIds : st[j] = "queued" <=> j \in ToSet(q)

WaitInv ==
  ~stopped => Waiting(jobQueue, status) /\ (jobQueue # <<>> => runningCount = MaxConcurrent)

\* Of such a queue maybeStart takes the first jobs, as many as there are slots.
LEMMA StartsFirst ==
  ASSUME NEW q \in Seq(JobIds), NEW st, Waiting(q, st), NEW n \in 0 .. MaxConcurrent
  PROVE  \E t \in 0 .. Len(q) :
           /\ StartedAt(q, st, n) = 1 .. t
           /\ StillQueued(q, st, n) = SubSeq(q, t + 1, Len(q))
           /\ t <= MaxConcurrent - n
           /\ t < Len(q) => t = MaxConcurrent - n
<1> DEFINE m == MaxConcurrent - n
           len == Len(q)
           t == IF len < m THEN len ELSE m
           places == StartedAt(q, st, n)
<1>1. m \in Nat /\ len \in Nat /\ DOMAIN q = 1 .. len
  BY JobAssumption
<1>2. t \in 0 .. len /\ t <= m /\ (t < len => t = m)
  BY <1>1
<1>3. Startable(q, st) = 1 .. len
  <2>1. \A i \in 1 .. len : q[i] \in JobIds /\ q[i] \in ToSet(q)
    BY <1>1 DEF ToSet
  <2> QED
    BY <1>1, <2>1 DEF Startable, Waiting
<1> HIDE DEF m, len
<1>4. places = 1 .. t
  <2>1. ASSUME NEW i \in 1 .. len PROVE Cardinality({k \in 1 .. len : k <= i}) = i
    <3>1. {k \in 1 .. len : k <= i} = 1 .. i
      BY <1>1
    <3>2. Cardinality(1 .. i) = i
      BY <1>1, PlacesUpTo
    <3> QED
      BY <3>1, <3>2
  <2>2. places = {i \in 1 .. len : Cardinality({k \in 1 .. len : k <= i}) <= m}
    BY <1>3 DEF StartedAt, m
  <2>3. places = {i \in 1 .. len : i <= m}
    BY <2>1, <2>2
  <2> QED
    BY <1>1, <2>3
<1> HIDE DEF places
<1>5. Cardinality(places) = t
  <2>1. t \in Nat
    BY <1>1, <1>2
  <2> HIDE DEF t
  <2> QED
    BY <1>4, <2>1, PlacesUpTo
<1> DEFINE last == CHOOSE i \in DOMAIN q \cup {0} :
                     IF places = {} THEN i = 0 ELSE i \in places /\ \A k \in places : k <= i
           taken == IF Cardinality(places) < m THEN len ELSE last
<1>6. last = t
  <2>1. /\ t \in DOMAIN q \cup {0}
        /\ IF places = {} THEN t = 0 ELSE t \in places /\ \A k \in places : k <= t
    BY <1>1, <1>2, <1>4
  <2>2. ASSUME NEW i \in DOMAIN q \cup {0},
               IF places = {} THEN i = 0 ELSE i \in places /\ \A k \in places : k <= i
        PROVE  i = t
    BY <1>1, <1>2, <1>4, <2>1, <2>2
  <2> QED
    BY <2>1, <2>2
<1> HIDE DEF last
<1>7. taken = t
  BY <1>1, <1>2, <1>5, <1>6
<1>8. StillQueued(q, st, n) = SubSeq(q, taken + 1, Len(q))
  BY DEF StillQueued, places, m, len, last
<1> HIDE DEF taken
<1> QED
  BY <1>2, <1>4, <1>7, <1>8 DEF places, m, len

\* So maybeStart leaves a queue only with every slot taken, and the queue is right.
LEMMA MaybeStartWaits ==
  ASSUME NEW q \in Seq(JobIds), NEW st, Waiting(q, st), NEW n \in 0 .. MaxConcurrent,
         NEW cs, NEW runs, MaybeStart(q, st, n, cs, runs), ~stopped
  PROVE  /\ Waiting(jobQueue', status')
         /\ jobQueue' # <<>> => runningCount' = MaxConcurrent
<1>1. PICK t \in 0 .. Len(q) :
           /\ StartedAt(q, st, n) = 1 .. t
           /\ StillQueued(q, st, n) = SubSeq(q, t + 1, Len(q))
           /\ t <= MaxConcurrent - n
           /\ t < Len(q) => t = MaxConcurrent - n
  BY StartsFirst
<1> DEFINE starts == {q[i] : i \in 1 .. t}
           r == SubSeq(q, t + 1, Len(q))
<1>2. /\ jobQueue' = r
      /\ status' = [j \in JobIds |-> IF j \in starts THEN "running" ELSE st[j]]
      /\ runningCount' = n + Cardinality(starts)
  BY <1>1 DEF MaybeStart
<1>0. /\ Len(q) \in Nat /\ MaxConcurrent \in Nat /\ DOMAIN q = 1 .. Len(q)
      /\ t \in Nat /\ t <= Len(q) /\ n \in Nat
  BY JobAssumption
<1>3. \A i, k \in 1 .. Len(q) : q[i] = q[k] => i = k
  BY <1>0 DEF Waiting, IsInjective
<1>4. /\ r \in Seq(JobIds) /\ Len(r) = Len(q) - t /\ DOMAIN r = 1 .. Len(q) - t
      /\ \A i \in 1 .. Len(q) - t : r[i] = q[t + i]
  <2>1. r \in Seq(JobIds) /\ Len(r) = Len(q) - t
    <3>1. t + 1 \in 1 .. Len(q) + 1 /\ Len(q) \in t .. Len(q)
      BY <1>0
    <3>2. r \in Seq(JobIds) /\ Len(r) = IF t + 1 <= Len(q) THEN Len(q) - (t + 1) + 1 ELSE 0
      BY <1>0, <3>1, SubSeqProperties
    <3> DEFINE len == Len(q)
    <3>3. (IF t + 1 <= len THEN len - (t + 1) + 1 ELSE 0) = len - t
      <4>1. len \in Nat /\ t \in Nat /\ t <= len
        BY <1>0
      <4> HIDE DEF len
      <4> QED
        BY <4>1
    <3> HIDE DEF r
    <3> QED
      BY <3>2, <3>3
  <2>2. \A i \in 1 .. Len(q) - t : r[i] = q[t + i]
    BY <1>0
  <2> HIDE DEF r
  <2> QED
    BY <2>1, <2>2
<1>5. Cardinality(starts) = t
  <2> DEFINE f == [i \in 1 .. t |-> q[i]]
  <2>1. f \in Bijection(1 .. t, starts)
    <3>1. f \in [1 .. t -> starts] /\ \A x \in starts : \E i \in 1 .. t : f[i] = x
      OBVIOUS
    <3>2. \A i, k \in 1 .. t : f[i] = f[k] => i = k
      <4>1. 1 .. t \subseteq 1 .. Len(q) /\ \A i \in 1 .. t : f[i] = q[i]
        BY <1>0
      <4> QED
        BY <1>3, <4>1
    <3> HIDE DEF f, starts
    <3> QED
      BY <3>1, <3>2 DEF Bijection, Injection, Surjection, IsInjective
  <2>2. IsFiniteSet(1 .. t) /\ Cardinality(1 .. t) = t
    BY <1>0, PlacesUpTo
  <2> HIDE DEF f, starts
  <2> QED
    BY <2>1, <2>2, FS_Bijection DEF ExistsBijection
<1> HIDE DEF r
<1>6. IsInjective(r)
  BY <1>0, <1>3, <1>4 DEF IsInjective
<1>7. ToSet(r) = ToSet(q) \ starts
  <2>1. \A y \in ToSet(r) : y \in ToSet(q) /\ y \notin starts
    <3> SUFFICES ASSUME NEW i \in 1 .. Len(q) - t PROVE r[i] \in ToSet(q) /\ r[i] \notin starts
      BY <1>4 DEF ToSet
    <3>1. t + i \in 1 .. Len(q) /\ t + i > t /\ r[i] = q[t + i]
      BY <1>0, <1>4
    <3>2. \A k \in 1 .. t : q[k] # q[t + i]
      BY <1>0, <1>3, <3>1
    <3> QED
      BY <1>0, <3>1, <3>2 DEF ToSet
  <2>2. \A y \in ToSet(q) : y \notin starts => y \in ToSet(r)
    <3> SUFFICES ASSUME NEW i \in 1 .. Len(q), q[i] \notin starts PROVE q[i] \in ToSet(r)
      BY <1>0 DEF ToSet
    <3>1. ~(i <= t)
      BY <1>0
    <3>2. i - t \in 1 .. Len(q) - t /\ t + (i - t) = i
      BY <1>0, <3>1
    <3> QED
      BY <1>4, <3>2 DEF ToSet
  <2> QED
    BY <2>1, <2>2
<1>8. \A j \in JobIds : status'[j] = IF j \in starts THEN "running" ELSE st[j]
  BY <1>2
<1> HIDE DEF starts
<1>9. Waiting(jobQueue', status')
  BY <1>2, <1>6, <1>7, <1>8 DEF Waiting
<1>10. ASSUME jobQueue' # <<>> PROVE runningCount' = MaxConcurrent
  <2>1. Len(r) # 0
    BY <1>2, <1>4, <1>10
  <2> QED
    <3> DEFINE len == Len(q)
    <3>1. Len(r) = len - t /\ len \in Nat /\ t \in Nat /\ t <= len
      BY <1>0, <1>4
    <3>2. t < Len(q) => t = MaxConcurrent - n
      BY <1>1
    <3> HIDE DEF r
    <3>3. t < len
      <4> HIDE DEF len
      <4> QED
        BY <2>1, <3>1
    <3>4. t = MaxConcurrent - n
      BY <3>2, <3>3
    <3> QED
      BY <1>0, <1>2, <1>5, <3>4
<1> QED
  BY <1>9, <1>10

LEMMA WaitStep == TypeInv /\ LifeInv /\ WaitInv /\ [JobsNext]_jobVars => WaitInv'
<1> SUFFICES ASSUME TypeInv, LifeInv, WaitInv, [JobsNext]_jobVars, ~stopped' PROVE
               /\ Waiting(jobQueue', status')
               /\ jobQueue' # <<>> => runningCount' = MaxConcurrent
  BY DEF WaitInv
<1>0. /\ runningCount \in 0 .. MaxConcurrent /\ jobQueue \in Seq(JobIds)
      /\ born \in [JobIds -> Nat] /\ status \in [JobIds -> JobStatus]
  BY JobAssumption DEF TypeInv, JobTypeOK
<1>a. ~stopped
  BY DEF JobsNext, Dispatch, CancelRunning, CancelQueued, Settles, Finish, StopJobs, jobVars
<1>b. Waiting(jobQueue, status) /\ (jobQueue # <<>> => runningCount = MaxConcurrent)
  BY <1>a DEF WaitInv
<1>1. ASSUME NEW j \in JobIds, Dispatch(j)
      PROVE  /\ Waiting(jobQueue', status')
             /\ jobQueue' # <<>> => runningCount' = MaxConcurrent
  <2> DEFINE b == [born EXCEPT ![j] = Cardinality({i \in JobIds : born[i] # 0}) + 1]
             queued == [status EXCEPT ![j] = "queued"]
             st == EvictOldTerminal(queued, b)
             q == Append(jobQueue, j)
  <2>1. MaybeStart(q, st, runningCount, controllers, executing) /\ born[j] = 0
    BY <1>1 DEF Dispatch
  <2>2. status[j] = "absent" /\ j \notin ToSet(jobQueue)
    BY <1>b, <2>1 DEF LifeInv, JobLife, Waiting
  <2>3. q \in Seq(JobIds) /\ IsInjective(q) /\ ToSet(q) = ToSet(jobQueue) \cup {j}
    BY <1>0, <1>b, <2>2, AppendNew DEF Waiting
  <2>4. \A k \in JobIds : st[k] = "queued" <=> k = j \/ status[k] = "queued"
    <3>1. queued \in [JobIds -> JobStatus] /\ \A k \in JobIds : queued[k] = IF k = j THEN "queued" ELSE status[k]
      BY <1>0 DEF JobStatus
    <3> HIDE DEF queued
    <3>2. \A k \in JobIds : \/ st[k] = queued[k]
                            \/ queued[k] \in Terminal /\ st[k] = "absent"
      BY <3>1, EvictTyped
    <3> HIDE DEF st
    <3> QED
      BY <3>1, <3>2 DEF Terminal
  <2>5. Waiting(q, st)
    BY <1>b, <2>3, <2>4 DEF Waiting
  <2> HIDE DEF q, st
  <2> QED
    BY <1>0, <1>a, <2>1, <2>3, <2>5, MaybeStartWaits
<1>2. ASSUME NEW j \in JobIds, CancelRunning(j)
      PROVE  /\ Waiting(jobQueue', status')
             /\ jobQueue' # <<>> => runningCount' = MaxConcurrent
  <2>1. /\ UNCHANGED <<jobQueue, runningCount>> /\ status[j] = "running"
        /\ \A k \in JobIds : status'[k] = IF k = j THEN "cancelled" ELSE status[k]
    BY <1>0, <1>2 DEF CancelRunning
  <2> QED
    BY <1>b, <2>1 DEF Waiting
<1>3. ASSUME NEW j \in JobIds, CancelQueued(j)
      PROVE  /\ Waiting(jobQueue', status')
             /\ jobQueue' # <<>> => runningCount' = MaxConcurrent
  <2> DEFINE st == [status EXCEPT ![j] = "cancelled"]
             q == RemoveFirst(jobQueue, j)
  <2>1. MaybeStart(q, st, runningCount, controllers, executing)
    BY <1>3 DEF CancelQueued
  <2>2. q \in Seq(JobIds) /\ IsInjective(q) /\ ToSet(q) = ToSet(jobQueue) \ {j}
    BY <1>0, <1>b, RemoveFirstOfOnce DEF Waiting
  <2>3. \A k \in JobIds : st[k] = IF k = j THEN "cancelled" ELSE status[k]
    BY <1>0
  <2> HIDE DEF q, st
  <2>4. Waiting(q, st)
    BY <1>b, <2>2, <2>3 DEF Waiting
  <2> QED
    BY <1>0, <1>a, <2>1, <2>2, <2>4, MaybeStartWaits
<1>4. ASSUME NEW j \in JobIds, NEW result \in {"done", "failed", "timeout"}, Finish(j, result)
      PROVE  /\ Waiting(jobQueue', status')
             /\ jobQueue' # <<>> => runningCount' = MaxConcurrent
  <2>1. CASE status[j] = "absent"
    BY <1>4, <1>b, <2>1 DEF Finish
  <2>2. CASE status[j] # "absent"
    <3> DEFINE ended == IF status[j] = "cancelled" THEN status ELSE [status EXCEPT ![j] = result]
               st == EvictOldTerminal(ended, born)
               n == IF runningCount = 0 THEN 0 ELSE runningCount - 1
               cs == controllers \ {j}
               runs == executing \ {j}
    <3>1. MaybeStart(jobQueue, st, n, cs, runs)
      BY <1>4, <2>2 DEF Finish
    <3>2. status[j] # "queued"
      BY <1>4 DEF Finish, LifeInv, JobLife
    <3>3. \A k \in JobIds : st[k] = "queued" <=> status[k] = "queued"
      <4>1. ended \in [JobIds -> JobStatus]
        BY <1>0 DEF JobStatus, Terminal
      <4>2. \A k \in JobIds : ended[k] = "queued" <=> status[k] = "queued"
        BY <1>0, <3>2
      <4> HIDE DEF ended
      <4>3. \A k \in JobIds : \/ st[k] = ended[k]
                              \/ ended[k] \in Terminal /\ st[k] = "absent"
        BY <4>1, EvictTyped
      <4> HIDE DEF st
      <4> QED
        BY <4>2, <4>3 DEF Terminal
    <3>4. n \in 0 .. MaxConcurrent
      BY <1>0, JobAssumption
    <3> HIDE DEF st, n, cs, runs
    <3>5. Waiting(jobQueue, st)
      BY <1>b, <3>3 DEF Waiting
    <3> QED
      BY <1>0, <1>a, <3>1, <3>4, <3>5, MaybeStartWaits
  <2> QED
    BY <2>1, <2>2
<1>5. CASE StopJobs
  BY <1>5 DEF StopJobs
<1>6. CASE UNCHANGED jobVars
  BY <1>6, <1>b DEF jobVars
<1> QED
  BY <1>1, <1>2, <1>3, <1>4, <1>5, <1>6 DEF JobsNext, Settles

LEMMA WaitInvIsFull == TypeInv /\ WaitInv => WaitsOnlyWhenFull
<1> SUFFICES ASSUME TypeInv, WaitInv, ~stopped
             PROVE  /\ jobQueue # <<>> => runningCount = MaxConcurrent
                    /\ \A j \in JobIds : status[j] = "queued" =>
                         Cardinality({i \in DOMAIN jobQueue : jobQueue[i] = j}) = 1
                    /\ \A i \in DOMAIN jobQueue : status[jobQueue[i]] = "queued"
  BY DEF WaitsOnlyWhenFull
<1>1. Waiting(jobQueue, status) /\ (jobQueue # <<>> => runningCount = MaxConcurrent)
  BY DEF WaitInv
<1>2. ASSUME NEW j \in JobIds, status[j] = "queued"
      PROVE  Cardinality({i \in DOMAIN jobQueue : jobQueue[i] = j}) = 1
  <2>1. PICK p \in DOMAIN jobQueue : jobQueue[p] = j
    BY <1>1, <1>2 DEF Waiting, ToSet
  <2>2. {i \in DOMAIN jobQueue : jobQueue[i] = j} = {p}
    BY <1>1, <2>1 DEF Waiting, IsInjective
  <2> QED
    BY <2>2, FS_Singleton
<1>3. ASSUME NEW i \in DOMAIN jobQueue PROVE status[jobQueue[i]] = "queued"
  <2>1. jobQueue[i] \in JobIds /\ jobQueue[i] \in ToSet(jobQueue)
    BY DEF TypeInv, JobTypeOK, ToSet
  <2> QED
    BY <1>1, <2>1 DEF Waiting
<1> QED
  BY <1>1, <1>2, <1>3

--------------------------------------------------------------------------------
LEMMA JobsInvInit == JobsInit => TypeInv /\ RunsFitSlots /\ LifeInv /\ WaitInv
<1>1. JobsInit => RunsFitSlots
  BY JobAssumption, FS_EmptySet DEF JobsInit, RunsFitSlots
<1>2. JobsInit => LifeInv
  BY DEF JobsInit, LifeInv, JobLife, Terminal
<1>3. JobsInit => WaitInv
  BY DEF JobsInit, WaitInv, Waiting, IsInjective, ToSet
<1> QED
  BY <1>1, <1>2, <1>3, TypeInit

LEMMA JobsInvAlways == JobsSpec => [](TypeInv /\ RunsFitSlots /\ LifeInv /\ WaitInv)
<1>1. TypeInv /\ RunsFitSlots /\ LifeInv /\ WaitInv /\ [JobsNext]_jobVars
        => (TypeInv /\ RunsFitSlots /\ LifeInv /\ WaitInv)'
  BY TypeStep, FitsStep, LifeStep, WaitStep
<1> QED
  BY <1>1, JobsInvInit, PTL DEF JobsSpec

\* Every state of the job runner is well typed, whatever the jobs and the caps.
THEOREM JobTypes == JobsSpec => []JobTypeOK
<1>1. TypeInv => JobTypeOK
  BY DEF TypeInv
<1> QED
  BY <1>1, JobsInvAlways, PTL

\* However dispatches, cancels and late settlements interleave, no more headless
\* runs are alive than maxConcurrent, a cancelled one that has not settled included.
THEOREM RunsFit == JobsSpec => []RunsFitSlots
BY JobsInvAlways, PTL

\* Dispatches, cancels and late settlements leave a job waiting only while every slot
\* is taken, and no id in the queue that would not start.
THEOREM JobsWaitOnlyWhenFull == JobsSpec => []WaitsOnlyWhenFull
BY JobsInvAlways, WaitInvIsFull, PTL

\* A dispatcher is answered once for each of its jobs, by the cancel or by the run.
THEOREM JobHeardOnce == JobsSpec => []HeardOnce
<1>1. LifeInv => HeardOnce
  BY DEF LifeInv, JobLife, HeardOnce
<1> QED
  BY <1>1, JobsInvAlways, PTL

--------------------------------------------------------------------------------
(* TelegramOutbox *)

Took(g, m, n) == 1 .. n \subseteq ToSet(g[m])

\* The chunks g that Telegram took are chunks of their messages, in order.
InOrder(w, g) ==
  /\ \A m \in Msgs : ToSet(g[m]) \subseteq 1 .. w[m]
  /\ \A m \in Msgs : \A i \in DOMAIN g[m] : \A c \in 1 .. g[m][i] - 1 : \E k \in 1 .. i : g[m][k] = c

\* What is left of m, in the queue or in the drain's hand p.
Remains(b, w, g, p, cl, m) ==
  In(b, m) \/ p.hand = m =>
    /\ cl[m] = "done"
    /\ b.of[m].left # 0 /\ b.of[m].left <= w[m]
    /\ Took(g, m, w[m] - b.of[m].left)

\* The chunks the deliver call of m has sent; until it is over Telegram has no other,
\* and nothing was cut.
SentSoFar(s, w, g, cl, m) ==
  /\ s[m] <= w[m]
  /\ cl[m] # "done" => s[m] < w[m] /\ w[m] = ChunksOf[m] /\ ToSet(g[m]) \subseteq 1 .. s[m]
  /\ Took(g, m, s[m])

SavedAsHeld(b, d) == d.order = b.order /\ \A m \in Msgs : d.of[m].left = b.of[m].left

QueuedOnce(b, cl) == IsInjective(b.order) /\ \A m \in Msgs : In(b, m) => cl[m] = "done"

InHand(p, s) ==
  /\ p.hand # NoMsg => p.on /\ p.hand \in p.todo
  /\ s # NoMsg => s = p.hand

LateInTurn(l, w, g, cl) ==
  \A x \in l : x[2] \in 1 .. w[x[1]] /\ Took(g, x[1], x[2] - 1) /\ cl[x[1]] = "done"

Covered(m) ==
  call[m] = "done" =>
    \/ m \in gone
    \/ ToSet(got[m]) = 1 .. whole[m]
    \/ In(box, m)

OutboxInv ==
  /\ OutboxTypeOK
  /\ SavedAsHeld(box, disk)
  /\ QueuedOnce(box, call)
  /\ InHand(pass, sending)
  /\ InOrder(whole, got)
  /\ LateInTurn(late, whole, got, call)
  /\ \A m \in Msgs : Remains(box, whole, got, pass, call, m) /\ SentSoFar(sent, whole, got, call, m) /\ Covered(m)

Entries == [left : Nat, tries : Nat, due : BOOLEAN, held : BOOLEAN]

PassRecords == [on : BOOLEAN, todo : SUBSET Msgs, hand : Msgs \cup {NoMsg},
           failed : SUBSET {ChatOf[m] : m \in Msgs}, quiet : BOOLEAN]

Grown(g, h) == \A m \in Msgs : ToSet(g[m]) \subseteq ToSet(h[m])

--------------------------------------------------------------------------------
\* Telegram takes a chunk whose predecessors it has.
LEMMA TakesChunk ==
  ASSUME NEW w \in [Msgs -> Nat], NEW g \in [Msgs -> Seq(Nat)], InOrder(w, g), NEW m \in Msgs,
         NEW c \in 1 .. w[m], Took(g, m, c - 1)
  PROVE  LET h == [g EXCEPT ![m] = Append(@, c)]
         IN  /\ h \in [Msgs -> Seq(Nat)] /\ InOrder(w, h) /\ Grown(g, h)
             /\ ToSet(h[m]) = ToSet(g[m]) \cup {c}
             /\ \A x \in Msgs : x # m => h[x] = g[x]
<1> DEFINE h == [g EXCEPT ![m] = Append(@, c)]
           q == g[m]
<1>1. w[m] \in Nat /\ c \in Nat /\ q \in Seq(Nat)
  OBVIOUS
<1>2. h[m] = Append(q, c) /\ (\A x \in Msgs : x # m => h[x] = g[x]) /\ DOMAIN h = Msgs
  OBVIOUS
<1>3. Append(q, c) \in Seq(Nat) /\ ToSet(Append(q, c)) = ToSet(q) \cup {c}
  BY <1>1, AppendNew
<1>4. h \in [Msgs -> Seq(Nat)]
  BY <1>1, <1>3
<1>5. /\ DOMAIN q = 1 .. Len(q) /\ Len(q) \in Nat /\ DOMAIN Append(q, c) = 1 .. Len(q) + 1
      /\ Append(q, c)[Len(q) + 1] = c /\ \A i \in 1 .. Len(q) : Append(q, c)[i] = q[i]
  BY <1>1
<1>a. /\ \A i \in DOMAIN q : \A d \in 1 .. q[i] - 1 : \E k \in 1 .. i : q[k] = d
      /\ ToSet(q) \subseteq 1 .. w[m]
  BY DEF InOrder
<1>b. /\ \A x \in Msgs : \A i \in DOMAIN g[x] : \A d \in 1 .. g[x][i] - 1 : \E k \in 1 .. i : g[x][k] = d
      /\ \A x \in Msgs : ToSet(g[x]) \subseteq 1 .. w[x]
  BY DEF InOrder
<1>c. 1 .. c - 1 \subseteq ToSet(q)
  BY DEF Took
<1> HIDE DEF h, q
<1>6. ASSUME NEW i \in 1 .. Len(q) + 1, NEW d \in 1 .. Append(q, c)[i] - 1
      PROVE  \E k \in 1 .. i : Append(q, c)[k] = d
  <2>1. CASE i \in 1 .. Len(q)
    <3>1. d \in 1 .. q[i] - 1
      BY <1>5, <1>6, <2>1
    <3>2. PICK k \in 1 .. i : q[k] = d
      BY <1>5, <1>a, <2>1, <3>1
    <3>3. k \in 1 .. Len(q)
      BY <1>5, <2>1
    <3> QED
      BY <1>5, <3>2, <3>3
  <2>2. CASE i = Len(q) + 1
    <3>1. d \in 1 .. c - 1
      BY <1>5, <1>6, <2>2
    <3>2. PICK k \in 1 .. Len(q) : q[k] = d
      BY <1>5, <1>c, <3>1 DEF ToSet
    <3> QED
      BY <1>5, <2>2, <3>2
  <2> QED
    BY <1>5, <2>1, <2>2
<1>7. \A x \in Msgs : ToSet(h[x]) \subseteq 1 .. w[x]
  <2> SUFFICES ASSUME NEW x \in Msgs PROVE ToSet(h[x]) \subseteq 1 .. w[x]
    OBVIOUS
  <2>1. CASE x = m
    BY <1>2, <1>3, <1>a, <2>1
  <2>2. CASE x # m
    BY <1>2, <1>b, <2>2
  <2> QED
    BY <2>1, <2>2
<1>8. \A x \in Msgs : \A i \in DOMAIN h[x] : \A d \in 1 .. h[x][i] - 1 : \E k \in 1 .. i : h[x][k] = d
  <2> SUFFICES ASSUME NEW x \in Msgs, NEW i \in DOMAIN h[x], NEW d \in 1 .. h[x][i] - 1
               PROVE  \E k \in 1 .. i : h[x][k] = d
    OBVIOUS
  <2>1. CASE x = m
    <3>1. h[x] = Append(q, c)
      BY <1>2, <2>1
    <3>2. i \in 1 .. Len(q) + 1 /\ d \in 1 .. Append(q, c)[i] - 1
      BY <1>5, <3>1
    <3>3. \E k \in 1 .. i : Append(q, c)[k] = d
      BY <1>6, <3>2
    <3> QED
      BY <3>1, <3>3
  <2>2. CASE x # m
    <3>1. h[x] = g[x]
      BY <1>2, <2>2
    <3>2. i \in DOMAIN g[x] /\ d \in 1 .. g[x][i] - 1
      BY <3>1
    <3>3. \E k \in 1 .. i : g[x][k] = d
      BY <1>b, <3>2
    <3> QED
      BY <3>1, <3>3
  <2> QED
    BY <2>1, <2>2
<1>9. InOrder(w, h)
  BY <1>7, <1>8 DEF InOrder
<1>10. Grown(g, h)
  BY <1>2, <1>3 DEF Grown, q
<1> QED
  BY <1>2, <1>3, <1>4, <1>9, <1>10 DEF h, q

\* What was late in turn stays so.
LEMMA GrownKeeps ==
  ASSUME NEW g, NEW h, Grown(g, h)
  PROVE  /\ \A m \in Msgs : \A n : Took(g, m, n) => Took(h, m, n)
         /\ \A l \in SUBSET (Msgs \X Nat) : LateInTurn(l, whole, g, call) => LateInTurn(l, whole, h, call)
<1>1. \A m \in Msgs : \A n : Took(g, m, n) => Took(h, m, n)
  BY DEF Grown, Took
<1>2. ASSUME NEW l \in SUBSET (Msgs \X Nat), LateInTurn(l, whole, g, call) PROVE LateInTurn(l, whole, h, call)
  <2>1. \A x \in l : x[1] \in Msgs
    OBVIOUS
  <2> QED
    BY <1>1, <1>2, <2>1 DEF LateInTurn
<1> QED
  BY <1>1, <1>2

--------------------------------------------------------------------------------
\* The first proactive message of the queue, if there is one.
LEMMA EvictableIsListed ==
  ASSUME NEW b \in Boxes
  PROVE  Evictable(b) # 0 => Evictable(b) \in DOMAIN b.order
<1> DEFINE places == {i \in 1 .. Len(b.order) : b.order[i] \in Proactive}
<1>1. Evictable(b) = IF places # {} THEN Min(places) ELSE 0
  BY DEF Evictable, SelectInSeq
<1>2. places # {} => Min(places) \in places
  <2>1. places \in SUBSET Nat
    OBVIOUS
  <2> QED
    BY <2>1, LeastPlace
<1>3. DOMAIN b.order = 1 .. Len(b.order)
  BY DEF Boxes
<1> QED
  BY <1>1, <1>2, <1>3

LEMMA EvictsOne ==
  ASSUME NEW b \in Boxes, NEW m \in Msgs
  PROVE  \/ Evicted(b, m) = {}
         \/ Evicted(b, m) = {m}
         \/ \E x \in ToSet(b.order) : Evicted(b, m) = {x}
<1>1. b.order \in Seq(Msgs) /\ DOMAIN b.order = 1 .. Len(b.order)
  BY DEF Boxes
<1>2. Evictable(b) # 0 => b.order[Evictable(b)] \in ToSet(b.order)
  BY EvictableIsListed DEF ToSet
<1>3. Full(b) => Head(b.order) \in ToSet(b.order)
  <2>1. ASSUME Full(b) PROVE 1 \in DOMAIN b.order /\ Head(b.order) = b.order[1]
    <3>1. Len(b.order) >= 1
      BY <1>1, <2>1, OutboxAssumption DEF Full
    <3> QED
      BY <1>1, <3>1
  <2> QED
    BY <2>1 DEF ToSet
<1> QED
  BY <1>2, <1>3 DEF Evicted

LEMMA UnlistTakes ==
  ASSUME NEW b \in Boxes, IsInjective(b.order), NEW m
  PROVE  /\ Unlist(b, m) \in Boxes
         /\ IsInjective(Unlist(b, m).order)
         /\ ToSet(Unlist(b, m).order) = ToSet(b.order) \ {m}
         /\ Unlist(b, m).of = b.of
<1>1. /\ RemoveFirst(b.order, m) \in Seq(Msgs) /\ IsInjective(RemoveFirst(b.order, m))
      /\ ToSet(RemoveFirst(b.order, m)) = ToSet(b.order) \ {m}
  BY RemoveFirstOfOnce DEF Boxes
<1>2. Unlist(b, m) = [b EXCEPT !.order = RemoveFirst(b.order, m)]
  BY DEF Unlist
<1> QED
  BY <1>1, <1>2 DEF Boxes

LEMMA RemoveTakes ==
  ASSUME NEW b \in Boxes, IsInjective(b.order), NEW m \in Msgs
  PROVE  /\ RemoveEntry(b, m) \in Boxes
         /\ IsInjective(RemoveEntry(b, m).order)
         /\ ToSet(RemoveEntry(b, m).order) = ToSet(b.order) \ {m}
         /\ RemoveEntry(b, m).of[m].left = 0
         /\ \A x \in Msgs : x # m => RemoveEntry(b, m).of[x] = b.of[x]
<1> DEFINE u == Unlist(b, m)
<1>1. /\ u \in Boxes /\ IsInjective(u.order) /\ ToSet(u.order) = ToSet(b.order) \ {m} /\ u.of = b.of
  BY UnlistTakes
<1>2. RemoveEntry(b, m) = [u EXCEPT !.of[m] = NoEntry]
  BY DEF RemoveEntry
<1> HIDE DEF u
<1>3. NoEntry \in Entries /\ NoEntry.left = 0
  BY DEF NoEntry, Entries
<1>4. RemoveEntry(b, m).order = u.order /\ RemoveEntry(b, m).of = [b.of EXCEPT ![m] = NoEntry]
  BY <1>1, <1>2 DEF Boxes
<1>5. b.of \in [Msgs -> Entries]
  BY DEF Boxes, Entries
<1>6. [b.of EXCEPT ![m] = NoEntry] \in [Msgs -> Entries]
  BY <1>3, <1>5
<1>7. RemoveEntry(b, m) \in Boxes
  BY <1>1, <1>2, <1>6 DEF Boxes, Entries
<1> QED
  BY <1>1, <1>3, <1>4, <1>5, <1>7

\* c is b with m queued, at the cost of the entry evicted.
Pushed(b, m, entry, c) ==
  /\ c \in Boxes /\ IsInjective(c.order) /\ Evicted(b, m) \subseteq Msgs
  /\ ToSet(c.order) \subseteq ToSet(b.order) \cup {m}
  /\ (ToSet(b.order) \cup {m}) \ Evicted(b, m) \subseteq ToSet(c.order)
  /\ \A x \in Msgs : x # m => c.of[x] = b.of[x]
  /\ c.of[m] \in {b.of[m], entry}
  /\ m \in ToSet(c.order) => c.of[m] = entry

LEMMA PushAdds ==
  ASSUME NEW b \in Boxes, IsInjective(b.order), NEW m \in Msgs, m \notin ToSet(b.order),
         NEW entry \in Entries
  PROVE  Pushed(b, m, entry, Push(b, m, entry))
<1> DEFINE c == Push(b, m, entry)
           out == Evicted(b, m)
           kept == IF out = {} THEN b ELSE Unlist(b, CHOOSE x \in out : TRUE)
<1> SUFFICES /\ c \in Boxes /\ IsInjective(c.order) /\ out \subseteq Msgs
             /\ ToSet(c.order) \subseteq ToSet(b.order) \cup {m}
             /\ (ToSet(b.order) \cup {m}) \ out \subseteq ToSet(c.order)
             /\ \A x \in Msgs : x # m => c.of[x] = b.of[x]
             /\ c.of[m] \in {b.of[m], entry}
             /\ m \in ToSet(c.order) => c.of[m] = entry
  BY DEF Pushed
<1>0. ToSet(b.order) \subseteq Msgs
  BY DEF Boxes, ToSet
<1>1. CASE out = {m}
  <2>1. c = b
    BY <1>1 DEF Push
  <2> QED
    BY <1>1, <2>1
<1>2. CASE out # {m}
  <2>1. c = [order |-> Append(kept.order, m), of |-> [kept.of EXCEPT ![m] = entry]]
    BY <1>2 DEF Push
  <2>2. /\ kept \in Boxes /\ IsInjective(kept.order)
        /\ ToSet(kept.order) = ToSet(b.order) \ out /\ kept.of = b.of /\ out \subseteq Msgs
    <3>1. CASE out = {}
      BY <3>1
    <3>2. CASE out # {}
      <4>1. PICK x \in ToSet(b.order) : out = {x}
        BY <1>2, <3>2, EvictsOne
      <4>2. (CHOOSE y \in out : TRUE) = x
        BY <4>1
      <4>3. kept = Unlist(b, x)
        BY <3>2, <4>2
      <4> QED
        BY <1>0, <4>1, <4>3, UnlistTakes
    <3> QED
      BY <3>1, <3>2
  <2> HIDE DEF kept, out, c
  <2>3. /\ Append(kept.order, m) \in Seq(Msgs) /\ IsInjective(Append(kept.order, m))
        /\ ToSet(Append(kept.order, m)) = ToSet(kept.order) \cup {m}
    BY <2>2, AppendNew DEF Boxes
  <2>4. b.of \in [Msgs -> Entries]
    BY DEF Boxes, Entries
  <2>5. [kept.of EXCEPT ![m] = entry] \in [Msgs -> Entries]
    BY <2>2, <2>4
  <2>6. c \in Boxes
    BY <2>1, <2>3, <2>5 DEF Boxes, Entries
  <2>7. /\ c.order = Append(kept.order, m) /\ c.of[m] = entry
        /\ \A x \in Msgs : x # m => c.of[x] = b.of[x]
    BY <2>1, <2>2, <2>4
  <2> QED
    BY <2>2, <2>3, <2>6, <2>7 DEF c, out
<1> QED
  BY <1>1, <1>2

--------------------------------------------------------------------------------
\* What the invariant says of a state.
LEMMA OutboxFacts ==
  ASSUME OutboxInv
  PROVE  /\ box \in Boxes /\ disk \in Boxes /\ pass \in PassRecords
         /\ box.of \in [Msgs -> Entries] /\ disk.of \in [Msgs -> Entries]
         /\ sending \in Msgs \cup {NoMsg}
         /\ call \in [Msgs -> {"new", "await1", "again", "await2", "sending", "done"}]
         /\ sent \in [Msgs -> Nat] /\ whole \in [Msgs -> Nat] /\ got \in [Msgs -> Seq(Nat)]
         /\ quiet \in BOOLEAN
         /\ revoked \subseteq Msgs /\ gone \subseteq Msgs /\ late \in SUBSET (Msgs \X Nat)
         /\ {crashed, lates, putOffs} \subseteq Nat
         /\ ChunksOf \in [Msgs -> Nat \ {0}]
<1> USE OutboxAssumption
<1>1. OutboxTypeOK
  BY DEF OutboxInv
<1> QED
  BY <1>1 DEF OutboxTypeOK, Boxes, PassRecords, Entries

\* The invariant is kept by a step that leaves the queue and what is left of each message.
LEMMA QueueRests ==
  ASSUME OutboxInv, OutboxTypeOK',
         box'.order = box.order, \A m \in Msgs : box'.of[m].left = box.of[m].left,
         SavedAsHeld(box', disk'),
         InHand(pass', sending'),
         pass'.hand = pass.hand \/ pass'.hand = NoMsg \/ In(box, pass'.hand),
         whole' = whole, InOrder(whole, got'), Grown(got, got'), LateInTurn(late', whole, got', call'),
         \A m \in Msgs : SentSoFar(sent', whole, got', call', m),
         gone \subseteq gone',
         \A m \in Msgs : call[m] = "done" => call'[m] = "done",
         \A m \in Msgs : call'[m] = "done" =>
           call[m] = "done" \/ m \in gone' \/ ToSet(got'[m]) = 1 .. whole[m]
  PROVE  OutboxInv'
<1>1. \A m \in Msgs : In(box', m) <=> In(box, m)
  BY DEF In
<1>2. QueuedOnce(box', call')
  BY <1>1 DEF QueuedOnce, OutboxInv
<1>3. ASSUME NEW m \in Msgs PROVE Remains(box', whole, got', pass', call', m)
  <2>1. Remains(box, whole, got, pass, call, m) /\ NoMsg # m
    BY OutboxAssumption DEF OutboxInv
  <2>2. \A n : Took(got, m, n) => Took(got', m, n)
    BY GrownKeeps
  <2> QED
    BY <1>1, <2>1, <2>2 DEF Remains
<1>4. ASSUME NEW m \in Msgs PROVE Covered(m)'
  <2>1. Covered(m)
    BY DEF OutboxInv
  <2>2. ToSet(got[m]) = 1 .. whole[m] => ToSet(got'[m]) = 1 .. whole[m]
    BY DEF InOrder, Grown
  <2> QED
    BY <1>1, <2>1, <2>2 DEF Covered
<1> QED
  BY <1>2, <1>3, <1>4 DEF OutboxInv

\* So it is by a step that sends nothing either.
LEMMA NothingMoves ==
  ASSUME OutboxInv, OutboxTypeOK',
         box'.order = box.order, \A m \in Msgs : box'.of[m].left = box.of[m].left,
         SavedAsHeld(box', disk'),
         InHand(pass', sending'),
         pass'.hand = pass.hand \/ pass'.hand = NoMsg \/ In(box, pass'.hand),
         UNCHANGED <<got, sent, whole, gone>>, LateInTurn(late', whole, got, call),
         \A m \in Msgs : call'[m] = "done" <=> call[m] = "done"
  PROVE  OutboxInv'
<1>1. InOrder(whole, got') /\ Grown(got, got')
  BY DEF OutboxInv, Grown
<1>2. \A m \in Msgs : SentSoFar(sent', whole, got', call', m)
  BY DEF OutboxInv, SentSoFar
<1>3. LateInTurn(late', whole, got', call')
  <2>1. \A x \in late' : x[1] \in Msgs
    BY DEF OutboxTypeOK
  <2> QED
    BY <2>1 DEF LateInTurn
<1> QED
  BY <1>1, <1>2, <1>3, QueueRests

--------------------------------------------------------------------------------
\* A new account of one message, with the queue as it is.
LEMMA Reentered ==
  ASSUME NEW b \in Boxes, NEW m \in Msgs, NEW entry \in Entries
  PROVE  LET c == [b EXCEPT !.of[m] = entry]
         IN  /\ c \in Boxes /\ c.order = b.order /\ c.of[m] = entry
             /\ \A x \in Msgs : x # m => c.of[x] = b.of[x]
<1> DEFINE c == [b EXCEPT !.of[m] = entry]
<1>1. b.of \in [Msgs -> Entries] /\ b.order \in Seq(Msgs)
  BY DEF Boxes, Entries
<1>2. [b.of EXCEPT ![m] = entry] \in [Msgs -> Entries]
  BY <1>1
<1>3. c.order = b.order /\ c.of = [b.of EXCEPT ![m] = entry]
  BY DEF Boxes
<1>4. c \in Boxes
  BY <1>1, <1>2 DEF Boxes, Entries
<1> QED
  BY <1>1, <1>3, <1>4

\* nextAttemptAt, or attempts, of an entry change.
LEMMA Retimed ==
  ASSUME NEW b \in Boxes, NEW m \in Msgs, NEW t \in Nat, NEW d \in BOOLEAN
  PROVE  LET c == [b EXCEPT !.of[m].tries = t, !.of[m].due = d]
         IN  c \in Boxes /\ c.order = b.order /\ \A x \in Msgs : c.of[x].left = b.of[x].left
<1> DEFINE old == b.of[m]
           entry == [old EXCEPT !.tries = t, !.due = d]
<1>1. old \in Entries /\ b.of \in [Msgs -> Entries]
  BY DEF Boxes, Entries
<1>2. entry \in Entries /\ entry.left = old.left
  BY <1>1 DEF Entries
<1>3. [b EXCEPT !.of[m].tries = t, !.of[m].due = d] = [b EXCEPT !.of[m] = entry]
  BY <1>1 DEF Boxes, Entries
<1> HIDE DEF entry
<1> DEFINE c == [b EXCEPT !.of[m] = entry]
<1>4. /\ c \in Boxes /\ c.order = b.order /\ c.of[m] = entry
      /\ \A x \in Msgs : x # m => c.of[x] = b.of[x]
  BY <1>2, Reentered
<1> HIDE DEF c
<1>5. c.of[m].left = b.of[m].left
  BY <1>2, <1>4
<1>6. \A x \in Msgs : c.of[x].left = b.of[x].left
  BY <1>4, <1>5
<1> QED
  BY <1>3, <1>4, <1>6 DEF c

LEMMA Redated ==
  ASSUME NEW b \in Boxes, NEW m \in Msgs, NEW d \in BOOLEAN
  PROVE  LET c == [b EXCEPT !.of[m].due = d]
         IN  c \in Boxes /\ c.order = b.order /\ \A x \in Msgs : c.of[x].left = b.of[x].left
<1> DEFINE old == b.of[m]
           entry == [old EXCEPT !.due = d]
<1>1. old \in Entries /\ b.of \in [Msgs -> Entries]
  BY DEF Boxes, Entries
<1>2. entry \in Entries /\ entry.left = old.left
  BY <1>1 DEF Entries
<1>3. [b EXCEPT !.of[m].due = d] = [b EXCEPT !.of[m] = entry]
  BY <1>1 DEF Boxes, Entries
<1> HIDE DEF entry
<1> QED
  BY <1>2, <1>3, Reentered

LEMMA Shortened ==
  ASSUME NEW b \in Boxes, NEW m \in Msgs, b.of[m].left # 0
  PROVE  LET c == [b EXCEPT !.of[m].left = @ - 1]
         IN  /\ c \in Boxes /\ c.order = b.order
             /\ c.of[m].left = b.of[m].left - 1
             /\ \A x \in Msgs : x # m => c.of[x] = b.of[x]
<1> DEFINE old == b.of[m]
           entry == [old EXCEPT !.left = @ - 1]
<1>1. old \in Entries /\ b.of \in [Msgs -> Entries]
  BY DEF Boxes, Entries
<1>2. entry \in Entries /\ entry.left = old.left - 1
  BY <1>1 DEF Entries
<1>3. [b EXCEPT !.of[m].left = @ - 1] = [b EXCEPT !.of[m] = entry]
  BY <1>1 DEF Boxes, Entries
<1> HIDE DEF entry
<1> QED
  BY <1>2, <1>3, Reentered

--------------------------------------------------------------------------------
\* The passes.
LEMMA PassJoined ==
  ASSUME OutboxInv, JoinPass
  PROVE  /\ pass' \in PassRecords /\ pass'.on
         /\ pass'.hand = pass.hand \/ pass'.hand = NoMsg
         /\ InHand(pass', sending)
<1>1. pass \in PassRecords /\ quiet \in BOOLEAN /\ box \in Boxes
  BY OutboxFacts
<1>2. InHand(pass, sending)
  BY DEF OutboxInv
<1>3. CASE pass.on
  BY <1>1, <1>2, <1>3 DEF JoinPass
<1>4. CASE ~pass.on
  <2>1. Due \in SUBSET Msgs
    BY <1>1 DEF Due, Boxes, ToSet
  <2>2. pass' = [on |-> TRUE, todo |-> Due, hand |-> NoMsg, failed |-> {}, quiet |-> quiet]
    BY <1>4 DEF JoinPass, Idle
  <2>3. pass' \in PassRecords
    BY <1>1, <2>1, <2>2 DEF PassRecords
  <2>4. sending = NoMsg
    BY <1>2, <1>4 DEF InHand
  <2> QED
    BY <2>2, <2>3, <2>4 DEF InHand
<1> QED
  BY <1>3, <1>4

LEMMA PassMovesOn ==
  ASSUME NEW p \in PassRecords, NEW m \in Msgs
  PROVE  /\ NextEntry(p, m) \in PassRecords /\ NextEntry(p, m).hand = NoMsg
         /\ [NextEntry(p, m) EXCEPT !.failed = @ \cup {ChatOf[m]}] \in PassRecords
         /\ [NextEntry(p, m) EXCEPT !.failed = @ \cup {ChatOf[m]}].hand = NoMsg
<1> DEFINE n == NextEntry(p, m)
<1>1. n = [p EXCEPT !.todo = @ \ {m}, !.hand = NoMsg]
  BY DEF NextEntry
<1>2. n \in PassRecords /\ n.hand = NoMsg
  BY <1>1 DEF PassRecords
<1> HIDE DEF n
<1>3. [n EXCEPT !.failed = @ \cup {ChatOf[m]}] \in PassRecords
  BY <1>2 DEF PassRecords
<1> QED
  BY <1>2, <1>3 DEF n, PassRecords

\* An entry is at hand only with no chunk under way.
LEMMA NothingInHand ==
  ASSUME NEW p, p.hand = NoMsg
  PROVE  InHand(p, NoMsg)
BY DEF InHand

--------------------------------------------------------------------------------
\* The steps that neither queue nor send.
LEMMA ReleaseKeeps ==
  ASSUME OutboxInv, NEW m \in Msgs, NEW from \in {"new", "again"}, NEW await \in {"await1", "await2"},
         Release(m, from, await)
  PROVE  OutboxInv'
<1>0. /\ call[m] = from /\ UNCHANGED <<box, disk, sending, sent, whole, outsideVars, counts>>
      /\ \/ JoinPass /\ call' = [call EXCEPT ![m] = await]
         \/ call' = [call EXCEPT ![m] = "sending"] /\ UNCHANGED pass
  BY DEF Release
<1>1. /\ call' \in [Msgs -> {"new", "await1", "again", "await2", "sending", "done"}]
      /\ \A x \in Msgs : call'[x] = "done" <=> call[x] = "done"
  BY <1>0, OutboxFacts
<1>2. /\ pass' \in PassRecords
      /\ pass'.hand = pass.hand \/ pass'.hand = NoMsg
      /\ InHand(pass', sending')
  <2>1. pass \in PassRecords /\ InHand(pass, sending) /\ sending' = sending
    BY <1>0, OutboxFacts DEF OutboxInv
  <2> QED
    BY <1>0, <2>1, PassJoined
<1>3. OutboxTypeOK'
  BY <1>0, <1>1, <1>2 DEF OutboxInv, OutboxTypeOK, outsideVars, counts, PassRecords
<1>4. SavedAsHeld(box', disk') /\ LateInTurn(late', whole, got, call)
  BY <1>0 DEF OutboxInv, outsideVars
<1> QED
  BY <1>0, <1>1, <1>2, <1>3, <1>4, NothingMoves DEF outsideVars

LEMMA DrainKeeps ==
  ASSUME OutboxInv, Drain
  PROVE  OutboxInv'
<1>0. JoinPass /\ UNCHANGED <<box, disk, sending, call, sent, whole, outsideVars, counts>>
  BY DEF Drain
<1>2. /\ pass' \in PassRecords
      /\ pass'.hand = pass.hand \/ pass'.hand = NoMsg
      /\ InHand(pass', sending')
  BY <1>0, PassJoined
<1>3. OutboxTypeOK'
  BY <1>0, <1>2 DEF OutboxInv, OutboxTypeOK, outsideVars, counts, PassRecords
<1>4. SavedAsHeld(box', disk') /\ LateInTurn(late', whole, got, call)
  BY <1>0 DEF OutboxInv, outsideVars
<1> QED
  BY <1>0, <1>2, <1>3, <1>4, NothingMoves DEF outsideVars

\* The drain leaves an entry, or takes it in hand.
LEMMA HandMoves ==
  ASSUME OutboxInv, pass' \in PassRecords, InHand(pass', sending'), sending' \in Msgs \cup {NoMsg},
         pass'.hand = pass.hand \/ pass'.hand = NoMsg \/ In(box, pass'.hand),
         UNCHANGED <<box, disk, call, sent, whole, outsideVars, crashed, lates>>, putOffs' \in Nat
  PROVE  OutboxInv'
<1>3. OutboxTypeOK'
  BY DEF OutboxInv, OutboxTypeOK, outsideVars, PassRecords
<1>4. SavedAsHeld(box', disk') /\ LateInTurn(late', whole, got, call)
  BY DEF OutboxInv, outsideVars
<1> QED
  BY <1>3, <1>4, NothingMoves DEF outsideVars

LEMMA SkipEntryKeeps ==
  ASSUME OutboxInv, NEW m \in Msgs, SkipEntry(m)
  PROVE  OutboxInv'
<1>1. /\ pass' = NextEntry(pass, m) /\ sending = NoMsg
      /\ UNCHANGED <<box, disk, sending, call, sent, whole, outsideVars, counts>>
  BY DEF SkipEntry, AtEntry
<1>2. pass' \in PassRecords /\ pass'.hand = NoMsg
  BY <1>1, OutboxFacts, PassMovesOn
<1>3. InHand(pass', sending')
  BY <1>1, <1>2 DEF InHand
<1>4. sending' \in Msgs \cup {NoMsg} /\ putOffs' \in Nat
  BY <1>1, OutboxFacts DEF counts
<1> QED
  BY <1>1, <1>2, <1>3, <1>4, HandMoves DEF counts

LEMMA SendChunkKeeps ==
  ASSUME OutboxInv, NEW m \in Msgs, SendChunk(m)
  PROVE  OutboxInv'
<1>1. /\ pass.on /\ m \in pass.todo /\ sending' = m
      /\ pass' = [pass EXCEPT !.hand = m]
      /\ pass.hand = m \/ In(box, m)
      /\ UNCHANGED <<box, disk, call, sent, whole, outsideVars, counts>>
  BY DEF SendChunk, Ready, AtEntry, Skips
<1>2. pass \in PassRecords
  BY OutboxFacts
<1>3. /\ pass' \in PassRecords /\ pass'.hand = m /\ pass'.on /\ pass'.todo = pass.todo
  BY <1>1, <1>2 DEF PassRecords
<1>4. InHand(pass', sending')
  BY <1>1, <1>3 DEF InHand
<1>5. putOffs' \in Nat
  BY <1>1, OutboxFacts DEF counts
<1> QED
  BY <1>1, <1>3, <1>4, <1>5, HandMoves DEF counts

LEMMA UnknownRecipientKeeps ==
  ASSUME OutboxInv, NEW m \in Msgs, UnknownRecipient(m)
  PROVE  OutboxInv'
<1>1. /\ pass' = [NextEntry(pass, m) EXCEPT !.failed = @ \cup {ChatOf[m]}]
      /\ sending = NoMsg /\ putOffs' = putOffs + 1
      /\ UNCHANGED <<box, disk, sending, call, sent, whole, outsideVars, crashed, lates>>
  BY DEF UnknownRecipient, Ready, AtEntry
<1>2. pass' \in PassRecords /\ pass'.hand = NoMsg
  BY <1>1, OutboxFacts, PassMovesOn
<1>3. InHand(pass', sending')
  BY <1>1, <1>2 DEF InHand
<1>4. putOffs' \in Nat
  <2>1. putOffs \in Nat
    BY OutboxFacts
  <2> QED
    BY <1>1, <2>1
<1>5. sending' \in Msgs \cup {NoMsg}
  BY <1>1
<1> QED
  BY <1>1, <1>2, <1>3, <1>4, <1>5, HandMoves

LEMMA EndPassKeeps ==
  ASSUME OutboxInv, EndPass
  PROVE  OutboxInv'
<1>1. /\ pass' = Idle /\ pass.todo = {}
      /\ call' = [m \in Msgs |-> CASE call[m] = "await1" -> "again"
                                   [] call[m] = "await2" -> "sending"
                                   [] OTHER -> call[m]]
      /\ UNCHANGED <<box, disk, sending, sent, whole, outsideVars, counts>>
  BY DEF EndPass
<1>2. /\ call' \in [Msgs -> {"new", "await1", "again", "await2", "sending", "done"}]
      /\ \A x \in Msgs : call'[x] = "done" <=> call[x] = "done"
  <2>1. call \in [Msgs -> {"new", "await1", "again", "await2", "sending", "done"}]
    BY OutboxFacts
  <2>2. ASSUME NEW x \in Msgs
        PROVE  /\ call'[x] \in {"new", "await1", "again", "await2", "sending", "done"}
               /\ call'[x] = "done" <=> call[x] = "done"
    BY <1>1, <2>1
  <2>3. DOMAIN call' = Msgs /\ call' = [x \in Msgs |-> call'[x]]
    BY <1>1
  <2> QED
    BY <2>2, <2>3
<1>3. pass' \in PassRecords /\ pass'.hand = NoMsg
  BY <1>1 DEF PassRecords, Idle
<1>4. InHand(pass', sending')
  <2>1. sending = NoMsg
    BY <1>1 DEF OutboxInv, InHand
  <2> QED
    BY <1>1, <1>3, <2>1 DEF InHand
<1>5. OutboxTypeOK'
  BY <1>1, <1>2, <1>3 DEF OutboxInv, OutboxTypeOK, outsideVars, counts, PassRecords
<1>6. SavedAsHeld(box', disk') /\ LateInTurn(late', whole, got, call)
  BY <1>1 DEF OutboxInv, outsideVars
<1> QED
  BY <1>1, <1>2, <1>3, <1>4, <1>5, <1>6, NothingMoves DEF outsideVars

LEMMA PutOffKeeps ==
  ASSUME OutboxInv, NEW m \in Msgs, PutOff(m)
  PROVE  OutboxInv'
<1>1. /\ box' = [box EXCEPT !.of[m].due = FALSE] /\ disk' = box'
      /\ pass' = NextEntry(pass, m) /\ sending = NoMsg
      /\ UNCHANGED <<sending, call, sent, whole, outsideVars, counts>>
  BY DEF PutOff, Persist, AtEntry
<1>2. /\ box' \in Boxes /\ box'.order = box.order
      /\ \A x \in Msgs : box'.of[x].left = box.of[x].left
  <2>1. box \in Boxes
    BY OutboxFacts
  <2> QED
    BY <1>1, <2>1, Redated
<1>3. pass' \in PassRecords /\ pass'.hand = NoMsg
  BY <1>1, OutboxFacts, PassMovesOn
<1>4. InHand(pass', sending')
  BY <1>1, <1>3 DEF InHand
<1>5. OutboxTypeOK'
  BY <1>1, <1>2, <1>3 DEF OutboxInv, OutboxTypeOK, outsideVars, counts, PassRecords
<1>6. SavedAsHeld(box', disk') /\ LateInTurn(late', whole, got, call)
  BY <1>1 DEF OutboxInv, outsideVars, SavedAsHeld
<1> QED
  BY <1>1, <1>2, <1>3, <1>4, <1>5, <1>6, NothingMoves DEF outsideVars

LEMMA FallsDueKeeps ==
  ASSUME OutboxInv, NEW m \in Msgs, FallsDue(m)
  PROVE  OutboxInv'
<1>1. /\ box' = [box EXCEPT !.of[m].due = TRUE]
      /\ UNCHANGED <<disk, pass, sending, call, sent, whole, outsideVars, counts>>
  BY DEF FallsDue
<1>2. /\ box' \in Boxes /\ box'.order = box.order
      /\ \A x \in Msgs : box'.of[x].left = box.of[x].left
  <2>1. box \in Boxes
    BY OutboxFacts
  <2> QED
    BY <1>1, <2>1, Redated
<1>5. OutboxTypeOK'
  BY <1>1, <1>2 DEF OutboxInv, OutboxTypeOK, outsideVars, counts
<1>6. SavedAsHeld(box', disk') /\ LateInTurn(late', whole, got, call) /\ InHand(pass', sending')
  BY <1>1, <1>2 DEF OutboxInv, outsideVars, SavedAsHeld
<1> QED
  BY <1>1, <1>2, <1>5, <1>6, NothingMoves DEF outsideVars

\* The world outside moves: quiet hours, users, or nothing at all.
LEMMA OutsideKeeps ==
  ASSUME OutboxInv, UNCHANGED <<boxVars, late, got, gone, crashed, lates>>,
         quiet' \in BOOLEAN, revoked' \subseteq Msgs, putOffs' \in Nat
  PROVE  OutboxInv'
<1>5. OutboxTypeOK'
  BY DEF OutboxInv, OutboxTypeOK, boxVars
<1>6. SavedAsHeld(box', disk') /\ LateInTurn(late', whole, got, call) /\ InHand(pass', sending')
  BY DEF OutboxInv, boxVars, SavedAsHeld
<1> QED
  BY <1>5, <1>6, NothingMoves DEF boxVars

--------------------------------------------------------------------------------
\* Telegram takes a chunk; the queue rests.
LEMMA ChunkTaken ==
  ASSUME OutboxInv, NEW m \in Msgs, NEW c \in 1 .. whole[m], Took(got, m, c - 1),
         got' = [got EXCEPT ![m] = Append(@, c)]
  PROVE  /\ got' \in [Msgs -> Seq(Nat)] /\ InOrder(whole, got') /\ Grown(got, got')
         /\ ToSet(got'[m]) = ToSet(got[m]) \cup {c}
         /\ \A x \in Msgs : x # m => got'[x] = got[x]
         /\ \A l \in SUBSET late : LateInTurn(l, whole, got', call)
<1>0. /\ got \in [Msgs -> Seq(Nat)] /\ whole \in [Msgs -> Nat] /\ InOrder(whole, got)
      /\ late \in SUBSET (Msgs \X Nat) /\ LateInTurn(late, whole, got, call)
  BY OutboxFacts DEF OutboxInv
<1>1. /\ got' \in [Msgs -> Seq(Nat)] /\ InOrder(whole, got') /\ Grown(got, got')
      /\ ToSet(got'[m]) = ToSet(got[m]) \cup {c}
      /\ \A x \in Msgs : x # m => got'[x] = got[x]
  <2> DEFINE h == [got EXCEPT ![m] = Append(@, c)]
  <2>1. /\ h \in [Msgs -> Seq(Nat)] /\ InOrder(whole, h) /\ Grown(got, h)
        /\ ToSet(h[m]) = ToSet(got[m]) \cup {c}
        /\ \A x \in Msgs : x # m => h[x] = got[x]
    BY <1>0, TakesChunk
  <2>2. got' = h
    OBVIOUS
  <2> HIDE DEF h
  <2> QED
    BY <2>1, <2>2
<1>2. LateInTurn(late, whole, got', call)
  BY <1>0, <1>1, GrownKeeps
<1> QED
  BY <1>1, <1>2 DEF LateInTurn

LEMMA TakenLateKeeps ==
  ASSUME OutboxInv, NEW m \in Msgs, NEW c, TakenLate(m, c)
  PROVE  OutboxInv'
<1>1. /\ <<m, c>> \in late /\ late' \subseteq late /\ got' = [got EXCEPT ![m] = Append(@, c)]
      /\ UNCHANGED <<boxVars, quiet, revoked, gone, counts>>
  BY DEF TakenLate
<1>2. c \in 1 .. whole[m] /\ Took(got, m, c - 1) /\ call[m] = "done"
  BY <1>1 DEF OutboxInv, LateInTurn
<1>3. /\ got' \in [Msgs -> Seq(Nat)] /\ InOrder(whole, got') /\ Grown(got, got') /\ LateInTurn(late', whole, got', call)
      /\ \A x \in Msgs : x # m => got'[x] = got[x]
  BY <1>1, <1>2, ChunkTaken
<1>4. OutboxTypeOK'
  BY <1>1, <1>3 DEF OutboxInv, OutboxTypeOK, boxVars, counts
<1>5. SavedAsHeld(box', disk') /\ InHand(pass', sending')
  BY <1>1 DEF OutboxInv, boxVars, SavedAsHeld
<1>6. \A x \in Msgs : SentSoFar(sent', whole, got', call', x)
  <2>1. \A x \in Msgs : SentSoFar(sent, whole, got, call, x) /\ sent' = sent /\ call' = call
    BY <1>1 DEF OutboxInv, boxVars
  <2>2. \A x \in Msgs : \A n : Took(got, x, n) => Took(got', x, n)
    BY <1>3, GrownKeeps
  <2>3. \A x \in Msgs : call[x] # "done" => got'[x] = got[x]
    BY <1>2, <1>3
  <2> QED
    BY <2>1, <2>2, <2>3 DEF SentSoFar
<1> QED
  BY <1>1, <1>3, <1>4, <1>5, <1>6, QueueRests DEF boxVars

LEMMA DeliverSentKeeps ==
  ASSUME OutboxInv, NEW m \in Msgs, DeliverSent(m)
  PROVE  OutboxInv'
<1> DEFINE c == sent[m] + 1
<1>1. /\ call[m] = "sending"
      /\ sent' = [sent EXCEPT ![m] = c]
      /\ got' = [got EXCEPT ![m] = Append(@, c)]
      /\ call' = IF c = whole[m] THEN [call EXCEPT ![m] = "done"] ELSE call
      /\ UNCHANGED <<box, disk, pass, sending, whole, quiet, revoked, late, gone, counts>>
  BY DEF DeliverSent
<1>0. /\ sent \in [Msgs -> Nat] /\ whole \in [Msgs -> Nat]
      /\ late \in SUBSET (Msgs \X Nat)
      /\ call \in [Msgs -> {"new", "await1", "again", "await2", "sending", "done"}]
  BY OutboxFacts
<1>2. /\ sent[m] < whole[m] /\ Took(got, m, sent[m])
      /\ whole[m] = ChunksOf[m] /\ ToSet(got[m]) \subseteq 1 .. sent[m]
  BY <1>1 DEF OutboxInv, SentSoFar
<1>a. c \in 1 .. whole[m] /\ c - 1 = sent[m]
  BY <1>0, <1>2
<1>3. /\ got' \in [Msgs -> Seq(Nat)] /\ InOrder(whole, got') /\ Grown(got, got') /\ LateInTurn(late', whole, got', call)
      /\ ToSet(got'[m]) = ToSet(got[m]) \cup {c}
      /\ \A x \in Msgs : x # m => got'[x] = got[x]
  BY <1>1, <1>2, <1>a, ChunkTaken
<1>b. /\ sent' \in [Msgs -> Nat] /\ sent'[m] = c /\ \A x \in Msgs : x # m => sent'[x] = sent[x]
  BY <1>0, <1>1
<1>c. /\ call' \in [Msgs -> {"new", "await1", "again", "await2", "sending", "done"}]
      /\ \A x \in Msgs : x # m => call'[x] = call[x]
      /\ call'[m] = "done" <=> c = whole[m]
      /\ call[m] # "done"
  BY <1>0, <1>1
<1>d. Took(got', m, c)
  <2>1. 1 .. c - 1 \subseteq ToSet(got[m])
    BY <1>2, <1>a DEF Took
  <2>2. 1 .. c \subseteq (1 .. c - 1) \cup {c}
    BY <1>a
  <2> QED
    BY <1>3, <2>1, <2>2 DEF Took
<1> HIDE DEF c
<1>4. OutboxTypeOK'
  BY <1>1, <1>3, <1>b, <1>c DEF OutboxInv, OutboxTypeOK, counts
<1>5. SavedAsHeld(box', disk') /\ InHand(pass', sending')
  BY <1>1 DEF OutboxInv, SavedAsHeld
<1>6. ASSUME NEW x \in Msgs PROVE SentSoFar(sent', whole, got', call', x)
  <2>1. CASE x = m
    <3>1. ToSet(got'[m]) \subseteq 1 .. c
      <4>1. 1 .. sent[m] \subseteq 1 .. c /\ c \in 1 .. c
        BY <1>0, <1>a
      <4> QED
        BY <1>2, <1>3, <4>1
    <3> QED
      BY <1>0, <1>2, <1>a, <1>b, <1>c, <1>d, <2>1, <3>1 DEF SentSoFar
  <2>2. CASE x # m
    <3>1. SentSoFar(sent, whole, got, call, x)
      BY DEF OutboxInv
    <3>2. \A n : Took(got, x, n) => Took(got', x, n)
      BY <1>3, GrownKeeps
    <3>3. sent'[x] = sent[x] /\ call'[x] = call[x] /\ got'[x] = got[x]
      BY <1>3, <1>b, <1>c, <2>2
    <3> QED
      BY <3>1, <3>2, <3>3 DEF SentSoFar
  <2> QED
    BY <2>1, <2>2
<1>7. ASSUME NEW x \in Msgs, call'[x] = "done"
      PROVE  call[x] = "done" \/ ToSet(got'[x]) = 1 .. whole[x]
  <2>1. CASE x = m
    BY <1>3, <1>7, <1>c, <1>d, <2>1 DEF Took, InOrder
  <2>2. CASE x # m
    BY <1>7, <1>c, <2>2
  <2> QED
    BY <2>1, <2>2
<1>8. \A x \in Msgs : call[x] = "done" => call'[x] = "done"
  BY <1>c
<1>9. LateInTurn(late', whole, got', call')
  <2>1. \A x \in late' : x[1] \in Msgs
    BY <1>0, <1>1
  <2> QED
    BY <1>3, <1>8, <2>1 DEF LateInTurn
<1> QED
  BY <1>1, <1>3, <1>4, <1>5, <1>6, <1>7, <1>8, <1>9, QueueRests

\* The chunk the drain has in hand follows what Telegram has.
LEMMA ChunkInHand ==
  ASSUME OutboxInv, NEW m \in Msgs, sending = m
  PROVE  /\ pass.hand = m /\ call[m] = "done"
         /\ box.of[m].left \in Nat \ {0} /\ box.of[m].left <= whole[m]
         /\ ChunkNo(m) \in 1 .. whole[m] /\ Took(got, m, ChunkNo(m) - 1)
         /\ ChunkNo(m) - 1 = whole[m] - box.of[m].left
<1>1. pass.hand = m
  BY OutboxAssumption DEF OutboxInv, InHand
<1>2. Remains(box, whole, got, pass, call, m)
  BY DEF OutboxInv
<1>3. box.of[m] \in Entries /\ whole[m] \in Nat
  BY OutboxFacts
<1>4. box.of[m].left \in Nat
  BY <1>3 DEF Entries
<1>5. /\ box.of[m].left # 0 /\ box.of[m].left <= whole[m] /\ call[m] = "done"
      /\ Took(got, m, whole[m] - box.of[m].left)
  BY <1>1, <1>2 DEF Remains
<1>6. ChunkNo(m) - 1 = whole[m] - box.of[m].left /\ ChunkNo(m) \in 1 .. whole[m]
  BY <1>3, <1>4, <1>5 DEF ChunkNo
<1> QED
  BY <1>1, <1>4, <1>5, <1>6

LEMMA CrashKeeps ==
  ASSUME OutboxInv, CrashOutbox
  PROVE  OutboxInv'
<1>1. /\ crashed' = crashed + 1 /\ box' = disk /\ pass' = Idle /\ sending' = NoMsg
      /\ call' = [m \in Msgs |-> IF call[m] = "new" THEN "new" ELSE "done"]
      /\ gone' = gone \cup {m \in Msgs : call[m] \notin {"new", "done"}}
      /\ got' = got \/ (sending # NoMsg /\ got' = [got EXCEPT ![sending] = Append(@, ChunkNo(sending))])
      /\ UNCHANGED <<disk, sent, whole, quiet, revoked, late, lates, putOffs>>
  BY DEF CrashOutbox
<1>0. /\ sending \in Msgs \cup {NoMsg} /\ crashed \in Nat /\ late \in SUBSET (Msgs \X Nat)
      /\ disk \in Boxes /\ got \in [Msgs -> Seq(Nat)]
  BY OutboxFacts
<1>2. /\ got' \in [Msgs -> Seq(Nat)] /\ InOrder(whole, got') /\ Grown(got, got') /\ LateInTurn(late', whole, got', call)
      /\ \A x \in Msgs : call[x] # "done" => got'[x] = got[x]
  <2>1. CASE got' = got
    BY <1>0, <1>1, <2>1 DEF OutboxInv, Grown
  <2>2. CASE sending # NoMsg /\ got' = [got EXCEPT ![sending] = Append(@, ChunkNo(sending))]
    <3>1. sending \in Msgs
      BY <1>0, <2>2
    <3>2. /\ ChunkNo(sending) \in 1 .. whole[sending] /\ Took(got, sending, ChunkNo(sending) - 1)
          /\ call[sending] = "done"
      BY <3>1, ChunkInHand
    <3> QED
      BY <1>1, <2>2, <3>1, <3>2, ChunkTaken
  <2> QED
    BY <1>1, <2>1, <2>2
<1>3. /\ call' \in [Msgs -> {"new", "await1", "again", "await2", "sending", "done"}]
      /\ \A x \in Msgs : call'[x] = "done" <=> call[x] # "new"
  BY <1>1
<1>4. OutboxTypeOK'
  <2>1. pass' \in PassRecords
    BY <1>1 DEF Idle, PassRecords
  <2> QED
    BY <1>0, <1>1, <1>2, <1>3, <2>1 DEF OutboxInv, OutboxTypeOK, PassRecords
<1>5. /\ box'.order = box.order /\ \A m \in Msgs : box'.of[m].left = box.of[m].left
      /\ SavedAsHeld(box', disk')
  BY <1>1 DEF OutboxInv, SavedAsHeld
<1>6. InHand(pass', sending') /\ pass'.hand = NoMsg
  BY <1>1 DEF InHand, Idle
<1>7. \A x \in Msgs : SentSoFar(sent', whole, got', call', x)
  <2>1. \A x \in Msgs : SentSoFar(sent, whole, got, call, x)
    BY DEF OutboxInv
  <2>2. \A x \in Msgs : \A n : Took(got, x, n) => Took(got', x, n)
    BY <1>2, GrownKeeps
  <2>3. \A x \in Msgs : call'[x] # "done" => call[x] # "done" /\ got'[x] = got[x]
    BY <1>1, <1>2, <1>3
  <2> QED
    BY <1>1, <2>1, <2>2, <2>3 DEF SentSoFar
<1>8. \A x \in Msgs : call'[x] = "done" => call[x] = "done" \/ x \in gone'
  BY <1>1, <1>3
<1>9. gone \subseteq gone' /\ \A x \in Msgs : call[x] = "done" => call'[x] = "done"
  BY <1>1, <1>3
<1>10. LateInTurn(late', whole, got', call')
  <2>1. \A x \in late' : x[1] \in Msgs
    BY <1>0, <1>1
  <2> QED
    BY <1>2, <1>9, <2>1 DEF LateInTurn
<1> QED
  BY <1>1, <1>2, <1>4, <1>5, <1>6, <1>7, <1>8, <1>9, <1>10, QueueRests

--------------------------------------------------------------------------------
\* A deliver call queues what is left of its message.
LEMMA RestBounded ==
  ASSUME OutboxInv, NEW m \in Msgs, call[m] # "done"
  PROVE  LET rest == BoundChunks(ChunksOf[m] - sent[m])
         IN  /\ rest \in Nat \ {0} /\ sent[m] \in Nat /\ sent[m] + rest \in Nat
             /\ Took(got, m, sent[m]) /\ ToSet(got[m]) \subseteq 1 .. sent[m]
<1>1. SentSoFar(sent, whole, got, call, m)
  BY DEF OutboxInv
<1>2. sent[m] \in Nat /\ whole[m] \in Nat /\ ChunksOf[m] \in Nat /\ MaxChunks \in Nat \ {0}
  BY OutboxFacts, OutboxAssumption
<1> QED
  BY <1>1, <1>2 DEF SentSoFar, BoundChunks

LEMMA QueueGrows ==
  ASSUME OutboxInv, NEW m \in Msgs, call[m] # "done",
         NEW times \in Nat, NEW held \in BOOLEAN, EnqueueRest(m, times, held),
         call' = [call EXCEPT ![m] = "done"],
         UNCHANGED <<pass, sending, sent, quiet, revoked, got, crashed, putOffs>>,
         late' \in SUBSET (Msgs \X Nat), LateInTurn(late', whole', got, call'), lates' \in Nat
  PROVE  OutboxInv'
<1> DEFINE rest == BoundChunks(ChunksOf[m] - sent[m])
           entry == [left |-> rest, tries |-> times, due |-> FALSE, held |-> held]
<1>0. /\ box \in Boxes /\ IsInjective(box.order) /\ m \notin ToSet(box.order)
      /\ call \in [Msgs -> {"new", "await1", "again", "await2", "sending", "done"}]
      /\ whole \in [Msgs -> Nat]
  BY OutboxFacts DEF OutboxInv, QueuedOnce, In
<1>a. /\ rest \in Nat \ {0} /\ sent[m] \in Nat /\ sent[m] + rest \in Nat
      /\ Took(got, m, sent[m]) /\ ToSet(got[m]) \subseteq 1 .. sent[m]
  BY RestBounded
<1>1. /\ box' = Push(box, m, entry) /\ disk' = box' /\ gone' = gone \cup Evicted(box, m)
      /\ whole' = [whole EXCEPT ![m] = sent[m] + rest]
  BY DEF EnqueueRest, Persist
<1> HIDE DEF rest
<1>b. entry \in Entries /\ entry.left = rest
  BY <1>a DEF Entries
<1> HIDE DEF entry
<1>c. whole' \in [Msgs -> Nat] /\ whole'[m] = sent[m] + rest /\ \A x \in Msgs : x # m => whole'[x] = whole[x]
  BY <1>0, <1>1, <1>a
<1>2. /\ box' \in Boxes /\ IsInjective(box'.order) /\ Evicted(box, m) \subseteq Msgs
      /\ ToSet(box'.order) \subseteq ToSet(box.order) \cup {m}
      /\ (ToSet(box.order) \cup {m}) \ Evicted(box, m) \subseteq ToSet(box'.order)
      /\ \A x \in Msgs : x # m => box'.of[x] = box.of[x]
      /\ m \in ToSet(box'.order) => box'.of[m] = entry
  <2>1. Pushed(box, m, entry, box')
    BY <1>0, <1>1, <1>b, PushAdds
  <2> QED
    BY <2>1 DEF Pushed
<1>3. /\ call' \in [Msgs -> {"new", "await1", "again", "await2", "sending", "done"}]
      /\ call'[m] = "done" /\ \A x \in Msgs : x # m => call'[x] = call[x]
  BY <1>0
<1>4. OutboxTypeOK'
  BY <1>1, <1>2, <1>3, <1>c DEF OutboxInv, OutboxTypeOK
<1>5. SavedAsHeld(box', disk') /\ InHand(pass', sending') /\ LateInTurn(late', whole', got', call')
  BY <1>1 DEF OutboxInv, SavedAsHeld
<1>d. InOrder(whole', got')
  <2>1. InOrder(whole, got)
    BY DEF OutboxInv
  <2>2. ToSet(got[m]) \subseteq 1 .. whole'[m]
    <3>1. 1 .. sent[m] \subseteq 1 .. whole'[m]
      BY <1>a, <1>c
    <3> QED
      BY <1>a, <3>1
  <2> QED
    BY <1>c, <2>1, <2>2 DEF InOrder
<1>6. QueuedOnce(box', call')
  BY <1>0, <1>2, <1>3 DEF OutboxInv, QueuedOnce, In
<1>7. ASSUME NEW x \in Msgs PROVE Remains(box', whole', got', pass', call', x)
  <2>1. Remains(box, whole, got, pass, call, x)
    BY DEF OutboxInv
  <2>2. CASE x # m
    <3>1. box'.of[x] = box.of[x] /\ whole'[x] = whole[x] /\ call'[x] = call[x] /\ (In(box', x) => In(box, x))
      BY <1>2, <1>3, <1>c, <2>2 DEF In
    <3> QED
      BY <2>1, <3>1 DEF Remains
  <2>3. CASE x = m
    <3>1. pass'.hand # m
      BY <2>1, <2>3 DEF Remains
    <3>2. In(box', m) => box'.of[m].left = rest
      BY <1>2, <1>b DEF In
    <3>3. rest # 0 /\ rest <= whole'[m] /\ whole'[m] - rest = sent[m]
      BY <1>a, <1>c
    <3> QED
      BY <1>3, <1>a, <2>3, <3>1, <3>2, <3>3 DEF Remains
  <2> QED
    BY <2>2, <2>3
<1>8. ASSUME NEW x \in Msgs PROVE SentSoFar(sent', whole', got', call', x)
  <2>1. SentSoFar(sent, whole, got, call, x)
    BY DEF OutboxInv
  <2>2. CASE x # m
    BY <1>3, <1>c, <2>1, <2>2 DEF SentSoFar
  <2>3. CASE x = m
    BY <1>3, <1>a, <1>c, <2>3 DEF SentSoFar
  <2> QED
    BY <2>2, <2>3
<1>9. ASSUME NEW x \in Msgs PROVE Covered(x)'
  <2>1. Covered(x)
    BY DEF OutboxInv
  <2>2. In(box, x) => In(box', x) \/ x \in gone'
    BY <1>1, <1>2 DEF In
  <2>3. x = m => In(box', x) \/ x \in gone'
    BY <1>1, <1>2 DEF In
  <2>4. x # m => whole'[x] = whole[x] /\ call'[x] = call[x] /\ got'[x] = got[x]
    BY <1>3, <1>c
  <2>5. x \in gone => x \in gone'
    BY <1>1
  <2> QED
    BY <2>1, <2>2, <2>3, <2>4, <2>5 DEF Covered
<1> QED
  BY <1>4, <1>5, <1>d, <1>6, <1>7, <1>8, <1>9 DEF OutboxInv

LEMMA HoldKeeps ==
  ASSUME OutboxInv, NEW m \in Msgs, Hold(m)
  PROVE  OutboxInv'
<1>1. /\ call[m] # "done" /\ EnqueueRest(m, 0, TRUE)
      /\ call' = [call EXCEPT ![m] = "done"]
      /\ UNCHANGED <<pass, sending, sent, quiet, revoked, late, got, counts>>
  BY DEF Hold
<1>2. /\ late \in SUBSET (Msgs \X Nat) /\ lates \in Nat /\ LateInTurn(late, whole, got, call)
      /\ call \in [Msgs -> {"new", "await1", "again", "await2", "sending", "done"}]
      /\ whole \in [Msgs -> Nat]
  BY OutboxFacts DEF OutboxInv
<1>3. LateInTurn(late', whole', got, call')
  <2>1. \A x \in late : x[1] \in Msgs /\ x[1] # m
    BY <1>1, <1>2 DEF LateInTurn
  <2>2. \A x \in Msgs : x # m => whole'[x] = whole[x] /\ call'[x] = call[x]
    BY <1>1, <1>2 DEF EnqueueRest
  <2>3. late' = late
    BY <1>1
  <2> QED
    BY <1>2, <2>1, <2>2, <2>3 DEF LateInTurn
<1>4. /\ late' \in SUBSET (Msgs \X Nat) /\ lates' \in Nat
      /\ UNCHANGED <<pass, sending, sent, quiet, revoked, got, crashed, putOffs>>
  BY <1>1, <1>2 DEF counts
<1> QED
  BY <1>1, <1>3, <1>4, QueueGrows

\* A send whose time is up may still arrive, in turn.
LEMMA TimesOutInTurn ==
  ASSUME OutboxInv, NEW m \in Msgs, NEW w \in [Msgs -> Nat], NEW cl, NEW c \in 1 .. w[m],
         Took(got, m, c - 1), cl[m] = "done",
         \A x \in Msgs : call[x] = "done" => w[x] = whole[x] /\ cl[x] = "done",
         NEW permanent \in BOOLEAN,
         IF permanent THEN UNCHANGED <<late, lates>> ELSE TimesOut(m, c)
  PROVE  late' \in SUBSET (Msgs \X Nat) /\ LateInTurn(late', w, got, cl) /\ lates' \in Nat
<1>1. late \in SUBSET (Msgs \X Nat) /\ LateInTurn(late, whole, got, call) /\ lates \in Nat /\ c \in Nat
  BY OutboxFacts DEF OutboxInv
<1>a. LateInTurn(late, w, got, cl)
  <2>1. \A x \in late : x[1] \in Msgs
    BY <1>1
  <2> QED
    BY <1>1, <2>1 DEF LateInTurn
<1>2. CASE UNCHANGED <<late, lates>>
  BY <1>1, <1>a, <1>2
<1>3. CASE late' = late \cup {<<m, c>>} /\ lates' = lates + 1
  <2>1. late' \in SUBSET (Msgs \X Nat) /\ lates' \in Nat
    BY <1>1, <1>3
  <2>2. ASSUME NEW x \in late' PROVE x[2] \in 1 .. w[x[1]] /\ Took(got, x[1], x[2] - 1) /\ cl[x[1]] = "done"
    <3>1. CASE x \in late
      BY <1>a, <3>1 DEF LateInTurn
    <3>2. CASE x = <<m, c>>
      BY <3>2
    <3> QED
      BY <1>3, <3>1, <3>2
  <2> QED
    BY <2>1, <2>2 DEF LateInTurn
<1> QED
  BY <1>2, <1>3 DEF TimesOut

LEMMA DeliverFailedKeeps ==
  ASSUME OutboxInv, NEW m \in Msgs, NEW permanent \in BOOLEAN, DeliverFailed(m, permanent)
  PROVE  OutboxInv'
<1>1. /\ call[m] = "sending" /\ call' = [call EXCEPT ![m] = "done"]
      /\ IF permanent THEN UNCHANGED <<late, lates>> ELSE TimesOut(m, sent[m] + 1)
      /\ UNCHANGED <<pass, sending, sent, quiet, revoked, got, crashed, putOffs>>
      /\ \/ gone' = gone \cup {m} /\ UNCHANGED <<box, disk, whole>>
         \/ EnqueueRest(m, 1, FALSE)
  BY DEF DeliverFailed
<1>2. /\ sent[m] \in Nat /\ whole \in [Msgs -> Nat] /\ sent[m] < whole[m] /\ Took(got, m, sent[m])
      /\ call \in [Msgs -> {"new", "await1", "again", "await2", "sending", "done"}]
  BY <1>1, OutboxFacts DEF OutboxInv, SentSoFar
<1>3. /\ call' \in [Msgs -> {"new", "await1", "again", "await2", "sending", "done"}]
      /\ call'[m] = "done" /\ \A x \in Msgs : x # m => call'[x] = call[x]
  BY <1>1, <1>2
<1>4. ASSUME whole' \in [Msgs -> Nat], sent[m] < whole'[m], \A x \in Msgs : x # m => whole'[x] = whole[x]
      PROVE  late' \in SUBSET (Msgs \X Nat) /\ LateInTurn(late', whole', got, call') /\ lates' \in Nat
  <2>1. sent[m] + 1 \in 1 .. whole'[m] /\ (sent[m] + 1) - 1 = sent[m]
    BY <1>2, <1>4
  <2>2. \A x \in Msgs : call[x] = "done" => whole'[x] = whole[x] /\ call'[x] = "done"
    BY <1>1, <1>3, <1>4
  <2> DEFINE c == sent[m] + 1
  <2>3. /\ c \in 1 .. whole'[m] /\ Took(got, m, c - 1) /\ call'[m] = "done"
        /\ IF permanent THEN UNCHANGED <<late, lates>> ELSE TimesOut(m, c)
    BY <1>1, <1>2, <1>3, <2>1
  <2> HIDE DEF c
  <2> QED
    BY <1>4, <2>2, <2>3, TimesOutInTurn
<1>5. CASE gone' = gone \cup {m} /\ UNCHANGED <<box, disk, whole>>
  <2>1. late' \in SUBSET (Msgs \X Nat) /\ LateInTurn(late', whole, got', call') /\ lates' \in Nat
    BY <1>1, <1>2, <1>4, <1>5
  <2>2. OutboxTypeOK'
    BY <1>1, <1>3, <1>5, <2>1 DEF OutboxInv, OutboxTypeOK
  <2>3. SavedAsHeld(box', disk') /\ InHand(pass', sending') /\ InOrder(whole, got') /\ Grown(got, got')
    BY <1>1, <1>5 DEF OutboxInv, Grown
  <2>4. \A x \in Msgs : SentSoFar(sent', whole, got', call', x)
    BY <1>1, <1>3 DEF OutboxInv, SentSoFar
  <2>5. \A x \in Msgs : /\ call[x] = "done" => call'[x] = "done"
                        /\ call'[x] = "done" => call[x] = "done" \/ x \in gone'
    BY <1>3, <1>5
  <2> QED
    BY <1>1, <1>5, <2>1, <2>2, <2>3, <2>4, <2>5, QueueRests
<1>6. CASE EnqueueRest(m, 1, FALSE)
  <2> DEFINE rest == BoundChunks(ChunksOf[m] - sent[m])
  <2>1. rest \in Nat \ {0} /\ sent[m] + rest \in Nat
    BY <1>1, RestBounded
  <2>2. whole' = [whole EXCEPT ![m] = sent[m] + rest]
    BY <1>6 DEF EnqueueRest
  <2> HIDE DEF rest
  <2>3. /\ whole' \in [Msgs -> Nat] /\ sent[m] < whole'[m]
        /\ \A x \in Msgs : x # m => whole'[x] = whole[x]
    BY <1>2, <2>1, <2>2
  <2>4. late' \in SUBSET (Msgs \X Nat) /\ LateInTurn(late', whole', got, call') /\ lates' \in Nat
    BY <1>4, <2>3
  <2> QED
    BY <1>1, <1>6, <2>4, QueueGrows
<1> QED
  BY <1>1, <1>5, <1>6

--------------------------------------------------------------------------------
\* An entry leaves the queue: sent to its end, or dropped with a log line.
LEMMA EntryLeaves ==
  ASSUME OutboxInv, NEW m \in Msgs,
         Persist(RemoveEntry(box, m)),
         pass' \in PassRecords, pass'.hand = NoMsg, sending' = NoMsg,
         UNCHANGED <<call, sent, whole, quiet, revoked, crashed, putOffs>>,
         gone \subseteq gone', gone' \subseteq Msgs,
         got' \in [Msgs -> Seq(Nat)], InOrder(whole, got'), Grown(got, got'),
         late' \in SUBSET (Msgs \X Nat), LateInTurn(late', whole, got', call), lates' \in Nat,
         \A x \in Msgs : call[x] # "done" => got'[x] = got[x],
         call[m] = "done" => m \in gone' \/ ToSet(got'[m]) = 1 .. whole[m]
  PROVE  OutboxInv'
<1>0. box \in Boxes /\ IsInjective(box.order)
  BY OutboxFacts DEF OutboxInv, QueuedOnce
<1>1. box' = RemoveEntry(box, m) /\ disk' = box'
  BY DEF Persist
<1>2. /\ box' \in Boxes /\ IsInjective(box'.order)
      /\ ToSet(box'.order) = ToSet(box.order) \ {m} /\ box'.of[m].left = 0
      /\ \A x \in Msgs : x # m => box'.of[x] = box.of[x]
  <2> DEFINE c == RemoveEntry(box, m)
  <2>1. /\ c \in Boxes /\ IsInjective(c.order)
        /\ ToSet(c.order) = ToSet(box.order) \ {m} /\ c.of[m].left = 0
        /\ \A x \in Msgs : x # m => c.of[x] = box.of[x]
    BY <1>0, RemoveTakes
  <2>2. box' = c
    BY <1>1
  <2> HIDE DEF c
  <2> QED
    BY <2>1, <2>2
<1>3. OutboxTypeOK'
  BY <1>1, <1>2 DEF OutboxInv, OutboxTypeOK, PassRecords
<1>4. SavedAsHeld(box', disk') /\ InHand(pass', sending')
  BY <1>1 DEF SavedAsHeld, InHand
<1>5. QueuedOnce(box', call')
  BY <1>2 DEF OutboxInv, QueuedOnce, In
<1>6. \A x \in Msgs : \A n : Took(got, x, n) => Took(got', x, n)
  BY GrownKeeps
<1>7. ASSUME NEW x \in Msgs PROVE Remains(box', whole, got', pass', call', x)
  <2>1. Remains(box, whole, got, pass, call, x) /\ pass'.hand # x /\ whole[x] \in Nat
    BY OutboxAssumption, OutboxFacts DEF OutboxInv
  <2>2. CASE x = m
    BY <1>2, <2>1, <2>2 DEF Remains, In
  <2>3. CASE x # m
    <3>1. box'.of[x] = box.of[x] /\ (In(box', x) => In(box, x))
      BY <1>2, <2>3 DEF In
    <3> QED
      BY <1>6, <2>1, <3>1 DEF Remains
  <2> QED
    BY <2>2, <2>3
<1>8. \A x \in Msgs : SentSoFar(sent', whole, got', call', x)
  BY <1>6 DEF OutboxInv, SentSoFar
<1>9. ASSUME NEW x \in Msgs PROVE Covered(x)'
  <2>1. Covered(x)
    BY DEF OutboxInv
  <2>2. x # m => (In(box, x) => In(box', x))
    BY <1>2 DEF In
  <2>3. ToSet(got[x]) = 1 .. whole[x] => ToSet(got'[x]) = 1 .. whole[x]
    BY DEF InOrder, Grown
  <2> QED
    BY <2>1, <2>2, <2>3 DEF Covered
<1> QED
  BY <1>3, <1>4, <1>5, <1>7, <1>8, <1>9 DEF OutboxInv

LEMMA DropRevokedKeeps ==
  ASSUME OutboxInv, NEW m \in Msgs, DropRevoked(m)
  PROVE  OutboxInv'
<1>1. /\ Persist(RemoveEntry(box, m)) /\ gone' = gone \cup {m} /\ pass' = NextEntry(pass, m)
      /\ sending = NoMsg /\ UNCHANGED <<sending, call, sent, whole, quiet, revoked, late, got, counts>>
  BY DEF DropRevoked, Ready, AtEntry
<1>2. pass' \in PassRecords /\ pass'.hand = NoMsg
  BY <1>1, OutboxFacts, PassMovesOn
<1>3. /\ gone \subseteq gone' /\ gone' \subseteq Msgs /\ got' \in [Msgs -> Seq(Nat)]
      /\ InOrder(whole, got') /\ Grown(got, got') /\ late' \in SUBSET (Msgs \X Nat)
      /\ LateInTurn(late', whole, got', call) /\ lates' \in Nat
      /\ \A x \in Msgs : call[x] # "done" => got'[x] = got[x]
  BY <1>1, OutboxFacts DEF OutboxInv, Grown, counts
<1>4. m \in gone' /\ sending' = NoMsg /\ UNCHANGED <<call, sent, whole, quiet, revoked, crashed, putOffs>>
  BY <1>1 DEF counts
<1> QED
  BY <1>1, <1>2, <1>3, <1>4, EntryLeaves

LEMMA DrainFailedKeeps ==
  ASSUME OutboxInv, NEW m \in Msgs, NEW permanent \in BOOLEAN, DrainFailed(m, permanent)
  PROVE  OutboxInv'
<1>1. /\ sending = m /\ sending' = NoMsg
      /\ pass' = [NextEntry(pass, m) EXCEPT !.failed = @ \cup {ChatOf[m]}]
      /\ \/ Persist(RemoveEntry(box, m)) /\ gone' = gone \cup {m}
         \/ /\ Persist([box EXCEPT !.of[m].tries = @ + 1, !.of[m].due = FALSE])
            /\ UNCHANGED gone
      /\ IF permanent THEN UNCHANGED <<late, lates>> ELSE TimesOut(m, ChunkNo(m))
      /\ UNCHANGED <<call, sent, whole, quiet, revoked, got, crashed, putOffs>>
  BY DEF DrainFailed
<1>2. pass' \in PassRecords /\ pass'.hand = NoMsg
  BY <1>1, OutboxFacts, PassMovesOn
<1>3. ChunkNo(m) \in 1 .. whole[m] /\ Took(got, m, ChunkNo(m) - 1) /\ call[m] = "done"
  BY <1>1, ChunkInHand
<1>4. late' \in SUBSET (Msgs \X Nat) /\ LateInTurn(late', whole, got, call) /\ lates' \in Nat
  <2>1. whole \in [Msgs -> Nat]
    BY OutboxFacts
  <2> QED
    BY <1>1, <1>3, <2>1, TimesOutInTurn
<1>5. CASE Persist(RemoveEntry(box, m)) /\ gone' = gone \cup {m}
  <2>1. /\ gone \subseteq gone' /\ gone' \subseteq Msgs /\ got' \in [Msgs -> Seq(Nat)]
        /\ InOrder(whole, got') /\ Grown(got, got') /\ LateInTurn(late', whole, got', call) /\ m \in gone'
        /\ \A x \in Msgs : call[x] # "done" => got'[x] = got[x]
    BY <1>1, <1>4, <1>5, OutboxFacts DEF OutboxInv, Grown
  <2> QED
    BY <1>1, <1>2, <1>4, <1>5, <2>1, EntryLeaves
<1>6. CASE /\ Persist([box EXCEPT !.of[m].tries = @ + 1, !.of[m].due = FALSE])
           /\ UNCHANGED gone
  <2> DEFINE t == box.of[m].tries + 1
             c == [box EXCEPT !.of[m].tries = t, !.of[m].due = FALSE]
  <2>0. box \in Boxes /\ box.of[m] \in Entries
    BY OutboxFacts
  <2>1. t \in Nat
    BY <2>0 DEF Entries
  <2>2. [box EXCEPT !.of[m].tries = @ + 1, !.of[m].due = FALSE] = c
    BY <2>0 DEF Boxes, Entries
  <2>3. box' = c /\ disk' = c
    BY <1>6, <2>2 DEF Persist
  <2> HIDE DEF t
  <2>4. c \in Boxes /\ c.order = box.order /\ \A x \in Msgs : c.of[x].left = box.of[x].left
    BY <2>0, <2>1, Retimed
  <2> HIDE DEF c
  <2>5. OutboxTypeOK'
    BY <1>1, <1>2, <1>4, <1>6, <2>3, <2>4 DEF OutboxInv, OutboxTypeOK, PassRecords
  <2>6. SavedAsHeld(box', disk') /\ InHand(pass', sending')
    BY <1>1, <1>2, <2>3 DEF SavedAsHeld, InHand
  <2> QED
    BY <1>1, <1>2, <1>4, <1>6, <2>3, <2>4, <2>5, <2>6, NothingMoves
<1> QED
  BY <1>1, <1>5, <1>6

LEMMA ChunkSentKeeps ==
  ASSUME OutboxInv, NEW m \in Msgs, DrainSent(m)
  PROVE  OutboxInv'
<1> DEFINE c == ChunkNo(m)
           left == box.of[m].left
<1>1. /\ sending = m /\ sending' = NoMsg /\ got' = [got EXCEPT ![m] = Append(@, c)]
      /\ Persist(IF left = 1 THEN RemoveEntry(box, m) ELSE [box EXCEPT !.of[m].left = @ - 1])
      /\ pass' = IF left = 1 THEN NextEntry(pass, m) ELSE pass
      /\ UNCHANGED <<call, sent, whole, quiet, revoked, late, gone, counts>>
  BY DEF DrainSent
<1>2. /\ pass.hand = m /\ left \in Nat \ {0} /\ left <= whole[m]
      /\ c \in 1 .. whole[m] /\ Took(got, m, c - 1) /\ c - 1 = whole[m] - left /\ call[m] = "done"
  BY <1>1, ChunkInHand
<1>3. /\ got' \in [Msgs -> Seq(Nat)] /\ InOrder(whole, got') /\ Grown(got, got') /\ LateInTurn(late', whole, got', call)
      /\ ToSet(got'[m]) = ToSet(got[m]) \cup {c}
      /\ \A x \in Msgs : x # m => got'[x] = got[x]
  BY <1>1, <1>2, ChunkTaken
<1>c. \A x \in Msgs : call[x] # "done" => got'[x] = got[x]
  BY <1>2, <1>3
<1>0. /\ whole[m] \in Nat /\ box \in Boxes /\ pass \in PassRecords /\ gone \subseteq Msgs
      /\ late \in SUBSET (Msgs \X Nat) /\ lates \in Nat
  BY OutboxFacts
<1>4. Took(got', m, whole[m] - left + 1)
  <2>1. 1 .. c - 1 \subseteq ToSet(got[m])
    BY <1>2 DEF Took
  <2>2. whole[m] - left + 1 = c /\ 1 .. c \subseteq (1 .. c - 1) \cup {c}
    BY <1>0, <1>2
  <2> QED
    BY <1>3, <2>1, <2>2 DEF Took
<1>a. sending' = NoMsg /\ UNCHANGED <<call, sent, whole, quiet, revoked, crashed, putOffs>>
  BY <1>1 DEF counts
<1>b. /\ gone \subseteq gone' /\ gone' \subseteq Msgs /\ gone' = gone
      /\ late' \in SUBSET (Msgs \X Nat) /\ lates' \in Nat
  BY <1>0, <1>1 DEF counts
<1> HIDE DEF c
<1>5. CASE left = 1
  <2>1. Persist(RemoveEntry(box, m)) /\ pass' = NextEntry(pass, m)
    BY <1>1, <1>5
  <2>2. pass' \in PassRecords /\ pass'.hand = NoMsg
    BY <1>0, <2>1, PassMovesOn
  <2>3. ToSet(got'[m]) = 1 .. whole[m]
    <3>1. whole[m] - left + 1 = whole[m]
      BY <1>0, <1>5
    <3> QED
      BY <1>3, <1>4, <3>1 DEF Took, InOrder
  <2> QED
    BY <1>3, <1>a, <1>b, <1>c, <2>1, <2>2, <2>3, EntryLeaves
<1>6. CASE left # 1
  <2> DEFINE b == [box EXCEPT !.of[m].left = @ - 1]
  <2>1. box' = b /\ disk' = b /\ pass' = pass
    BY <1>1, <1>6 DEF Persist
  <2>2. /\ b \in Boxes /\ b.order = box.order /\ b.of[m].left = left - 1
        /\ \A x \in Msgs : x # m => b.of[x] = box.of[x]
    BY <1>0, <1>2, Shortened
  <2> HIDE DEF b
  <2>3. OutboxTypeOK'
    BY <1>0, <1>1, <1>3, <1>a, <1>b, <2>1, <2>2 DEF OutboxInv, OutboxTypeOK
  <2>4. SavedAsHeld(box', disk') /\ InHand(pass', sending') /\ QueuedOnce(box', call')
    BY <1>a, <2>1, <2>2 DEF OutboxInv, SavedAsHeld, InHand, QueuedOnce, In
  <2>5. \A x \in Msgs : \A n : Took(got, x, n) => Took(got', x, n)
    BY <1>3, GrownKeeps
  <2>6. ASSUME NEW x \in Msgs PROVE Remains(box', whole, got', pass', call', x)
    <3>1. Remains(box, whole, got, pass, call, x)
      BY DEF OutboxInv
    <3>2. CASE x = m
      <4>1. /\ left - 1 # 0 /\ left - 1 <= whole[m]
            /\ whole[m] - (left - 1) = whole[m] - left + 1
        BY <1>0, <1>2, <1>6
      <4>2. call'[m] = "done"
        BY <1>2, <1>a
      <4> HIDE DEF left
      <4> QED
        BY <1>4, <2>1, <2>2, <3>2, <4>1, <4>2 DEF Remains
    <3>3. CASE x # m
      BY <1>a, <2>1, <2>2, <2>5, <3>1, <3>3 DEF Remains, In
    <3> QED
      BY <3>2, <3>3
  <2>7. \A x \in Msgs : SentSoFar(sent', whole, got', call', x)
    BY <1>a, <1>c, <2>5 DEF OutboxInv, SentSoFar
  <2>8. ASSUME NEW x \in Msgs PROVE Covered(x)'
    <3>1. Covered(x) /\ (In(box', x) <=> In(box, x))
      BY <2>1, <2>2 DEF OutboxInv, In
    <3>2. ToSet(got[x]) = 1 .. whole[x] => ToSet(got'[x]) = 1 .. whole[x]
      BY <1>3 DEF InOrder, Grown
    <3> QED
      BY <1>a, <1>b, <3>1, <3>2 DEF Covered
  <2> QED
    BY <1>3, <1>a, <2>3, <2>4, <2>6, <2>7, <2>8 DEF OutboxInv
<1> QED
  BY <1>5, <1>6

--------------------------------------------------------------------------------
LEMMA OutboxStep == OutboxInv /\ [OutboxNext]_outboxVars => OutboxInv'
<1> SUFFICES ASSUME OutboxInv, [OutboxNext]_outboxVars PROVE OutboxInv'
  OBVIOUS
<1>1. ASSUME NEW m \in Msgs, Hold(m) PROVE OutboxInv'
  BY <1>1, HoldKeeps
<1>2. ASSUME NEW m \in Msgs, Calls(m) PROVE OutboxInv'
  BY <1>2, ReleaseKeeps, DeliverSentKeeps, DeliverFailedKeeps DEF Calls, Deliver
<1>3. ASSUME NEW m \in Msgs, Drains(m) PROVE OutboxInv'
  <2>1. CASE SkipEntry(m) \/ PutOff(m) \/ SendChunk(m)
    BY <2>1, SkipEntryKeeps, PutOffKeeps, SendChunkKeeps
  <2>2. CASE DropRevoked(m)
    BY <2>2, DropRevokedKeeps
  <2>3. CASE DrainSent(m)
    BY <2>3, ChunkSentKeeps
  <2>4. CASE \E permanent \in BOOLEAN : DrainFailed(m, permanent)
    BY <2>4, DrainFailedKeeps
  <2> QED
    BY <1>3, <2>1, <2>2, <2>3, <2>4 DEF Drains
<1>4. ASSUME NEW m \in Msgs, UnknownRecipient(m) \/ FallsDue(m) PROVE OutboxInv'
  BY <1>4, UnknownRecipientKeeps, FallsDueKeeps
<1>5. ASSUME NEW m \in Msgs, NEW c, TakenLate(m, c) PROVE OutboxInv'
  BY <1>5, TakenLateKeeps
<1>6. ASSUME NEW m \in Msgs, RevokeUser(m) PROVE OutboxInv'
  <2>1. quiet \in BOOLEAN /\ revoked \subseteq Msgs /\ putOffs \in Nat
    BY OutboxFacts
  <2> QED
    BY <1>6, <2>1, OutsideKeeps DEF RevokeUser, counts
<1>7. ASSUME QuietOpens \/ QuietEnds \/ UNCHANGED outboxVars PROVE OutboxInv'
  <2>1. quiet \in BOOLEAN /\ revoked \subseteq Msgs /\ putOffs \in Nat
    BY OutboxFacts
  <2>2. /\ UNCHANGED <<boxVars, late, got, gone, crashed, lates>>
        /\ quiet' \in BOOLEAN /\ revoked' \subseteq Msgs /\ putOffs' \in Nat
    <3>1. CASE QuietOpens
      BY <2>1, <3>1 DEF QuietOpens
    <3>2. CASE QuietEnds
      BY <2>1, <3>2 DEF QuietEnds, counts
    <3>3. CASE UNCHANGED outboxVars
      BY <2>1, <3>3 DEF outboxVars, outsideVars, counts
    <3> QED
      BY <1>7, <3>1, <3>2, <3>3
  <2> QED
    BY <2>2, OutsideKeeps
<1> QED
  BY <1>1, <1>2, <1>3, <1>4, <1>5, <1>6, <1>7, DrainKeeps, EndPassKeeps, CrashKeeps DEF OutboxNext

LEMMA OutboxStart == OutboxInit => OutboxInv
<1> SUFFICES ASSUME OutboxInit PROVE OutboxInv
  OBVIOUS
<1> USE OutboxAssumption
<1>1. /\ box = EmptyBox /\ disk = EmptyBox /\ pass = Idle /\ sending = NoMsg
      /\ call = [m \in Msgs |-> "new"] /\ sent = [m \in Msgs |-> 0] /\ whole = ChunksOf
      /\ quiet = FALSE /\ revoked = {} /\ late = {} /\ gone = {}
      /\ got = [m \in Msgs |-> <<>>]
      /\ crashed = 0 /\ lates = 0 /\ putOffs = 0
  BY DEF OutboxInit
<1>2. NoEntry \in Entries /\ NoEntry.left = 0
  BY DEF NoEntry, Entries
<1>3. /\ EmptyBox \in Boxes /\ EmptyBox.order = <<>> /\ \A m \in Msgs : EmptyBox.of[m].left = 0
  <2>1. [m \in Msgs |-> NoEntry] \in [Msgs -> Entries]
    BY <1>2
  <2>2. <<>> \in Seq(Msgs)
    OBVIOUS
  <2> QED
    BY <1>2, <2>1, <2>2 DEF EmptyBox, Boxes, Entries
<1>4. pass \in PassRecords /\ pass.hand = NoMsg
  BY <1>1 DEF PassRecords, Idle
<1>5. ToSet(<<>>) = {} /\ IsInjective(<<>>)
  BY DEF ToSet, IsInjective
<1>6. OutboxTypeOK
  <2>1. got \in [Msgs -> Seq(Nat)] /\ sent \in [Msgs -> Nat] /\ whole \in [Msgs -> Nat]
    BY <1>1
  <2> QED
    <3>1. call \in [Msgs -> {"new", "await1", "again", "await2", "sending", "done"}]
      BY <1>1
    <3>2. /\ late \subseteq Msgs \X Nat /\ revoked \subseteq Msgs /\ gone \subseteq Msgs
          /\ sending \in Msgs \cup {NoMsg}
      BY <1>1
    <3>4. {crashed, lates, putOffs} \subseteq Nat
      BY <1>1
    <3>5. quiet \in BOOLEAN
      BY <1>1
    <3>3. box \in Boxes /\ disk \in Boxes
      BY <1>1, <1>3
    <3> QED
      BY <1>4, <2>1, <3>1, <3>2, <3>3, <3>4, <3>5 DEF OutboxTypeOK, PassRecords
<1>7. SavedAsHeld(box, disk) /\ QueuedOnce(box, call) /\ InHand(pass, sending)
  BY <1>1, <1>3, <1>4, <1>5 DEF SavedAsHeld, QueuedOnce, InHand, In
<1>8. InOrder(whole, got) /\ LateInTurn(late, whole, got, call)
  BY <1>1, <1>5 DEF InOrder, LateInTurn
<1>9. ASSUME NEW m \in Msgs
      PROVE  Remains(box, whole, got, pass, call, m) /\ SentSoFar(sent, whole, got, call, m) /\ Covered(m)
  <2>1. /\ box.order = <<>> /\ box.of[m].left = 0 /\ sent[m] = 0 /\ call[m] = "new"
        /\ whole[m] = ChunksOf[m] /\ whole[m] \in Nat \ {0} /\ ToSet(got[m]) = {}
    BY <1>1, <1>3, <1>5
  <2>2. ~In(box, m) /\ pass.hand # m
    BY <1>4, <1>5, <2>1 DEF In
  <2>3. Took(got, m, 0)
    BY DEF Took
  <2> QED
    BY <2>1, <2>2, <2>3 DEF Remains, SentSoFar, Covered
<1> QED
  BY <1>6, <1>7, <1>8, <1>9 DEF OutboxInv

LEMMA OutboxAlways == OutboxSpec => []OutboxInv
BY OutboxStart, OutboxStep, PTL DEF OutboxSpec

LEMMA InvCovers == OutboxInv => ChunkSafety
<1> SUFFICES ASSUME OutboxInv PROVE ChunkSafety
  OBVIOUS
<1>1. ChunksInOrder
  BY DEF OutboxInv, InOrder, ChunksInOrder
<1>2. ASSUME NEW m \in Msgs, call[m] = "done", In(box, m)
      PROVE  /\ In(disk, m) /\ box.of[m].left = disk.of[m].left
             /\ 1 .. whole[m] - box.of[m].left \subseteq ToSet(got[m])
  <2>1. SavedAsHeld(box, disk) /\ Remains(box, whole, got, pass, call, m)
    BY DEF OutboxInv
  <2> QED
    BY <1>2, <2>1 DEF SavedAsHeld, Remains, Took, In
<1>3. \A m \in Msgs : Covered(m)
  BY DEF OutboxInv
<1>4. NoChunkSkipped
  BY <1>2, <1>3 DEF NoChunkSkipped, Covered
<1> QED
  BY <1>1, <1>4 DEF ChunkSafety

--------------------------------------------------------------------------------
\* The queue, the file, the pass and the deliver calls are well typed in every state.
THEOREM OutboxTypes == OutboxSpec => []OutboxTypeOK
<1>1. OutboxInv => OutboxTypeOK
  BY DEF OutboxInv
<1> QED
  BY <1>1, OutboxAlways, PTL

\* However passes, deliver calls, evictions, late arrivals and crashes interleave, no
\* chunk of a message is skipped, and Telegram has them in order.
THEOREM ChunksAreSafe == OutboxSpec => []ChunkSafety
BY InvCovers, OutboxAlways, PTL

--------------------------------------------------------------------------------
(* The parts side by side *)

LEMMA WorkParts == WorkSpec => JobsSpec /\ OutboxSpec /\ SupervisorSpec
<1>1. WorkInit => JobsInit /\ OutboxInit /\ SupervisorInit
  BY DEF WorkInit
<1>2. [MCJobs \/ MCOutbox \/ MCClaudes]_workVars =>
        [JobsNext]_jobVars /\ [OutboxNext]_outboxVars /\ [SupervisorNext]_supVars
  BY DEF MCJobs, MCOutbox, MCClaudes, workVars
<1> QED
  BY <1>1, <1>2, PTL DEF WorkSpec, JobsSpec, OutboxSpec, SupervisorSpec

\* The three parts share no state: jobs, messages and claudes keep their types
\* whichever of them moves.
THEOREM WorkTypes == WorkSpec => []WorkTypeOK
<1>1. JobTypeOK /\ OutboxTypeOK /\ SupervisorTypeOK => WorkTypeOK
  BY DEF WorkTypeOK
<1> QED
  BY <1>1, WorkParts, JobTypes, OutboxTypes, SupervisorTypes, PTL
================================================================================
