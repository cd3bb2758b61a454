----------------------------- MODULE PtySupervisor ------------------------------
(***************************************************************************)
(* The supervisor of the long-lived claude processes outside the bus       *)
(* (src/runner/pty-supervisor.ts with the quarantine of pty-quarantine.ts):*)
(* runOnPty admits a request to the entry of its key, queues it on the     *)
(* entry's lock, spawns or respawns a claude and runs one turn; a send     *)
(* (sendToLiveSession) uses a live claude and never spawns one.  Eviction, *)
(* the reaper, /kill, a failed turn and the shutdown retire entries.       *)
(*                                                                         *)
(* A key stands for its session.  A spawn, once started, belongs to its    *)
(* entry and goes on when the request that waited for it has given up.     *)
(* External: a claude boots, hangs or dies, and the OS may be unable to    *)
(* confirm that a killed one is gone.                                      *)
(***************************************************************************)
EXTENDS Naturals, FiniteSets, SequencesExt

CONSTANTS Keys,
          Adhoc,           \* the keys of kind "adhoc", which may be evicted
          AlwaysAlive,     \* the keys of named agents, never reaped
          Ephemeral,       \* the keys of one-shot runs
          SurvivesKill,    \* the keys /kill does not reach
          Reqs,            \* the calls of runOnPty
          Sends,           \* the calls of sendToLiveSession
          KeyOf,           \* the key of each call
          MaxPtys,         \* settings.pty.maxConcurrent
          MaxRetries, RespawnRetries,
          Casts            \* bounds: the calls one behaviour makes, the keys with a claude idle
                           \* from earlier calls, and how often an exit is not confirmed, a
                           \* claude dies and the supervisor shuts down

\* Earlier calls have left one entry of a key, and kept the cap themselves.
WithinCap(warm) ==
  \/ Len(warm) <= MaxPtys
  \/ \A i, j \in DOMAIN warm : {warm[i], warm[j]} \subseteq Adhoc => i = j

ASSUME SupervisorAssumption ==
  /\ IsFiniteSet(Reqs) /\ Reqs \cap Sends = {}
  /\ Adhoc \cup AlwaysAlive \cup Ephemeral \cup SurvivesKill \subseteq Keys
  /\ KeyOf \in [Reqs \cup Sends -> Keys]
  /\ Casts \subseteq [calls : SUBSET (Reqs \cup Sends), warm : Seq(Keys),
                     faults : Nat, deaths : Nat, shutdowns : Nat]
  /\ \A cast \in Casts : IsInjective(cast.warm) /\ WithinCap(cast.warm)
  /\ {MaxPtys, RespawnRetries} \subseteq Nat \ {0}
  /\ MaxRetries \in Nat

VARIABLES entries,     \* every PtyEntry made so far
          ptys,        \* state.ptys: the entry of each key, 0 without one
          unproven,    \* quarantine records of the claude of an entry
          standIns,    \* quarantine records of the pending spawn of an entry
          admissions,  \* _admissionLock: its holder and those queued behind it
          shuttingDown,
          overtaken,   \* the requests in admission when a shutdown began: shutdownEpoch differs
          step,        \* where each call is
          at,          \* the entry it uses, waits for or has looked at, 0 for none
          tries,       \* its turns and respawns that failed
          abandoned,   \* requests answered at their deadline whose admission goes on
          misreported, \* history: where a send said not-live beside a live claude
          faults, deaths, shutdowns   \* how often they may still happen

recordVars == <<unproven, standIns>>
callVars == <<step, at, tries>>
lockVars == <<admissions, shuttingDown, overtaken, abandoned>>
historyVars == <<misreported, faults, deaths, shutdowns>>
supVars == <<entries, ptys, recordVars, lockVars, callVars, historyVars>>

SupCalls == Reqs \cup Sends
EntryIds == DOMAIN entries

NoTries == [turns |-> 0, respawns |-> 0]

\* claude: "none" (entry.pty is null), "alive", "closed" (its exit was reported), "gone"
\*   (its exit is proven).  While spawn is "boot" or "late" it is the child of the spawn.
\* spawn: the step spawnInFlight has reached.  lock: its holder, then those waiting.
NewEntry(k) ==
  [key |-> k, claude |-> "none", spawn |-> "none", retiring |-> "no", lock |-> <<>>]

PlaceIn(warm, k) == SelectInSeq(warm, LAMBDA x : x = k)

SupervisorInit ==
  /\ \E cast \in Casts :
       /\ entries = [e \in DOMAIN cast.warm |-> [NewEntry(cast.warm[e]) EXCEPT !.claude = "alive"]]
       /\ ptys = [k \in Keys |-> PlaceIn(cast.warm, k)]
       /\ step = [c \in SupCalls |-> IF c \in cast.calls THEN "idle" ELSE "done"]
       /\ faults = cast.faults /\ deaths = cast.deaths /\ shutdowns = cast.shutdowns
  /\ unproven = {} /\ standIns = {}
  /\ admissions = <<>>
  /\ shuttingDown = FALSE /\ overtaken = {} /\ abandoned = {}
  /\ at = [c \in SupCalls |-> 0]
  /\ tries = [c \in SupCalls |-> NoTries]
  /\ misreported = {}

--------------------------------------------------------------------------------
\* Entries and the quarantine.

EntryOf(c) == ptys[KeyOf[c]]

IsCurrent(e) == ptys[entries[e].key] = e /\ entries[e].retiring = "no"

\* retireEntry up to its first await: a second call joins the first.
Retire(es, e) == IF es[e].retiring = "no" THEN [es EXCEPT ![e].retiring = "running"] ELSE es

RetireAll(S) == [e \in EntryIds |-> IF e \in S THEN Retire(entries, e)[e] ELSE entries[e]]

OfKey(k, S) == {e \in S : entries[e].key = k}

Quarantined(k) == OfKey(k, unproven \cup standIns) # {}

\* isFenced: a retirement, or the disposal of a dead or a late claude, is under way.
Fenced(k) ==
  \E e \in EntryIds : /\ entries[e].key = k
                      /\ entries[e].retiring = "running" \/ entries[e].spawn \in {"dispose", "late"}

\* tryRelease: a stand-in answers once its spawn has settled, a claude when the OS does.
SettledOf(k) == {e \in OfKey(k, standIns) : entries[e].spawn = "none"}

ConfirmGone(S) ==
  [e \in EntryIds |-> IF e \in S /\ entries[e].claude # "none"
                        THEN [entries[e] EXCEPT !.claude = "gone"] ELSE entries[e]]

\* assertSessionWritable asks the processes recorded for a key to prove their exit,
\* those in S do; it lets the caller pass if no record is left.
Asks(k, S) ==
  /\ S \in {{}, OfKey(k, unproven)}
  /\ unproven' = unproven \ S
  /\ standIns' = standIns \ SettledOf(k)

Passes(k, S) == OfKey(k, unproven) \subseteq S /\ OfKey(k, standIns) = SettledOf(k)

--------------------------------------------------------------------------------
\* Ends of a call, on the entries es it has reached.

Ends(c) ==
  /\ step' = [step EXCEPT ![c] = "done"]
  /\ at' = [at EXCEPT ![c] = 0]
  /\ tries' = [tries EXCEPT ![c] = NoTries]

Moves(c, where, e) ==
  /\ step' = [step EXCEPT ![c] = where]
  /\ at' = [at EXCEPT ![c] = e]
  /\ UNCHANGED tries

\* A call frees the lock, or gives up its place in it: those behind it stay behind
\* its predecessor.
Unlock(es, e, c) == [es EXCEPT ![e].lock = RemoveFirst(@, c)]

\* A one-shot run retires its entry on the way out and waits for it.
Leaves(c, e, es) ==
  IF KeyOf[c] \in Ephemeral
    THEN entries' = Retire(Unlock(es, e, c), e) /\ Moves(c, "ending", e)
    ELSE entries' = Unlock(es, e, c) /\ Ends(c)

\* One round of runTurnWithRetries: a claude that is gone before the prompt is
\* written fails the turn, which is retried.
RunTurn(c, e, es) ==
  IF es[e].claude = "alive"
    THEN entries' = es /\ Moves(c, "turn", e)
  ELSE IF tries[c].turns < MaxRetries /\ KeyOf[c] \notin Ephemeral
    THEN /\ entries' = es
         /\ step' = [step EXCEPT ![c] = "backoff"]
         /\ tries' = [tries EXCEPT ![c] = [turns |-> @.turns + 1, respawns |-> 0]]
         /\ UNCHANGED at
  ELSE Leaves(c, e, es)

\* The spawn of e settles: the lock's holder resumes if it still waits for it.
SpawnSettles(e, es, how) ==
  LET waiting == {c \in Reqs : at[c] = e /\ step[c] \in {"spawn", "respawn"}}
      settled == [es EXCEPT ![e].spawn = "none"]
  IN  IF waiting = {}
        THEN entries' = settled /\ UNCHANGED callVars
        ELSE \E c \in waiting :
          IF how = "ok" THEN RunTurn(c, e, settled)
          ELSE IF how = "failed" /\ step[c] = "respawn" /\ tries[c].respawns + 1 < RespawnRetries
            THEN /\ entries' = settled
                 /\ step' = [step EXCEPT ![c] = "backoff"]
                 /\ tries' = [tries EXCEPT ![c].respawns = @ + 1]
                 /\ UNCHANGED at
          ELSE Leaves(c, e, settled)

--------------------------------------------------------------------------------
\* runOnPty: admission.

\* refuseIfShuttingDown: the flag, and the epoch taken when the admission began.
Refused(c) == shuttingDown \/ c \in overtaken

Request(c) ==
  /\ step[c] = "idle"
  /\ IF Refused(c) THEN Ends(c) ELSE Moves(c, "admit", 0)
  /\ UNCHANGED <<entries, ptys, recordVars, lockVars, historyVars>>

\* admitEntry up to the lock: it waits for a retirement on the key, then passes the gate.
Admit(c) ==
  /\ step[c] = "admit"
  /\ IF Refused(c)
       THEN Ends(c) /\ UNCHANGED <<entries, recordVars, admissions>>
       ELSE /\ EntryOf(c) # 0 => entries[EntryOf(c)].retiring = "no"
            /\ \E S \in SUBSET unproven :
                 /\ Asks(KeyOf[c], S)
                 /\ entries' = ConfirmGone(S)
                 /\ IF Passes(KeyOf[c], S)
                      THEN Moves(c, "queued", 0) /\ admissions' = Append(admissions, c)
                      ELSE Ends(c) /\ UNCHANGED admissions
  /\ UNCHANGED <<ptys, shuttingDown, overtaken, abandoned, historyVars>>

\* The end of a shutdown puts a fresh lock in place: what it overtook is one chain,
\* what came later another.
HoldsAdmission(c) ==
  \E i \in DOMAIN admissions :
    /\ admissions[i] = c
    /\ \A k \in 1 .. i - 1 : (admissions[k] \in overtaken) # (c \in overtaken)

\* getOrCreateEntry.  A request answered at its deadline makes no use of the entry;
\* a one-shot's is retired at once.
GetOrCreate(c) ==
  LET k  == KeyOf[c]
      e  == IF EntryOf(c) = 0 THEN Len(entries) + 1 ELSE EntryOf(c)
      es == IF EntryOf(c) = 0 THEN Append(entries, NewEntry(k)) ELSE entries
  IN  /\ ptys' = [ptys EXCEPT ![k] = e]
      /\ IF c \notin abandoned
           THEN entries' = [es EXCEPT ![e].lock = Append(@, c)] /\ Moves(c, "wait", e)
           ELSE entries' = (IF k \in Ephemeral THEN Retire(es, e) ELSE es) /\ Ends(c)

Counted == {e \in EntryIds : IsCurrent(e) /\ entries[e].key \notin Ephemeral}

\* The candidates of enforceMaxConcurrent; which was used least recently is left open.
Victims(c) ==
  IF KeyOf[c] \in Ephemeral \/ EntryOf(c) # 0 \/ Cardinality(Counted) < MaxPtys
    THEN {} ELSE {e \in Counted : entries[e].key \in Adhoc}

FreeAdmission(c) == admissions' = RemoveFirst(admissions, c)

\* admitEntry under the lock.
TakeAdmission(c) ==
  /\ step[c] = "queued" /\ HoldsAdmission(c)
  /\ \/ /\ EntryOf(c) # 0 /\ entries[EntryOf(c)].retiring # "no"
        /\ FreeAdmission(c) /\ Moves(c, "admit", 0)
        /\ UNCHANGED <<entries, ptys>>
     \/ /\ EntryOf(c) # 0 => entries[EntryOf(c)].retiring = "no"
        /\ IF Quarantined(KeyOf[c]) \/ Refused(c)
             THEN FreeAdmission(c) /\ Ends(c) /\ UNCHANGED <<entries, ptys>>
           ELSE IF Victims(c) = {}
             THEN FreeAdmission(c) /\ GetOrCreate(c)
           ELSE \E v \in Victims(c) :
                  /\ entries' = Retire(entries, v)
                  /\ Moves(c, "evict", v)
                  /\ UNCHANGED <<ptys, admissions>>
  /\ UNCHANGED <<recordVars, shuttingDown, overtaken, abandoned, historyVars>>

\* The victim is gone.
AfterEviction(c) ==
  /\ step[c] = "evict" /\ entries[at[c]].retiring = "done"
  /\ FreeAdmission(c)
  /\ IF Refused(c) THEN Ends(c) /\ UNCHANGED <<entries, ptys>> ELSE GetOrCreate(c)
  /\ UNCHANGED <<recordVars, shuttingDown, overtaken, abandoned, historyVars>>

\* The caller's deadline bounds the wait, not the admission.
AdmissionDeadline(c) ==
  /\ step[c] \in {"admit", "queued", "evict"} /\ c \notin abandoned
  /\ abandoned' = abandoned \cup {c}
  /\ UNCHANGED <<entries, ptys, recordVars, admissions, shuttingDown, overtaken, callVars,
                 historyVars>>

--------------------------------------------------------------------------------
\* runOnPty: the lock, the spawn and the turn.

AtHead(c) == Head(entries[at[c]].lock) = c

WaitDeadline(c) ==
  /\ c \in Reqs /\ step[c] = "wait" /\ ~AtHead(c)
  /\ Leaves(c, at[c], entries)
  /\ UNCHANGED <<ptys, recordVars, lockVars, historyVars>>

\* runTurnWithRetries under the lock: a spawn in flight is joined, never doubled.
Begin(c) ==
  /\ c \in Reqs /\ step[c] = "wait" /\ AtHead(c)
  /\ LET e == at[c]
     IN  IF ~IsCurrent(e) THEN Leaves(c, e, entries)
         ELSE IF entries[e].claude = "none" \/ entries[e].spawn # "none"
           THEN /\ entries' = IF entries[e].spawn = "none"
                                THEN [entries EXCEPT ![e].spawn = "prepare"] ELSE entries
                /\ Moves(c, "spawn", e)
         ELSE RunTurn(c, e, entries)
  /\ UNCHANGED <<ptys, recordVars, lockVars, historyVars>>

\* respawnEntryWithRetries after a backoff: the dead claude is disposed first.
Respawn(c) ==
  /\ step[c] = "backoff"
  /\ LET e == at[c]
     IN  IF ~IsCurrent(e) THEN Leaves(c, e, entries)
         ELSE /\ entries' = IF entries[e].spawn = "none"
                              THEN [entries EXCEPT ![e].spawn = "dispose"] ELSE entries
              /\ Moves(c, "respawn", e)
  /\ UNCHANGED <<ptys, recordVars, lockVars, historyVars>>

\* The spawn stays with the entry.  A one-shot run that is aborted does not wait for it.
SpawnDeadline(c) ==
  /\ step[c] \in {"spawn", "respawn"}
  /\ \/ Leaves(c, at[c], entries)
     \/ /\ KeyOf[c] \in Ephemeral
        /\ entries' = Retire(Unlock(entries, at[c], c), at[c])
        /\ Ends(c)
  /\ UNCHANGED <<ptys, recordVars, lockVars, historyVars>>

\* The turn ends in a proven OK, or was refused before anything was written.
TurnEnds(c) ==
  /\ step[c] = "turn"
  /\ entries[at[c]].claude = "alive" /\ at[c] \notin unproven
  /\ Leaves(c, at[c], entries)
  /\ UNCHANGED <<ptys, recordVars, lockVars, historyVars>>

\* The claude was gone before the prompt was written.
TurnLost(c) ==
  /\ c \in Reqs /\ step[c] = "turn" /\ entries[at[c]].claude # "alive"
  /\ RunTurn(c, at[c], entries)
  /\ UNCHANGED <<ptys, recordVars, lockVars, historyVars>>

\* Any other end, a timeout included: the claude is stopped before the call returns.
\* A request, and a send that was aborted, keep the lock meanwhile.
TurnFails(c) ==
  /\ step[c] = "turn"
  /\ \E es \in {entries} \cup (IF c \in Sends THEN {Unlock(entries, at[c], c)} ELSE {}) :
       entries' = Retire(es, at[c])
  /\ Moves(c, "ending", at[c])
  /\ UNCHANGED <<ptys, recordVars, lockVars, historyVars>>

Returns(c) ==
  /\ step[c] = "ending" /\ entries[at[c]].retiring = "done"
  /\ entries' = Unlock(entries, at[c], c)
  /\ Ends(c)
  /\ UNCHANGED <<ptys, recordVars, lockVars, historyVars>>

--------------------------------------------------------------------------------
\* spawnEntry and respawnEntry, which run on their own once started.

\* buildSpawnOptions and the trust self-heal are done.
Prepared(e) ==
  /\ entries[e].spawn = "prepare"
  /\ IF IsCurrent(e)
       THEN entries' = [entries EXCEPT ![e].spawn = "gate"] /\ UNCHANGED callVars
       ELSE SpawnSettles(e, entries, "removed")
  /\ UNCHANGED <<ptys, recordVars, lockVars, historyVars>>

\* The OS does not confirm the exit.
Unconfirmed(e) ==
  /\ unproven' = unproven \cup {e}
  /\ IF e \in unproven THEN UNCHANGED faults ELSE faults > 0 /\ faults' = faults - 1

\* A respawn disposes the dead claude: one not proven gone is quarantined.
DisposeDead(e) ==
  /\ entries[e].spawn = "dispose"
  /\ \/ /\ UNCHANGED <<unproven, faults>>
        /\ LET es == [entries EXCEPT ![e].claude = "none"]
           IN  IF IsCurrent(e) THEN entries' = [es EXCEPT ![e].spawn = "gate"] /\ UNCHANGED callVars
                               ELSE SpawnSettles(e, es, "removed")
     \/ /\ entries[e].claude # "gone" /\ Unconfirmed(e)
        /\ SpawnSettles(e, entries, "quarantined")
  /\ UNCHANGED <<ptys, standIns, lockVars, misreported, deaths, shutdowns>>

\* assertSessionSpawnable, of the fences; Passes is its part of the records.
Spawnable(k) == ~Fenced(k)

\* The gate, the synchronous check and the fork.
Fork(e) ==
  /\ entries[e].spawn = "gate"
  /\ \E S \in SUBSET unproven :
       /\ Asks(entries[e].key, S)
       /\ IF Passes(entries[e].key, S) /\ Spawnable(entries[e].key)
            THEN /\ entries' = [ConfirmGone(S) EXCEPT ![e].spawn = "boot", ![e].claude = "alive"]
                 /\ UNCHANGED callVars
            ELSE SpawnSettles(e, ConfirmGone(S), "quarantined")
  /\ UNCHANGED <<ptys, lockVars, historyVars>>

\* The child exits before the TUI settles.
BootFails(e) ==
  /\ entries[e].spawn = "boot"
  /\ SpawnSettles(e, [entries EXCEPT ![e].claude = "none"], "failed")
  /\ UNCHANGED <<ptys, recordVars, lockVars, historyVars>>

\* Slip: landPty trusts the entry it was started for.
LandAnyway(e) ==
  /\ entries[e].spawn = "boot"
  /\ SpawnSettles(e, entries, "ok")
  /\ UNCHANGED <<ptys, recordVars, lockVars, historyVars>>

\* landPty
Land(e) ==
  /\ entries[e].spawn = "boot"
  /\ IF IsCurrent(e)
       THEN SpawnSettles(e, entries, "ok")
       ELSE entries' = [entries EXCEPT ![e].spawn = "late"] /\ UNCHANGED callVars
  /\ UNCHANGED <<ptys, recordVars, lockVars, historyVars>>

\* landPty on an entry that was retired meanwhile.
DisposeLate(e) ==
  /\ entries[e].spawn = "late"
  /\ \/ /\ SpawnSettles(e, [entries EXCEPT ![e].claude = "gone"], "removed")
        /\ UNCHANGED <<unproven, faults>>
     \/ SpawnSettles(e, entries, "removed") /\ Unconfirmed(e)
  /\ UNCHANGED <<ptys, standIns, lockVars, misreported, deaths, shutdowns>>

--------------------------------------------------------------------------------
\* Retirement.

Untracked(e) == [ptys EXCEPT ![entries[e].key] = IF @ = e THEN 0 ELSE @]

\* Slip: the retirement joins the spawn however long it takes.
RetirementJoins(e) ==
  /\ entries[e].retiring = "running" /\ entries[e].spawn = "none"
  /\ ptys' = Untracked(e)
  /\ entries' = [entries EXCEPT ![e].retiring = "done",
                                ![e].claude = IF @ = "none" THEN @ ELSE "gone"]
  /\ UNCHANGED <<recordVars, lockVars, callVars, historyVars>>

\* retireEntry from its first await on: a claude is disposed, a disposal under way is
\* joined, and a pending spawn too, up to PENDING_SPAWN_BOUND_MS.
RetirementEnds(e) ==
  /\ entries[e].retiring = "running" /\ entries[e].spawn # "dispose"
  /\ ptys' = Untracked(e)
  /\ LET es == [entries EXCEPT ![e].retiring = "done"]
     IN  IF entries[e].spawn # "none"
           THEN entries' = es /\ standIns' = standIns \cup {e} /\ UNCHANGED <<unproven, faults>>
         ELSE \/ /\ entries' = [es EXCEPT ![e].claude = IF @ = "none" THEN @ ELSE "gone"]
                 /\ UNCHANGED <<recordVars, faults>>
              \/ /\ entries[e].claude \in {"alive", "closed"} /\ Unconfirmed(e)
                 /\ entries' = es /\ UNCHANGED standIns
  /\ UNCHANGED <<lockVars, callVars, misreported, deaths, shutdowns>>

Tracked == {e \in EntryIds : ptys[entries[e].key] = e}

\* reapIdle: an entry whose claude has no recent turn behind it, a turn under way or not.
Reap(e) ==
  /\ IsCurrent(e) /\ entries[e].key \notin Ephemeral \cup AlwaysAlive
  /\ entries[e].claude # "none" /\ entries[e].spawn \in {"none", "dispose"}
  /\ entries' = Retire(entries, e)
  /\ UNCHANGED <<ptys, recordVars, lockVars, callVars, historyVars>>

\* retirePtySession; also the abort of a one-shot run.
RetireSession(e) ==
  /\ IsCurrent(e)
  /\ entries' = Retire(entries, e)
  /\ UNCHANGED <<ptys, recordVars, lockVars, callVars, historyVars>>

\* killAllPtysReport, which confirms the quarantined processes when the entries are retired.
Kill ==
  LET S == {e \in Tracked : entries[e].key \notin SurvivesKill}
  IN  /\ \E e \in S : IsCurrent(e)
      /\ entries' = RetireAll(S)
      /\ UNCHANGED <<ptys, recordVars, lockVars, callVars, historyVars>>

\* confirmAllQuarantined, at the end of a kill and of a shutdown.
ConfirmAll ==
  /\ unproven \cup standIns # {}
  /\ \E S \in {{}, unproven} :
       /\ unproven' = unproven \ S
       /\ entries' = ConfirmGone(S)
  /\ standIns' = {e \in standIns : entries[e].spawn # "none"}
  /\ UNCHANGED <<ptys, lockVars, callVars, historyVars>>

StartShutdown ==
  /\ ~shuttingDown /\ shutdowns > 0
  /\ shutdowns' = shutdowns - 1
  /\ shuttingDown' = TRUE
  /\ overtaken' = overtaken \cup {c \in Reqs : step[c] \in {"admit", "queued", "evict"}}
  /\ entries' = RetireAll(Tracked)
  /\ UNCHANGED <<ptys, recordVars, admissions, abandoned, callVars, misreported, faults, deaths>>

EndShutdown ==
  /\ shuttingDown /\ Tracked = {}
  /\ shuttingDown' = FALSE
  /\ UNCHANGED <<entries, ptys, recordVars, admissions, overtaken, abandoned, callVars, historyVars>>

--------------------------------------------------------------------------------
\* sendToLiveSession.

Send(s) ==
  /\ step[s] = "idle"
  /\ Moves(s, "look", 0)
  /\ UNCHANGED <<entries, ptys, recordVars, lockVars, historyVars>>

LiveClaude(k, es) ==
  k \notin Ephemeral /\ \E e \in DOMAIN es : es[e].key = k /\ es[e].claude = "alive"

\* What the send makes of the entry it has read, where it stands now.
Decide(s, e, es) ==
  LET notLive == \/ e = 0 \/ KeyOf[s] \in Ephemeral
                 \/ /\ es[e].retiring = "no" /\ es[e].spawn = "none"
                    /\ es[e].lock = <<>> /\ es[e].claude # "alive"
  IN  /\ misreported' = IF notLive /\ LiveClaude(KeyOf[s], es)
                          THEN misreported \cup {step[s]} ELSE misreported
      /\ IF notLive THEN entries' = es /\ Ends(s)
         ELSE IF es[e].retiring # "no" \/ es[e].spawn # "none"
           THEN entries' = es /\ Moves(s, "look", 0)
         ELSE entries' = [es EXCEPT ![e].lock = Append(@, s)] /\ Moves(s, "wait", e)

\* The entry is read, then the gate passed: at once without a record.  A retirement or
\* a spawn is waited out.
Look(s) ==
  /\ step[s] = "look"
  /\ IF Quarantined(KeyOf[s])
       THEN Moves(s, "gate", EntryOf(s)) /\ UNCHANGED <<entries, misreported>>
       ELSE /\ EntryOf(s) # 0 => /\ entries[EntryOf(s)].retiring = "no"
                                 /\ entries[EntryOf(s)].spawn = "none"
            /\ Decide(s, EntryOf(s), entries)
  /\ UNCHANGED <<ptys, recordVars, lockVars, faults, deaths, shutdowns>>

\* The recorded processes have answered.
GateAnswers(s) ==
  /\ step[s] = "gate"
  /\ \E S \in SUBSET unproven :
       /\ Asks(KeyOf[s], S)
       /\ IF Passes(KeyOf[s], S)
            THEN Decide(s, at[s], ConfirmGone(S))
            ELSE entries' = ConfirmGone(S) /\ Ends(s) /\ UNCHANGED misreported
  /\ UNCHANGED <<ptys, lockVars, faults, deaths, shutdowns>>

\* Under the lock the world is looked at again.
SendBegins(s) ==
  /\ s \in Sends /\ step[s] = "wait" /\ AtHead(s)
  /\ \E S \in SUBSET unproven :
       LET e == at[s]
           es == ConfirmGone(S)
       IN  /\ Asks(KeyOf[s], S)
           /\ IF ~Passes(KeyOf[s], S) THEN entries' = Unlock(es, e, s) /\ Ends(s)
              ELSE IF IsCurrent(e) /\ es[e].spawn = "none" /\ es[e].claude = "alive"
                THEN entries' = es /\ Moves(s, "turn", e)
              ELSE entries' = Unlock(es, e, s) /\ Moves(s, "look", 0)
  /\ UNCHANGED <<ptys, lockVars, historyVars>>

\* The deadline, or an abort, of a send that waits.
SendGivesUp(s) ==
  /\ s \in Sends
  /\ \/ step[s] \in {"look", "gate"} /\ UNCHANGED entries
     \/ step[s] = "wait" /\ ~AtHead(s) /\ entries' = Unlock(entries, at[s], s)
  /\ Ends(s)
  /\ UNCHANGED <<ptys, recordVars, lockVars, historyVars>>

--------------------------------------------------------------------------------
\* External: a claude dies on its own; its handler retires what is left of its group.
ClaudeDies(e) ==
  /\ deaths > 0
  /\ entries[e].claude = "alive" /\ entries[e].spawn = "none" /\ e \notin unproven
  /\ deaths' = deaths - 1
  /\ entries' = [entries EXCEPT ![e].claude = "closed"]
  /\ UNCHANGED <<ptys, recordVars, lockVars, callVars, misreported, faults, shutdowns>>

RequestMoves(c) ==
  \/ Admit(c) \/ TakeAdmission(c) \/ AfterEviction(c) \/ AdmissionDeadline(c) \/ WaitDeadline(c)
  \/ Begin(c) \/ Respawn(c) \/ SpawnDeadline(c)

SendMoves(s) == Look(s) \/ GateAnswers(s) \/ SendBegins(s) \/ SendGivesUp(s)

TurnMoves(c) == TurnEnds(c) \/ TurnLost(c) \/ TurnFails(c) \/ Returns(c)

Disposes(e) == DisposeDead(e) \/ DisposeLate(e)

SupervisorNext ==
  \/ \E c \in Reqs : Request(c) \/ RequestMoves(c)
  \/ \E s \in Sends : Send(s) \/ SendMoves(s)
  \/ \E c \in SupCalls : TurnMoves(c)
  \/ \E e \in EntryIds : \/ Prepared(e) \/ Fork(e) \/ BootFails(e) \/ Land(e) \/ Disposes(e)
                         \/ RetirementEnds(e) \/ Reap(e) \/ RetireSession(e) \/ ClaudeDies(e)
  \/ Kill \/ ConfirmAll \/ StartShutdown \/ EndShutdown

SupervisorSpec == SupervisorInit /\ [][SupervisorNext]_supVars

\* Deadlines and timeouts come, and a disposal ends at its cap.  A boot may hang for ever.
\* Each call and each entry makes finitely many of these steps, so one fairness for all
\* of them is enough.
FairSupervisor ==
  /\ WF_supVars(\E c \in Reqs : RequestMoves(c))
  /\ WF_supVars(\E s \in Sends : SendMoves(s))
  /\ WF_supVars(\E c \in SupCalls : TurnMoves(c))
  /\ WF_supVars(\E e \in EntryIds : Disposes(e) \/ RetirementEnds(e))
  /\ WF_supVars(EndShutdown)

FairSupervisorSpec == SupervisorSpec /\ FairSupervisor

--------------------------------------------------------------------------------
EntryStates ==
  [key : Keys, claude : {"none", "alive", "closed", "gone"},
   spawn : {"none", "prepare", "dispose", "gate", "boot", "late"},
   retiring : {"no", "running", "done"}, lock : Seq(SupCalls)]

SupervisorTypeOK ==
  /\ entries \in Seq(EntryStates)
  /\ ptys \in [Keys -> EntryIds \cup {0}]
  /\ unproven \subseteq EntryIds /\ standIns \subseteq EntryIds
  /\ admissions \in Seq(Reqs)
  /\ shuttingDown \in BOOLEAN
  /\ overtaken \subseteq Reqs /\ abandoned \subseteq Reqs
  /\ step \in [SupCalls -> {"idle", "admit", "queued", "evict", "wait", "spawn", "turn", "backoff",
                            "respawn", "ending", "look", "gate", "done"}]
  /\ at \in [SupCalls -> EntryIds \cup {0}]
  /\ tries \in [SupCalls -> [turns : 0 .. MaxRetries, respawns : 0 .. RespawnRetries]]
  /\ misreported \subseteq {"look", "gate"}
  /\ {faults, deaths, shutdowns} \subseteq Nat

Unproven(e) == entries[e].claude \in {"alive", "closed"}

\* No claude starts on a session until the OS has confirmed the last one gone, however
\* late a spawn lands and whatever retired its entry.
OneClaudePerSession ==
  \A e, f \in EntryIds : e # f /\ entries[e].key = entries[f].key => ~(Unproven(e) /\ Unproven(f))

\* One turn at a time on a claude, whoever gave up waiting for it.
OneTurnPerClaude ==
  \A c, d \in SupCalls : c # d /\ step[c] = "turn" /\ step[d] = "turn" => at[c] # at[d]

\* A claude that may still write is in the map, or its session is quarantined: /kill,
\* the shutdown and the gate reach it.
NoClaudeUntracked == \A e \in EntryIds : Unproven(e) => e \in Tracked \cup unproven \cup standIns

\* Evictions and admissions together keep the cap; only entries that may not be
\* evicted, and one more, can exceed it.
CapHeld ==
  LET kept == {e \in Counted : entries[e].key \notin Adhoc}
  IN  Cardinality(Counted) <= MaxPtys \/ Cardinality(Counted) <= Cardinality(kept) + 1

\* A request that slept through a whole shutdown is refused when it wakes.
NoneOutlivesShutdown ==
  \A c \in overtaken : step[c] \in {"admit", "queued", "evict", "done"}

\* A send that read the entry and decided without a wait says not-live only when no
\* claude of the session lives.
NotLiveMeansGone == "look" \notin misreported

\* What the supervisor promises of the claudes of a session, of its cap and of what it
\* answers, under every overlap of calls, evictions, kills and shutdowns.
SupervisorSafety ==
  /\ OneClaudePerSession /\ OneTurnPerClaude /\ NoClaudeUntracked
  /\ CapHeld /\ NoneOutlivesShutdown /\ NotLiveMeansGone

Returned(c) == step[c] = "done" \/ c \in abandoned

\* Every call is answered and every shutdown ends, although a boot may hang for ever.
EveryCallReturns ==
  (shuttingDown \/ \E c \in SupCalls : step[c] # "idle" /\ ~Returned(c))
    ~> (~shuttingDown /\ \A c \in SupCalls : step[c] # "idle" => Returned(c))
================================================================================
