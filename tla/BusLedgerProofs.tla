---------------------------- MODULE BusLedgerProofs -----------------------------
(***************************************************************************)
(* The delivery ledger of BusCore: a prompt is delivered from one place at *)
(* a time, and the CLI is given it once and once more at most, for any     *)
(* prompts, chats, caps and bounds.                                        *)
(*                                                                         *)
(* Neither is inductive.  The ledger says of a prompt where it is: in a   *)
(* delivery in flight, held behind an initialising session, carried over a *)
(* close, held through a compaction or awaiting its verify, and which of   *)
(* these exclude each other (Place); and what it may still cost, given how *)
(* often it has been typed (Cost).  An operator that is not about a prompt *)
(* keeps its ledger (Keep); one on the side of the turn leaves the side of *)
(* the deliveries alone (Stays); a handler that admits nobody keeps ledger *)
(* and queue (Leaves).  The account adds the queue: a prompt that waits in *)
(* it, or was not sent, is nowhere else.  Last the actions of BusCore and  *)
(* the theorems.                                                           *)
(***************************************************************************)
EXTENDS BusCoreProofs

--------------------------------------------------------------------------------
(* What the delivery side owes a prompt *)

\* The deliveries of p in flight, but for delivery k, which is being settled.
Mine(b, p, k) == {i \in DOMAIN b.deliveries : i # k /\ b.deliveries[i].text = p}

Waits(b, p) == Contains(b.held, p) \/ Contains(b.carried, p)

Verifying(b, p) == b.verify[p] \in {"armed", "graced"}

\* Nothing more is to come of p.
Quiet(b, p, k) == Mine(b, p, k) = {} /\ ~Waits(b, p) /\ b.hold[p] = None /\ ~Verifying(b, p)

Once(s, p) == \A i, j \in DOMAIN s : s[i] = p /\ s[j] = p => i = j

\* A prompt is in one place: in flight, waiting, held through a compaction or
\* verified.  The verify may run beside its delivery, but not past a close.
Place(b, p, k) ==
  /\ \A i, j \in Mine(b, p, k) : i = j
  /\ \A i \in Mine(b, p, k) : b.deliveries[i].owns /\ (Verifying(b, p) => b.deliveries[i].current)
  /\ Once(b.held, p) /\ Once(b.carried, p) /\ ~(Contains(b.held, p) /\ Contains(b.carried, p))
  /\ Mine(b, p, k) # {} => ~Waits(b, p) /\ b.hold[p] = None
  /\ Waits(b, p) => b.hold[p] = None /\ ~Verifying(b, p)
  /\ b.hold[p] # None => ~Verifying(b, p)

One(y) == IF y THEN 1 ELSE 0

\* What p, typed t times, may still cost: what can be delivered again has been
\* typed once at most, and what can be delivered and then delivered again, never.
Cost(b, p, t, k) ==
  /\ t <= 2
  /\ \A i \in Mine(b, p, k) :
       /\ t <= 1 + One(b.deliveries[i].typed)
       /\ Verifying(b, p) \/ (p \notin b.spent /\ ~b.deliveries[i].proven) => t <= One(b.deliveries[i].typed)
  /\ Waits(b, p) => t <= 1 /\ (p \notin b.spent => t = 0)
  /\ Mine(b, p, k) = {} /\ (Verifying(b, p) \/ b.hold[p] # None) => t <= 1

Ledger(b, p, t, k) == Place(b, p, k) /\ Cost(b, p, t, k)

\* p may be delivered (again).
Free(b, p, t, k) == Quiet(b, p, k) /\ t <= 1 /\ (p \notin b.spent => t = 0)

\* The verify of p may be armed.
MayArm(b, p, t, k) ==
  /\ ~Waits(b, p) /\ b.hold[p] = None
  /\ Mine(b, p, k) = {} => t <= 1
  /\ \A i \in Mine(b, p, k) : b.deliveries[i].current /\ t <= One(b.deliveries[i].typed)

\* The delivery side is as it was.
Apart(b, d) ==
  /\ d.deliveries = b.deliveries /\ d.held = b.held /\ d.carried = b.carried
  /\ d.verify = b.verify /\ d.hold = b.hold /\ d.spent = b.spent

LEMMA ApartLedger ==
  ASSUME NEW b, NEW d, Apart(b, d), NEW p, NEW t, NEW k
  PROVE  /\ Ledger(d, p, t, k) <=> Ledger(b, p, t, k)
         /\ Quiet(d, p, k) <=> Quiet(b, p, k)
         /\ Free(d, p, t, k) <=> Free(b, p, t, k)
         /\ MayArm(d, p, t, k) <=> MayArm(b, p, t, k)
<1>1. Mine(d, p, k) = Mine(b, p, k) /\ (Waits(d, p) <=> Waits(b, p)) /\ (Verifying(d, p) <=> Verifying(b, p))
  BY Zenon DEF Apart, Mine, Waits, Verifying
<1>2. Quiet(d, p, k) <=> Quiet(b, p, k)
  BY <1>1, Zenon DEF Apart, Quiet
<1>3. Free(d, p, t, k) <=> Free(b, p, t, k)
  BY <1>2, Zenon DEF Apart, Free
<1>4. Place(d, p, k) <=> Place(b, p, k)
  BY <1>1, Zenon DEF Apart, Place
<1>5. Cost(d, p, t, k) <=> Cost(b, p, t, k)
  BY <1>1, Zenon DEF Apart, Cost
<1>6. MayArm(d, p, t, k) <=> MayArm(b, p, t, k)
  BY <1>1, Zenon DEF Apart, MayArm
<1> QED
  BY <1>2, <1>3, <1>4, <1>5, <1>6 DEF Ledger

LEMMA ApartTrans == ASSUME NEW a, NEW b, NEW d, Apart(a, b), Apart(b, d) PROVE Apart(a, d)
BY Zenon DEF Apart

LEMMA TouchApart == ASSUME NEW b \in BusStates PROVE Apart(b, Touch(b)) /\ Touch(b).init = b.init
BY ZenonT(30) DEF Touch, Apart, BusStates

\* The records of a stream's own deliveries.
Started(b, xs) ==
  [i \in DOMAIN xs |-> [Delivery(b, xs[i]) EXCEPT !.owns = \A j \in i + 1 .. Len(xs) : xs[j] # xs[i]]]

LEMMA StartedIs ==
  ASSUME NEW b, NEW xs, NEW i \in DOMAIN xs
  PROVE  LET e == Started(b, xs)[i]
         IN  /\ e.text = xs[i] /\ e.typed = FALSE /\ e.current = TRUE
             /\ e.owns <=> \A j \in i + 1 .. Len(xs) : xs[j] # xs[i]
<1> DEFINE last == \A j \in i + 1 .. Len(xs) : xs[j] # xs[i]
<1>1. Started(b, xs)[i] = [Delivery(b, xs[i]) EXCEPT !.owns = last]
  BY DEF Started
<1> HIDE DEF last
<1>2. LET e == Started(b, xs)[i]
      IN  /\ e.text = xs[i] /\ e.typed = FALSE /\ e.current = TRUE
          /\ e.owns = last
  BY <1>1, Zenon DEF Delivery
<1> QED
  BY <1>2, Zenon DEF last

\* Where the deliveries of a stream lie, the old and the new.
LEMMA StreamAllPlaces ==
  ASSUME NEW b \in BusStates, NEW xs \in Seq(Texts)
  PROVE  LET ds == b.deliveries
             es == StreamAll(b, xs).deliveries
         IN  /\ DOMAIN es = 1 .. Len(ds) + Len(xs)
             /\ \A i \in DOMAIN ds :
                  /\ es[i].text = ds[i].text /\ es[i].typed = ds[i].typed
                  /\ es[i].current = ds[i].current /\ es[i].proven = ds[i].proven
                  /\ es[i].owns = (ds[i].owns /\ ~Contains(xs, ds[i].text))
             /\ \A i \in DOMAIN xs : es[Len(ds) + i] = Started(b, xs)[i]
<1> DEFINE ds == b.deliveries
           earlier == [i \in DOMAIN ds |->
                         [ds[i] EXCEPT !.owns = @ /\ ~Contains(xs, ds[i].text)]]
           es == earlier \o Started(b, xs)
<1>1. ds \in Seq(Deliveries)
  BY Zenon DEF BusStates
<1>2. StreamAll(b, xs).deliveries = es
  <2> HIDE DEF es
  <2>1. [b EXCEPT !.deliveries = es].deliveries = es
    BY Zenon DEF BusStates
  <2> QED
    BY <2>1 DEF StreamAll, Started, es
<1>3. ASSUME NEW i \in DOMAIN ds
      PROVE  /\ earlier[i].text = ds[i].text /\ earlier[i].typed = ds[i].typed
             /\ earlier[i].current = ds[i].current /\ earlier[i].proven = ds[i].proven
             /\ earlier[i].owns = (ds[i].owns /\ ~Contains(xs, ds[i].text))
  <2>1. ds[i] \in Deliveries
    BY <1>1
  <2>2. earlier[i] = [ds[i] EXCEPT !.owns = @ /\ ~Contains(xs, ds[i].text)]
    OBVIOUS
  <2> QED
    BY <2>1, <2>2, Zenon DEF Deliveries
<1>4. /\ DOMAIN earlier = 1 .. Len(ds) /\ DOMAIN Started(b, xs) = 1 .. Len(xs)
      /\ Len(ds) \in Nat /\ Len(xs) \in Nat
  BY <1>1 DEF Started
<1>5. /\ DOMAIN es = 1 .. Len(ds) + Len(xs)
      /\ \A i \in DOMAIN ds : es[i] = earlier[i]
      /\ \A i \in DOMAIN xs : es[Len(ds) + i] = Started(b, xs)[i]
  <2>1. DOMAIN ds = 1 .. Len(ds) /\ DOMAIN xs = 1 .. Len(xs)
    BY <1>1
  <2>2. Len(earlier) = Len(ds) /\ Len(Started(b, xs)) = Len(xs)
    BY <1>4
  <2> HIDE DEF earlier, ds
  <2> QED
    BY <1>4, <2>1, <2>2
<1> HIDE DEF es, earlier
<1>6. ASSUME NEW i \in DOMAIN ds
      PROVE  /\ es[i].text = ds[i].text /\ es[i].typed = ds[i].typed
             /\ es[i].current = ds[i].current /\ es[i].proven = ds[i].proven
             /\ es[i].owns = (ds[i].owns /\ ~Contains(xs, ds[i].text))
  BY <1>3, <1>5
<1> HIDE DEF ds
<1> QED
  BY <1>2, <1>5, <1>6, Zenon DEF ds

--------------------------------------------------------------------------------
(* Deliveries: what is streamed, queued and sent out *)

LEMMA StreamAllFields ==
  ASSUME NEW b \in BusStates, NEW xs
  PROVE  LET d == StreamAll(b, xs)
         IN  /\ d.held = b.held /\ d.carried = b.carried
             /\ d.verify = b.verify /\ d.hold = b.hold /\ d.spent = b.spent
<1>1. \A e : LET d == [b EXCEPT !.deliveries = e]
             IN  /\ d.held = b.held /\ d.carried = b.carried
                 /\ d.verify = b.verify /\ d.hold = b.hold /\ d.spent = b.spent
  BY ZenonT(30) DEF BusStates
<1> QED
  BY <1>1 DEF StreamAll

\* Streaming a free prompt puts it in flight; the others are not concerned.
LEMMA StreamAllLedger ==
  ASSUME NEW b \in BusStates, NEW xs \in Seq(Texts), NEW p \in Prompts, NEW t \in Nat,
         NEW k \in Nat, k <= Len(b.deliveries)
  PROVE  LET d == StreamAll(b, xs)
         IN  /\ ~Contains(xs, p) /\ Ledger(b, p, t, k) => Ledger(d, p, t, k)
             /\ ~Contains(xs, p) /\ Quiet(b, p, k) => Quiet(d, p, k)
             /\ Contains(xs, p) /\ Once(xs, p) /\ Free(b, p, t, k) =>
                  Ledger(d, p, t, k) /\ (t = 0 => MayArm(d, p, t, k))
<1> DEFINE d  == StreamAll(b, xs)
           ds == b.deliveries
           es == d.deliveries
           n  == Len(ds)
<1>1. ds \in Seq(Deliveries) /\ n \in Nat /\ DOMAIN ds = 1 .. n /\ Len(xs) \in Nat /\ DOMAIN xs = 1 .. Len(xs)
  <2>1. ds \in Seq(Deliveries)
    BY Zenon DEF BusStates
  <2> QED
    BY <2>1
<1>2. /\ d.held = b.held /\ d.carried = b.carried
      /\ d.verify = b.verify /\ d.hold = b.hold /\ d.spent = b.spent
  BY StreamAllFields
<1>3. /\ DOMAIN es = 1 .. n + Len(xs)
      /\ \A i \in DOMAIN ds :
           /\ es[i].text = ds[i].text /\ es[i].typed = ds[i].typed
           /\ es[i].current = ds[i].current /\ es[i].proven = ds[i].proven
           /\ es[i].owns = (ds[i].owns /\ ~Contains(xs, ds[i].text))
  BY StreamAllPlaces
<1>4. ASSUME NEW i \in DOMAIN xs
      PROVE  /\ es[n + i].text = xs[i] /\ es[n + i].typed = FALSE /\ es[n + i].current = TRUE
             /\ es[n + i].owns <=> \A j \in i + 1 .. Len(xs) : xs[j] # xs[i]
  <2> DEFINE last == \A j \in i + 1 .. Len(xs) : xs[j] # xs[i]
             s    == Started(b, xs)[i]
  <2>1. es[n + i] = s
    BY StreamAllPlaces
  <2>2. s.text = xs[i] /\ s.typed = FALSE /\ s.current = TRUE /\ (s.owns <=> last)
    BY StartedIs, Zenon
  <2> HIDE DEF last, s
  <2>3. /\ es[n + i].text = xs[i] /\ es[n + i].typed = FALSE /\ es[n + i].current = TRUE
        /\ (es[n + i].owns <=> last)
    BY <2>1, <2>2
  <2> QED
    BY <2>3 DEF last
<1>5. (Waits(d, p) <=> Waits(b, p)) /\ (Verifying(d, p) <=> Verifying(b, p))
  BY <1>2, Zenon DEF Waits, Verifying
<1> HIDE DEF d
<1>6. ASSUME ~Contains(xs, p)
      PROVE  /\ Mine(d, p, k) = Mine(b, p, k)
             /\ \A i \in Mine(b, p, k) :
                  /\ i \in DOMAIN ds /\ es[i].typed = ds[i].typed /\ es[i].proven = ds[i].proven
                  /\ es[i].current = ds[i].current /\ (es[i].owns <=> ds[i].owns)
  <2>1. ASSUME NEW i \in DOMAIN es, es[i].text = p PROVE i \in DOMAIN ds
    <3> SUFFICES ASSUME i \notin DOMAIN ds PROVE FALSE
      OBVIOUS
    <3>1. i - n \in DOMAIN xs /\ n + (i - n) = i
      BY <1>1, <1>3, <2>1
    <3>2. PICK m \in DOMAIN xs : n + m = i
      BY <3>1
    <3>3. xs[m] = p
      BY <1>4, <2>1, <3>2
    <3> QED
      BY <1>1, <1>6, <3>3 DEF Contains
  <2>2. \A i \in DOMAIN ds : i \in DOMAIN es /\ es[i].text = ds[i].text
    BY <1>1, <1>3
  <2>3. Mine(d, p, k) = Mine(b, p, k)
    BY <2>1, <2>2 DEF Mine
  <2>4. ASSUME NEW i \in Mine(b, p, k)
        PROVE  /\ i \in DOMAIN ds /\ es[i].typed = ds[i].typed /\ es[i].proven = ds[i].proven
               /\ es[i].current = ds[i].current /\ (es[i].owns <=> ds[i].owns)
    <3>1. i \in DOMAIN ds /\ ds[i].text = p
      BY DEF Mine
    <3>2. ds[i].owns \in BOOLEAN
      <4>1. ds[i] \in Deliveries
        BY <1>1, <3>1
      <4> QED
        BY <4>1 DEF Deliveries
    <3>3. ~Contains(xs, ds[i].text)
      BY <1>6, <3>1
    <3>4. (es[i].owns <=> ds[i].owns)
      BY <1>3, <3>1, <3>2, <3>3, Zenon
    <3> QED
      BY <1>3, <3>1, <3>4, Zenon
  <2> QED
    BY <2>3, <2>4, Zenon
<1>7. ASSUME ~Contains(xs, p), Ledger(b, p, t, k) PROVE Ledger(d, p, t, k)
  <2>1. Place(b, p, k) /\ Cost(b, p, t, k)
    BY <1>7 DEF Ledger
  <2>2. Place(d, p, k)
    BY <1>2, <1>5, <1>6, <1>7, <2>1, Zenon DEF Place
  <2>3. Cost(d, p, t, k)
    BY <1>2, <1>5, <1>6, <1>7, <2>1, Zenon DEF Cost
  <2> QED
    BY <2>2, <2>3 DEF Ledger
<1>8. ASSUME ~Contains(xs, p), Quiet(b, p, k) PROVE Quiet(d, p, k)
  BY <1>2, <1>5, <1>6, <1>8, Zenon DEF Quiet
<1>9. ASSUME Contains(xs, p), Once(xs, p), Free(b, p, t, k)
      PROVE  Ledger(d, p, t, k) /\ (t = 0 => MayArm(d, p, t, k))
  <2>1. PICK m \in DOMAIN xs : xs[m] = p
    BY <1>1, <1>9 DEF Contains
  <2> DEFINE e == es[n + m]
  <2>2. n + m \in DOMAIN es /\ e.text = p /\ e.typed = FALSE /\ e.current = TRUE /\ e.owns
    <3>1. \A j \in m + 1 .. Len(xs) : xs[j] # xs[m]
      BY <1>1, <1>9, <2>1 DEF Once
    <3>2. n + m \in DOMAIN es
      BY <1>1, <1>3, <2>1
    <3>3. e.text = p /\ e.typed = FALSE /\ e.current = TRUE
      BY <1>4, <2>1
    <3>4. e.owns
      BY <1>4, <2>1, <3>1
    <3> QED
      BY <3>2, <3>3, <3>4
  <2>3. Mine(b, p, k) = {} /\ ~Waits(b, p) /\ b.hold[p] = None /\ ~Verifying(b, p)
        /\ t <= 1 /\ (p \notin b.spent => t = 0)
    BY <1>9 DEF Free, Quiet
  <2>4. Mine(d, p, k) = {n + m}
    <3>1. n + m # k /\ n + m \in Mine(d, p, k)
      BY <1>1, <2>1, <2>2 DEF Mine
    <3>2. ASSUME NEW i \in Mine(d, p, k) PROVE i = n + m
      <4>1. i \in DOMAIN es /\ i # k /\ es[i].text = p
        BY DEF Mine
      <4>2. i \notin DOMAIN ds
        <5> SUFFICES ASSUME i \in DOMAIN ds PROVE FALSE
          OBVIOUS
        <5>1. ds[i].text = p
          BY <1>3, <4>1
        <5> QED
          BY <2>3, <4>1, <5>1 DEF Mine
      <4>3. i - n \in DOMAIN xs /\ n + (i - n) = i
        BY <1>1, <1>3, <4>1, <4>2
      <4>4. PICK l \in DOMAIN xs : n + l = i
        BY <4>3
      <4>5. xs[l] = p
        BY <1>4, <4>1, <4>4
      <4>6. l = m
        BY <1>9, <2>1, <4>5, Zenon DEF Once
      <4> QED
        BY <4>4, <4>6
    <3> QED
      BY <3>1, <3>2
  <2>5. ~Waits(d, p) /\ d.hold[p] = None /\ ~Verifying(d, p) /\ (p \notin d.spent => t = 0)
    BY <1>2, <1>5, <2>3, Zenon
  <2>6. ~Contains(d.held, p) /\ ~Contains(d.carried, p)
    BY <2>5 DEF Waits
  <2>7. Once(d.held, p) /\ Once(d.carried, p)
    <3>1. b.held \in Seq(Texts) /\ b.carried \in Seq(Texts)
      BY Zenon DEF BusStates
    <3> QED
      BY <1>2, <2>6, <3>1 DEF Once, Contains
  <2> HIDE DEF e, es, n
  <2>8. Place(d, p, k)
    BY <2>2, <2>4, <2>5, <2>6, <2>7, Zenon DEF Place, e, es
  <2>9. Cost(d, p, t, k)
    <3>1. One(d.deliveries[n + m].typed) = 0
      BY <2>2 DEF One, e, es
    <3> QED
      BY <2>3, <2>4, <2>5, <3>1 DEF Cost
  <2>10. t = 0 => MayArm(d, p, t, k)
    <3>1. One(d.deliveries[n + m].typed) = 0 /\ d.deliveries[n + m].current
      BY <2>2 DEF One, e, es
    <3> QED
      BY <2>4, <2>5, <3>1 DEF MayArm
  <2> QED
    BY <2>8, <2>9, <2>10 DEF Ledger
<1> QED
  BY <1>7, <1>8, <1>9 DEF d

\* What a step owes a prompt it is not about.
Keep(b, d, p, t, k) ==
  /\ Ledger(b, p, t, k) => Ledger(d, p, t, k)
  /\ Quiet(b, p, k) => Quiet(d, p, k)

LEMMA ApartKeep == ASSUME NEW b, NEW d, Apart(b, d), NEW p, NEW t, NEW k PROVE Keep(b, d, p, t, k)
BY ApartLedger DEF Keep

LEMMA KeepTrans ==
  ASSUME NEW a, NEW b, NEW d, NEW p, NEW t, NEW k, Keep(a, b, p, t, k), Keep(b, d, p, t, k)
  PROVE  Keep(a, d, p, t, k)
BY DEF Keep

LEMMA ConcatOnce ==
  ASSUME NEW S, NEW s \in Seq(S), NEW u \in Seq(S), NEW p
  PROVE  /\ Contains(s \o u, p) <=> Contains(s, p) \/ Contains(u, p)
         /\ Once(s, p) /\ Once(u, p) /\ ~(Contains(s, p) /\ Contains(u, p)) => Once(s \o u, p)
<1> DEFINE n == Len(s)
           m == Len(u)
           c == s \o u
<1>1. /\ n \in Nat /\ m \in Nat /\ DOMAIN s = 1 .. n /\ DOMAIN u = 1 .. m
      /\ c \in Seq(S) /\ Len(c) = n + m /\ DOMAIN c = 1 .. n + m
      /\ \A i \in 1 .. n : c[i] = s[i]
      /\ \A i \in 1 .. m : c[n + i] = u[i]
  OBVIOUS
<1> HIDE DEF c, n, m
<1>2. ASSUME NEW i \in 1 .. n + m, c[i] = p
      PROVE  (i \in 1 .. n /\ s[i] = p) \/ (i - n \in 1 .. m /\ u[i - n] = p)
  <2>1. CASE i <= n
    BY <1>1, <1>2, <2>1
  <2>2. CASE i > n
    <3>1. PICK j \in 1 .. m : n + j = i /\ j = i - n
      BY <1>1, <2>2
    <3> QED
      BY <1>1, <1>2, <3>1
  <2> QED
    BY <1>1, <2>1, <2>2
<1>3. Contains(c, p) => Contains(s, p) \/ Contains(u, p)
  BY <1>1, <1>2 DEF Contains, n, m
<1>4. Contains(s, p) => Contains(c, p)
  <2> SUFFICES ASSUME NEW i \in 1 .. n, s[i] = p PROVE Contains(c, p)
    BY DEF Contains, n
  <2> QED
    BY <1>1 DEF Contains
<1>5. Contains(u, p) => Contains(c, p)
  <2> SUFFICES ASSUME NEW i \in 1 .. m, u[i] = p PROVE Contains(c, p)
    BY DEF Contains, m
  <2>1. n + i \in 1 .. n + m /\ c[n + i] = p
    BY <1>1
  <2> QED
    BY <1>1, <2>1 DEF Contains
<1>6. ASSUME Once(s, p), Once(u, p), ~(Contains(s, p) /\ Contains(u, p)) PROVE Once(c, p)
  <2> SUFFICES ASSUME NEW i \in 1 .. n + m, NEW j \in 1 .. n + m, c[i] = p, c[j] = p PROVE i = j
    BY <1>1 DEF Once
  <2>1. (i \in 1 .. n /\ s[i] = p) \/ (i - n \in 1 .. m /\ u[i - n] = p)
    BY <1>2
  <2>2. (j \in 1 .. n /\ s[j] = p) \/ (j - n \in 1 .. m /\ u[j - n] = p)
    BY <1>2
  <2>3. CASE i \in 1 .. n /\ s[i] = p /\ j \in 1 .. n /\ s[j] = p
    BY <1>1, <1>6, <2>3 DEF Once
  <2>4. CASE i - n \in 1 .. m /\ u[i - n] = p /\ j - n \in 1 .. m /\ u[j - n] = p
    <3>1. i - n = j - n
      BY <1>1, <1>6, <2>4 DEF Once
    <3> QED
      BY <1>1, <3>1
  <2>5. \A e \in 1 .. n, f \in 1 .. m : ~(s[e] = p /\ u[f] = p)
    BY <1>6 DEF Contains, n, m
  <2> QED
    BY <2>1, <2>2, <2>3, <2>4, <2>5
<1> QED
  BY <1>3, <1>4, <1>5, <1>6 DEF c

LEMMA NotContainedOnce == ASSUME NEW S, NEW s \in Seq(S), NEW p, ~Contains(s, p) PROVE Once(s, p)
BY DEF Contains, Once

\* A free prompt starts to wait.
LEMMA WaitLedger ==
  ASSUME NEW b \in BusStates, NEW xs \in Seq(Texts), NEW p \in Prompts, NEW t \in Nat, NEW k
  PROVE  LET d == [b EXCEPT !.held = @ \o xs]
             e == [b EXCEPT !.carried = @ \o xs]
         IN  /\ ~Contains(xs, p) => Keep(b, d, p, t, k) /\ Keep(b, e, p, t, k)
             /\ Contains(xs, p) /\ Once(xs, p) /\ Free(b, p, t, k) => Ledger(d, p, t, k) /\ Ledger(e, p, t, k)
<1> DEFINE d == [b EXCEPT !.held = @ \o xs]
           e == [b EXCEPT !.carried = @ \o xs]
<1>1. b.held \in Seq(Texts) /\ b.carried \in Seq(Texts)
  BY Zenon DEF BusStates
<1>2. /\ d.held = b.held \o xs /\ d.carried = b.carried /\ d.deliveries = b.deliveries
      /\ d.verify = b.verify /\ d.hold = b.hold /\ d.spent = b.spent
  BY Zenon DEF BusStates
<1>3. /\ e.carried = b.carried \o xs /\ e.held = b.held /\ e.deliveries = b.deliveries
      /\ e.verify = b.verify /\ e.hold = b.hold /\ e.spent = b.spent
  BY Zenon DEF BusStates
<1> HIDE DEF d, e
<1>4. /\ Mine(d, p, k) = Mine(b, p, k) /\ (Verifying(d, p) <=> Verifying(b, p))
      /\ Mine(e, p, k) = Mine(b, p, k) /\ (Verifying(e, p) <=> Verifying(b, p))
  BY <1>2, <1>3, Zenon DEF Mine, Verifying
<1>5. /\ Contains(d.held, p) <=> Contains(b.held, p) \/ Contains(xs, p)
      /\ Contains(e.carried, p) <=> Contains(b.carried, p) \/ Contains(xs, p)
  BY <1>1, <1>2, <1>3, ConcatOnce
<1>6. /\ Once(b.held, p) /\ Once(xs, p) /\ ~(Contains(b.held, p) /\ Contains(xs, p)) => Once(d.held, p)
      /\ Once(b.carried, p) /\ Once(xs, p) /\ ~(Contains(b.carried, p) /\ Contains(xs, p)) => Once(e.carried, p)
  BY <1>1, <1>2, <1>3, ConcatOnce
<1>7. ~Contains(xs, p) => Once(xs, p)
  BY NotContainedOnce
<1>8. ASSUME ~Contains(xs, p) PROVE Keep(b, d, p, t, k) /\ Keep(b, e, p, t, k)
  <2>1. (Waits(d, p) <=> Waits(b, p)) /\ (Waits(e, p) <=> Waits(b, p))
    BY <1>2, <1>3, <1>5, <1>8 DEF Waits
  <2>2. Place(b, p, k) => Place(d, p, k) /\ Place(e, p, k)
    BY <1>2, <1>3, <1>4, <1>5, <1>6, <1>7, <1>8, <2>1, Zenon DEF Place
  <2>3. Cost(b, p, t, k) => Cost(d, p, t, k) /\ Cost(e, p, t, k)
    BY <1>2, <1>3, <1>4, <2>1, Zenon DEF Cost
  <2>4. Quiet(b, p, k) => Quiet(d, p, k) /\ Quiet(e, p, k)
    BY <1>2, <1>3, <1>4, <2>1, Zenon DEF Quiet
  <2> QED
    BY <2>2, <2>3, <2>4 DEF Keep, Ledger
<1>9. ASSUME Contains(xs, p), Once(xs, p), Free(b, p, t, k) PROVE Ledger(d, p, t, k) /\ Ledger(e, p, t, k)
  <2>1. /\ Mine(b, p, k) = {} /\ ~Waits(b, p) /\ b.hold[p] = None /\ ~Verifying(b, p)
        /\ t <= 1 /\ (p \notin b.spent => t = 0)
    BY <1>9 DEF Free, Quiet
  <2>2. ~Contains(b.held, p) /\ ~Contains(b.carried, p)
    BY <2>1 DEF Waits
  <2>3. Once(b.held, p) /\ Once(b.carried, p)
    BY <1>1, <2>2, NotContainedOnce
  <2>4. Place(d, p, k) /\ Place(e, p, k)
    BY <1>2, <1>3, <1>4, <1>5, <1>6, <1>9, <2>1, <2>2, <2>3, Zenon DEF Place
  <2>5. Cost(d, p, t, k) /\ Cost(e, p, t, k)
    <3>1. Mine(d, p, k) = {} /\ Mine(e, p, k) = {} /\ d.spent = b.spent /\ e.spent = b.spent
      BY <1>2, <1>3, <1>4, <2>1
    <3> QED
      BY <2>1, <3>1 DEF Cost
  <2> QED
    BY <2>4, <2>5 DEF Ledger
<1> QED
  BY <1>8, <1>9 DEF d, e

\* deliverOrQueuePrompt for each of xs.
LEMMA DeliverAllLedger ==
  ASSUME NEW b \in BusStates, NEW xs \in Seq(Texts), NEW p \in Prompts, NEW t \in Nat,
         NEW k \in Nat, k <= Len(b.deliveries)
  PROVE  LET d == DeliverAll(b, xs)
         IN  /\ ~Contains(xs, p) => Keep(b, d, p, t, k)
             /\ Contains(xs, p) /\ Once(xs, p) /\ Free(b, p, t, k) =>
                  Ledger(d, p, t, k) /\ (~b.init /\ t = 0 => MayArm(d, p, t, k))
<1> DEFINE u == Touch(b)
           w == [u EXCEPT !.held = @ \o xs]
           s == StreamAll(u, xs)
<1>1. u \in BusStates /\ Apart(b, u) /\ u.deliveries = b.deliveries
  BY TouchTyped, TouchApart DEF Apart
<1> HIDE DEF u
<1>2. Keep(b, u, p, t, k) /\ (Free(u, p, t, k) <=> Free(b, p, t, k))
  BY <1>1, ApartKeep, ApartLedger
<1>3. /\ ~Contains(xs, p) => Keep(u, w, p, t, k)
      /\ Contains(xs, p) /\ Once(xs, p) /\ Free(u, p, t, k) => Ledger(w, p, t, k)
  BY <1>1, WaitLedger
<1>4. /\ ~Contains(xs, p) => Keep(u, s, p, t, k)
      /\ Contains(xs, p) /\ Once(xs, p) /\ Free(u, p, t, k) =>
           Ledger(s, p, t, k) /\ (t = 0 => MayArm(s, p, t, k))
  BY <1>1, StreamAllLedger DEF Keep
<1>5. DeliverAll(b, xs) = IF b.init THEN w ELSE s
  BY DEF DeliverAll, u
<1> HIDE DEF w, s
<1> QED
  BY <1>2, <1>3, <1>4, <1>5, KeepTrans

--------------------------------------------------------------------------------
(* The delivery helpers: retries, verifies and holds *)

LEMMA SpentLedger ==
  ASSUME NEW b \in BusStates, NEW s, NEW p, NEW t, NEW k, p \in b.spent => p \in s
  PROVE  Keep(b, [b EXCEPT !.spent = s], p, t, k)
<1> DEFINE d == [b EXCEPT !.spent = s]
<1>1. /\ d.deliveries = b.deliveries /\ d.held = b.held /\ d.carried = b.carried
      /\ d.verify = b.verify /\ d.hold = b.hold /\ d.spent = s
  BY Zenon DEF BusStates
<1> HIDE DEF d
<1>2. Mine(d, p, k) = Mine(b, p, k) /\ (Waits(d, p) <=> Waits(b, p)) /\ (Verifying(d, p) <=> Verifying(b, p))
  BY <1>1, Zenon DEF Mine, Waits, Verifying
<1>3. Place(b, p, k) => Place(d, p, k)
  BY <1>1, <1>2, Zenon DEF Place
<1>4. Cost(b, p, t, k) => Cost(d, p, t, k)
  BY <1>1, <1>2, Zenon DEF Cost
<1>5. Quiet(b, p, k) => Quiet(d, p, k)
  BY <1>1, <1>2, Zenon DEF Quiet
<1> QED
  BY <1>3, <1>4, <1>5 DEF Keep, Ledger, d

\* A verify is dropped, or armed where it may be.
LEMMA VerifyLedger ==
  ASSUME NEW b \in BusStates, NEW v, NEW p, NEW t, NEW k
  PROVE  LET d == [b EXCEPT !.verify = v]
         IN  /\ (v[p] \in {"armed", "graced"} => Verifying(b, p)) => Keep(b, d, p, t, k)
             /\ MayArm(b, p, t, k) /\ Ledger(b, p, t, k) => Ledger(d, p, t, k)
<1> DEFINE d == [b EXCEPT !.verify = v]
<1>1. /\ d.deliveries = b.deliveries /\ d.held = b.held /\ d.carried = b.carried
      /\ d.verify = v /\ d.hold = b.hold /\ d.spent = b.spent
  BY Zenon DEF BusStates
<1> HIDE DEF d
<1>2. Mine(d, p, k) = Mine(b, p, k) /\ (Waits(d, p) <=> Waits(b, p))
  BY <1>1, Zenon DEF Mine, Waits
<1>3. ASSUME v[p] \in {"armed", "graced"} => Verifying(b, p) PROVE Keep(b, d, p, t, k)
  <2>1. Verifying(d, p) => Verifying(b, p)
    BY <1>1, <1>3, Zenon DEF Verifying
  <2>2. Place(b, p, k) => Place(d, p, k)
    BY <1>1, <1>2, <2>1, Zenon DEF Place
  <2>3. Cost(b, p, t, k) => Cost(d, p, t, k)
    BY <1>1, <1>2, <2>1, Zenon DEF Cost
  <2>4. Quiet(b, p, k) => Quiet(d, p, k)
    BY <1>1, <1>2, <2>1, Zenon DEF Quiet
  <2> QED
    BY <2>2, <2>3, <2>4 DEF Keep, Ledger
<1>4. ASSUME MayArm(b, p, t, k), Ledger(b, p, t, k) PROVE Ledger(d, p, t, k)
  <2>1. Place(b, p, k) /\ Cost(b, p, t, k)
    BY <1>4 DEF Ledger
  <2>2. /\ ~Waits(b, p) /\ b.hold[p] = None
        /\ Mine(b, p, k) = {} => t <= 1
        /\ \A i \in Mine(b, p, k) : b.deliveries[i].current /\ t <= One(b.deliveries[i].typed)
    BY <1>4 DEF MayArm
  <2>3. Place(d, p, k)
    BY <1>1, <1>2, <2>1, <2>2, Zenon DEF Place
  <2>4. Cost(d, p, t, k)
    BY <1>1, <1>2, <2>1, <2>2, Zenon DEF Cost
  <2> QED
    BY <2>3, <2>4 DEF Ledger
<1> QED
  BY <1>3, <1>4 DEF d

\* A hold is dropped, or taken for a prompt that is nowhere else.
LEMMA HoldLedger ==
  ASSUME NEW b \in BusStates, NEW h, NEW p, NEW t, NEW k
  PROVE  LET d == [b EXCEPT !.hold = h]
         IN  /\ h[p] \in {None, b.hold[p]} => Keep(b, d, p, t, k)
             /\ Mine(b, p, k) = {} /\ ~Waits(b, p) /\ ~Verifying(b, p) /\ t <= 1 /\ Ledger(b, p, t, k) =>
                  Ledger(d, p, t, k)
<1> DEFINE d == [b EXCEPT !.hold = h]
<1>1. /\ d.deliveries = b.deliveries /\ d.held = b.held /\ d.carried = b.carried
      /\ d.verify = b.verify /\ d.hold = h /\ d.spent = b.spent
  BY Zenon DEF BusStates
<1> HIDE DEF d
<1>2. Mine(d, p, k) = Mine(b, p, k) /\ (Waits(d, p) <=> Waits(b, p)) /\ (Verifying(d, p) <=> Verifying(b, p))
  BY <1>1, Zenon DEF Mine, Waits, Verifying
<1>3. ASSUME h[p] \in {None, b.hold[p]} PROVE Keep(b, d, p, t, k)
  <2>1. d.hold[p] # None => b.hold[p] # None
    BY <1>1, <1>3
  <2>2. Place(b, p, k) => Place(d, p, k)
    BY <1>1, <1>2, <2>1, Zenon DEF Place
  <2>3. Cost(b, p, t, k) => Cost(d, p, t, k)
    BY <1>1, <1>2, <2>1, Zenon DEF Cost
  <2>4. Quiet(b, p, k) => Quiet(d, p, k)
    BY <1>1, <1>2, <2>1, Zenon DEF Quiet
  <2> QED
    BY <2>2, <2>3, <2>4 DEF Keep, Ledger
<1>4. ASSUME Mine(b, p, k) = {}, ~Waits(b, p), ~Verifying(b, p), t <= 1, Ledger(b, p, t, k)
      PROVE  Ledger(d, p, t, k)
  <2>1. Place(b, p, k) /\ Cost(b, p, t, k)
    BY <1>4 DEF Ledger
  <2>2. Place(d, p, k)
    BY <1>1, <1>2, <1>4, <2>1, Zenon DEF Place
  <2>3. Cost(d, p, t, k)
    BY <1>1, <1>2, <1>4, <2>1, Zenon DEF Cost
  <2> QED
    BY <2>2, <2>3 DEF Ledger
<1> QED
  BY <1>3, <1>4 DEF d

LEMMA ArmVerifyLedger ==
  ASSUME NEW b \in BusStates, NEW xs, NEW p \in Texts, NEW t, NEW k
  PROVE  /\ p \notin xs => Keep(b, ArmVerify(b, xs), p, t, k)
         /\ MayArm(b, p, t, k) /\ Ledger(b, p, t, k) => Ledger(ArmVerify(b, xs), p, t, k)
<1> DEFINE u == Touch(b)
           v == [x \in Texts |-> IF x \in xs /\ b.verify[x] = "none" THEN "armed" ELSE b.verify[x]]
           d == [u EXCEPT !.verify = v]
<1>1. u \in BusStates /\ Apart(b, u)
  BY TouchTyped, TouchApart
<1>2. p \notin xs => v[p] = b.verify[p]
  OBVIOUS
<1> HIDE DEF u, v
<1>3. Keep(b, u, p, t, k) /\ (MayArm(u, p, t, k) <=> MayArm(b, p, t, k))
  BY <1>1, ApartKeep, ApartLedger
<1>4. /\ (v[p] \in {"armed", "graced"} => Verifying(u, p)) => Keep(u, d, p, t, k)
      /\ MayArm(u, p, t, k) /\ Ledger(u, p, t, k) => Ledger(d, p, t, k)
  BY <1>1, VerifyLedger
<1>5. u.verify = b.verify
  BY <1>1 DEF Apart
<1>6. p \notin xs => Keep(u, d, p, t, k)
  BY <1>2, <1>4, <1>5 DEF Verifying
<1>7. ArmVerify(b, xs) = d
  BY DEF ArmVerify, u, v
<1> HIDE DEF d
<1>8. p \notin xs => Keep(b, d, p, t, k)
  BY <1>3, <1>6, KeepTrans
<1>9. Ledger(b, p, t, k) => Ledger(u, p, t, k)
  BY <1>3 DEF Keep
<1> QED
  BY <1>3, <1>4, <1>7, <1>8, <1>9

\* Releasing held texts arms their verify and leaves the rest.
LEMMA ReleaseHoldLedger ==
  ASSUME NEW b \in BusStates, NEW xs \in SUBSET HeldTexts(b), NEW p \in Texts, NEW t, NEW k
  PROVE  /\ Keep(b, ReleaseHold(b, xs), p, t, k)
         /\ ReleaseHold(b, xs).init = b.init /\ ReleaseHold(b, xs).held = b.held
         /\ ReleaseHold(b, xs).carried = b.carried /\ ReleaseHold(b, xs).spent = b.spent
<1> DEFINE h == [x \in Texts |-> IF x \in xs THEN None ELSE b.hold[x]]
           d == [b EXCEPT !.hold = h]
           a == ArmVerify(d, xs)
<1>1. h[p] \in {None, b.hold[p]} /\ (p \in xs => h[p] = None)
  OBVIOUS
<1>2. h \in [Texts -> Holds \cup {None}]
  BY DEF BusStates
<1> HIDE DEF h
<1>3. /\ d \in BusStates /\ d.init = b.init /\ d.held = b.held /\ d.carried = b.carried
      /\ d.spent = b.spent /\ d.verify = b.verify /\ d.deliveries = b.deliveries /\ d.hold = h
  BY <1>2, Zenon DEF BusStates
<1>4. Keep(b, d, p, t, k)
  BY <1>1, HoldLedger
<1> HIDE DEF d
<1>5. /\ a.init = d.init /\ a.held = d.held /\ a.carried = d.carried /\ a.spent = d.spent
  <2>1. Touch(d) \in BusStates /\ Apart(d, Touch(d)) /\ Touch(d).init = d.init
    BY <1>3, TouchTyped, TouchApart
  <2> DEFINE u == Touch(d)
             v == [x \in Texts |-> IF x \in xs /\ d.verify[x] = "none" THEN "armed" ELSE d.verify[x]]
  <2>2. a = [u EXCEPT !.verify = v]
    BY DEF ArmVerify
  <2> HIDE DEF u, v, a
  <2>3. u \in BusStates
    BY <2>1 DEF u
  <2>4. a.init = u.init /\ a.held = u.held /\ a.carried = u.carried /\ a.spent = u.spent
    BY <2>2, <2>3, Zenon DEF BusStates
  <2> QED
    BY <2>1, <2>4 DEF Apart, u
<1>6. Keep(b, a, p, t, k)
  <2>1. CASE p \notin xs
    BY <1>3, <1>4, <2>1, ArmVerifyLedger, KeepTrans
  <2>2. CASE p \in xs
    <3>1. b.hold[p] # None
      BY <2>2 DEF HeldTexts
    <3>2. ~Quiet(b, p, k)
      BY <3>1 DEF Quiet
    <3>3. ASSUME Ledger(b, p, t, k) PROVE Ledger(a, p, t, k)
      <4>1. Place(b, p, k) /\ Cost(b, p, t, k)
        BY <3>3 DEF Ledger
      <4>2. Mine(b, p, k) = {} /\ ~Waits(b, p) /\ t <= 1
        BY <3>1, <4>1 DEF Place, Cost
      <4>3. Mine(d, p, k) = {} /\ ~Waits(d, p) /\ d.hold[p] = None
        BY <1>1, <1>3, <2>2, <4>2 DEF Mine, Waits
      <4>4. MayArm(d, p, t, k)
        BY <4>2, <4>3 DEF MayArm
      <4>5. Ledger(d, p, t, k)
        BY <1>4, <3>3 DEF Keep
      <4> QED
        BY <1>3, <4>4, <4>5, ArmVerifyLedger
    <3> QED
      BY <3>2, <3>3 DEF Keep
  <2> QED
    BY <2>1, <2>2
<1>7. Keep(b, b, p, t, k)
  BY DEF Keep
<1>8. ReleaseHold(b, xs) = IF xs = {} THEN b ELSE a
  BY DEF ReleaseHold, a, d, h
<1> HIDE DEF a
<1> QED
  BY <1>3, <1>5, <1>6, <1>7, <1>8

LEMMA RedeliverLedger ==
  ASSUME NEW b \in BusStates, NEW x \in Texts, NEW p \in Prompts, NEW t \in Nat,
         NEW k \in Nat, k <= Len(b.deliveries)
  PROVE  /\ p # x => Keep(b, Redeliver(b, x), p, t, k)
         /\ p = x /\ Free(b, p, t, k) => Ledger(Redeliver(b, x), p, t, k)
<1> DEFINE xs == <<x>>
           e  == [b EXCEPT !.carried = @ \o xs]
           d  == DeliverAll(b, xs)
<1>1. xs \in Seq(Texts) /\ (Contains(xs, p) <=> p = x) /\ Once(xs, p)
  BY DEF Contains, Once
<1>2. b.carried \in Seq(Texts)
  BY Zenon DEF BusStates
<1>3. Append(b.carried, x) = b.carried \o xs
  BY <1>2
<1>4. [b EXCEPT !.carried = Append(@, x)] = e
  BY <1>3, Zenon
<1> HIDE DEF xs
<1>5. /\ p # x => Keep(b, e, p, t, k)
      /\ p = x /\ Free(b, p, t, k) => Ledger(e, p, t, k)
  BY <1>1, WaitLedger
<1>6. /\ p # x => Keep(b, d, p, t, k)
      /\ p = x /\ Free(b, p, t, k) => Ledger(d, p, t, k)
  BY <1>1, DeliverAllLedger
<1>7. Keep(b, b, p, t, k)
  BY DEF Keep
<1> HIDE DEF d, e
<1>8. /\ Redeliver(b, x) \in {b, d, e}
      /\ Redeliver(b, x) = b => Contains(b.carried, x) \/ b \in {d, e}
  BY <1>4 DEF Redeliver, DeliverOrQueue, d, xs
<1>9. Free(b, p, t, k) => ~Contains(b.carried, p)
  BY DEF Free, Quiet, Waits
<1> QED
  BY <1>5, <1>6, <1>7, <1>8, <1>9

\* A text in flight no more, whose verdict it was, is held through a compaction.
LEMMA HoldThroughCompactionLedger ==
  ASSUME NEW b \in BusStates, NEW x \in Texts, NEW gen, NEW since, NEW p \in Prompts, NEW t, NEW k
  PROVE  LET d == HoldThroughCompaction(b, x, gen, since)
         IN  /\ p # x => Keep(b, d, p, t, k)
             /\ p = x /\ Ledger(b, p, t, k) /\ Mine(b, p, k) = {} /\ ~Waits(b, p) /\ b.hold[p] = None /\ t <= 1 =>
                  Ledger(d, p, t, k)
<1> DEFINE v == [b.verify EXCEPT ![x] = "none"]
           u == [b EXCEPT !.verify = v]
           w == Touch(u)
           h == [w.hold EXCEPT ![x] = [gen |-> gen, since |-> since]]
           e == [w EXCEPT !.hold = h]
           a == ArmVerify(b, {x})
           d == HoldThroughCompaction(b, x, gen, since)
<1>1. b.verify \in [Texts -> {"none", "armed", "graced", "spent"}] /\ p \in Texts
  BY Zenon DEF BusStates, Texts
<1>2. v[p] = (IF p = x THEN "none" ELSE b.verify[p]) /\ v \in [Texts -> {"none", "armed", "graced", "spent"}]
  BY <1>1
<1> HIDE DEF v
<1>3. /\ u \in BusStates /\ u.verify = v /\ u.deliveries = b.deliveries
      /\ u.held = b.held /\ u.carried = b.carried /\ u.hold = b.hold
  BY <1>2, Zenon DEF BusStates
<1>4. Keep(b, u, p, t, k)
  BY <1>2, VerifyLedger DEF Verifying
<1> HIDE DEF u
<1>5. w \in BusStates /\ Apart(u, w)
  BY <1>3, TouchTyped, TouchApart
<1>6. Keep(b, w, p, t, k)
  BY <1>4, <1>5, ApartKeep, KeepTrans
<1> HIDE DEF w
<1>7. w.hold \in [Texts -> Holds \cup {None}]
  BY <1>5, Zenon DEF BusStates
<1>8. p # x => h[p] = w.hold[p]
  BY <1>1, <1>7
<1> HIDE DEF h
<1>9. /\ p # x => Keep(b, e, p, t, k)
      /\ p = x /\ Mine(w, p, k) = {} /\ ~Waits(w, p) /\ ~Verifying(w, p) /\ t <= 1 /\ Ledger(w, p, t, k) =>
           Ledger(e, p, t, k)
  BY <1>5, <1>6, <1>8, HoldLedger, KeepTrans
<1>10. ASSUME p = x, Ledger(b, p, t, k), Mine(b, p, k) = {}, ~Waits(b, p), b.hold[p] = None, t <= 1
       PROVE  Ledger(e, p, t, k) /\ Ledger(a, p, t, k)
  <2>1. Mine(w, p, k) = {} /\ ~Waits(w, p) /\ ~Verifying(w, p)
    BY <1>2, <1>3, <1>5, <1>10 DEF Apart, Mine, Waits, Verifying
  <2>2. Ledger(w, p, t, k)
    BY <1>6, <1>10 DEF Keep
  <2>3. MayArm(b, p, t, k)
    BY <1>10 DEF MayArm
  <2> QED
    BY <1>1, <1>9, <1>10, <2>1, <2>2, <2>3, ArmVerifyLedger
<1>11. p # x => Keep(b, a, p, t, k) /\ Keep(b, b, p, t, k)
  BY <1>1, ArmVerifyLedger DEF Keep
<1> HIDE DEF e, a
<1>12. d \in {b, a, u, e}
  BY DEF HoldThroughCompaction, a, u, v, w, e, h
<1> HIDE DEF d
<1>13. Ledger(b, p, t, k) => Ledger(u, p, t, k)
  BY <1>4 DEF Keep
<1> QED
  BY <1>4, <1>9, <1>10, <1>11, <1>12, <1>13 DEF d

LEMMA WithoutEffect ==
  ASSUME NEW S, NEW s \in Seq(S), NEW x, NEW y
  PROVE  /\ Once(s, y) => Once(Without(s, x), y)
         /\ Contains(Without(s, x), y) => Contains(s, y)
         /\ Once(s, x) => ~Contains(Without(s, x), x)
<1>1. CASE ~Contains(s, x)
  BY <1>1 DEF Without
<1>2. CASE Contains(s, x)
  <2> DEFINE n == Len(s)
             i == FirstAt(s, x)
             r == Without(s, x)
  <2>1. i \in 1 .. n /\ s[i] = x
    BY <1>2, FirstAtFinds
  <2>2. r = RemoveAt(s, i)
    BY <1>2 DEF Without
  <2> HIDE DEF i, r
  <2>3. r \in Seq(S) /\ Len(r) = n - 1 /\ \A j \in 1 .. n - 1 : r[j] = IF j < i THEN s[j] ELSE s[j + 1]
    BY <2>1, <2>2, RemoveAtSeq
  <2>4. n \in Nat /\ DOMAIN s = 1 .. n /\ DOMAIN r = 1 .. n - 1
    BY <2>3
  <2> HIDE DEF n
  <2>5. ASSUME NEW j \in 1 .. n - 1
        PROVE  \E m \in 1 .. n : m # i /\ r[j] = s[m] /\ m = IF j < i THEN j ELSE j + 1
    BY <2>1, <2>3, <2>4, <2>5
  <2>6. Contains(r, y) => Contains(s, y)
    BY <2>4, <2>5 DEF Contains, n
  <2>7. ASSUME Once(s, y) PROVE Once(r, y)
    <3> SUFFICES ASSUME NEW j \in 1 .. n - 1, NEW l \in 1 .. n - 1, r[j] = y, r[l] = y PROVE j = l
      BY <2>4 DEF Once
    <3>1. PICK m \in 1 .. n : r[j] = s[m] /\ m = IF j < i THEN j ELSE j + 1
      BY <2>5
    <3>2. PICK o \in 1 .. n : r[l] = s[o] /\ o = IF l < i THEN l ELSE l + 1
      BY <2>5
    <3>3. m = o
      BY <2>4, <2>7, <3>1, <3>2 DEF Once
    <3> QED
      BY <2>1, <3>1, <3>2, <3>3
  <2>8. ASSUME Once(s, x) PROVE ~Contains(r, x)
    <3> SUFFICES ASSUME NEW j \in 1 .. n - 1, r[j] = x PROVE FALSE
      BY <2>3, <2>4 DEF Contains
    <3>1. PICK m \in 1 .. n : m # i /\ r[j] = s[m]
      BY <2>5
    <3> QED
      BY <2>1, <2>4, <2>8, <3>1 DEF Once
  <2> QED
    BY <2>6, <2>7, <2>8 DEF r
<1> QED
  BY <1>1, <1>2

--------------------------------------------------------------------------------
(* What the transcript, the PTY layer and the timers say of a delivery *)

\* A text the transcript shows is neither re-delivered, verified nor held on.
LEMMA NoteFlushTurnStartLedger ==
  ASSUME NEW b \in BusStates, NEW x, NEW p \in Prompts, NEW t \in Nat, NEW k
  PROVE  Keep(b, NoteFlushTurnStart(b, x), p, t, k)
<1> DEFINE ds   == b.deliveries
           seen == [i \in DOMAIN ds |->
                      IF ds[i].owns /\ ds[i].text = x THEN [ds[i] EXCEPT !.proven = TRUE] ELSE ds[i]]
           held == IF x \in b.spent THEN Without(b.held, x) ELSE b.held
           carried == Without(b.carried, x)
           proven == [b EXCEPT !.deliveries = seen, !.spent = @ \ {x}, !.held = held,
                               !.carried = carried]
           y == [proven EXCEPT !.hold[x] = None]
           z == [proven EXCEPT !.verify[x] = "none"]
           d == NoteFlushTurnStart(b, x)
<1>1. ds \in Seq(Deliveries) /\ b.held \in Seq(Texts) /\ b.carried \in Seq(Texts) /\ p \in Texts
  BY Zenon DEF BusStates, Texts
<1>2. ASSUME NEW i \in DOMAIN ds
      PROVE  /\ seen[i].text = ds[i].text /\ seen[i].typed = ds[i].typed
             /\ seen[i].current = ds[i].current /\ (seen[i].owns <=> ds[i].owns)
             /\ ds[i].proven => seen[i].proven
             /\ ds[i].owns /\ ds[i].text = x => seen[i].proven
             /\ seen[i] \in Deliveries
  <2>1. ds[i] \in Deliveries
    BY <1>1
  <2> DEFINE e == [ds[i] EXCEPT !.proven = TRUE]
  <2>2. e \in Deliveries /\ e.text = ds[i].text /\ e.typed = ds[i].typed /\ e.current = ds[i].current
        /\ e.owns = ds[i].owns /\ e.proven = TRUE
    BY <2>1, Zenon DEF Deliveries
  <2>3. seen[i] = IF ds[i].owns /\ ds[i].text = x THEN e ELSE ds[i]
    OBVIOUS
  <2> HIDE DEF e, seen
  <2> QED
    BY <2>1, <2>2, <2>3
<1>3. DOMAIN seen = DOMAIN ds
  OBVIOUS
<1>4. /\ Once(b.held, p) => Once(held, p)
      /\ Once(b.carried, p) => Once(carried, p)
      /\ Contains(held, p) => Contains(b.held, p)
      /\ Contains(carried, p) => Contains(b.carried, p)
      /\ p = x /\ Once(b.carried, p) => ~Contains(carried, p)
      /\ p = x /\ Once(b.held, p) /\ Contains(held, p) => p \notin b.spent
  BY <1>1, WithoutEffect
<1> HIDE DEF seen, held, carried
<1>5. /\ proven.deliveries = seen /\ proven.spent = b.spent \ {x} /\ proven.held = held
      /\ proven.carried = carried /\ proven.verify = b.verify /\ proven.hold = b.hold
  BY ZenonT(30) DEF BusStates
<1>6. DOMAIN proven = DOMAIN b /\ b.verify \in [Texts -> {"none", "armed", "graced", "spent"}]
      /\ b.hold \in [Texts -> Holds \cup {None}]
      /\ {"deliveries", "held", "carried", "verify", "hold", "spent"} \subseteq DOMAIN b
  BY ZenonT(30) DEF BusStates
<1> HIDE DEF proven
<1>7. /\ y.deliveries = seen /\ y.spent = b.spent \ {x} /\ y.held = held /\ y.carried = carried
      /\ y.verify = b.verify /\ y.hold = [b.hold EXCEPT ![x] = None]
      /\ z.deliveries = seen /\ z.spent = b.spent \ {x} /\ z.held = held /\ z.carried = carried
      /\ z.hold = b.hold /\ z.verify = [b.verify EXCEPT ![x] = "none"]
  BY <1>5, <1>6
<1> HIDE DEF y, z
<1>8. Keep(b, b, p, t, k)
  BY DEF Keep
<1>9. ASSUME x \in Texts, NEW e, e = IF b.hold[x] # None THEN y ELSE z
      PROVE  Keep(b, e, p, t, k)
  <2>1. e.deliveries = seen /\ e.spent = b.spent \ {x} /\ e.held = held /\ e.carried = carried
    BY <1>7, <1>9
  <2>2. /\ Verifying(e, p) => Verifying(b, p)
        /\ e.hold[p] \in {None, b.hold[p]}
        /\ p = x => e.hold[p] = None /\ (b.hold[p] = None => ~Verifying(e, p))
    BY <1>1, <1>6, <1>7, <1>9 DEF Verifying
  <2>3. Mine(e, p, k) = Mine(b, p, k)
    BY <1>2, <1>3, <2>1 DEF Mine
  <2>4. ASSUME NEW i \in Mine(b, p, k)
        PROVE  /\ e.deliveries[i].typed = ds[i].typed
               /\ e.deliveries[i].current = ds[i].current /\ (e.deliveries[i].owns <=> ds[i].owns)
               /\ ds[i].proven => e.deliveries[i].proven
               /\ ds[i].owns /\ p = x => e.deliveries[i].proven
    BY <1>2, <2>1 DEF Mine
  <2>5. Waits(e, p) => Waits(b, p)
    BY <1>4, <2>1 DEF Waits
  <2>6. Quiet(b, p, k) => Quiet(e, p, k)
    BY <2>2, <2>3, <2>5 DEF Quiet
  <2>7. ASSUME Ledger(b, p, t, k) PROVE Ledger(e, p, t, k)
    <3>1. Place(b, p, k) /\ Cost(b, p, t, k)
      BY <2>7 DEF Ledger
    <3>2. e.hold[p] # None => b.hold[p] # None
      BY <2>2
    <3>3. Once(e.held, p) /\ Once(e.carried, p) /\ ~(Contains(e.held, p) /\ Contains(e.carried, p))
      BY <1>4, <2>1, <3>1 DEF Place
    <3>4. Place(e, p, k)
      BY <2>2, <2>3, <2>4, <2>5, <3>1, <3>2, <3>3, Zenon DEF Place
    <3>5. p = x => ~Verifying(e, p) /\ e.hold[p] = None /\ ~Contains(e.carried, p)
                   /\ (Contains(e.held, p) => p \notin b.spent)
      BY <1>4, <2>1, <2>2, <3>1 DEF Place
    <3>6. p # x => (p \in e.spent <=> p \in b.spent)
      BY <2>1
    <3>7. ASSUME NEW i \in Mine(e, p, k)
          PROVE  /\ t <= 1 + One(e.deliveries[i].typed)
                 /\ Verifying(e, p) \/ (p \notin e.spent /\ ~e.deliveries[i].proven) =>
                      t <= One(e.deliveries[i].typed)
      <4>1. i \in Mine(b, p, k) /\ ds[i].owns
        BY <2>3, <3>1, <3>7 DEF Place
      <4> QED
        BY <2>2, <2>4, <3>1, <3>5, <3>6, <4>1 DEF Cost
    <3>8. Waits(e, p) => t <= 1 /\ (p \notin e.spent => t = 0)
      BY <2>5, <3>1, <3>5, <3>6 DEF Cost, Waits
    <3>9. Mine(e, p, k) = {} /\ (Verifying(e, p) \/ e.hold[p] # None) => t <= 1
      BY <2>2, <2>3, <3>1, <3>2 DEF Cost
    <3>10. t <= 2
      BY <3>1 DEF Cost
    <3> QED
      BY <3>4, <3>7, <3>8, <3>9, <3>10 DEF Ledger, Cost
  <2> QED
    BY <2>6, <2>7 DEF Keep
<1>10. d = IF x \in Texts THEN IF b.hold[x] # None THEN y ELSE z ELSE b
  BY DEF NoteFlushTurnStart, y, z, proven, seen, held, carried
<1> HIDE DEF d
<1> QED
  BY <1>8, <1>9, <1>10 DEF d

\* A delivery that settles no longer counts while its verdict is followed up.
LEMMA SettlingLedger ==
  ASSUME NEW b \in BusStates, NEW i \in DOMAIN b.deliveries, NEW p \in Prompts, NEW t \in Nat
  PROVE  /\ Keep(b, b, p, t, i)
         /\ Ledger(b, p, t, 0) => Ledger(b, p, t, i)
         /\ Quiet(b, p, 0) => Quiet(b, p, i) /\ b.deliveries[i].text # p
         /\ Ledger(b, p, t, 0) /\ b.deliveries[i].text = p =>
              /\ Mine(b, p, i) = {} /\ ~Waits(b, p) /\ b.hold[p] = None
              /\ Verifying(b, p) => b.deliveries[i].current
              /\ p \notin b.spent /\ ~b.deliveries[i].proven => t <= 1
<1>1. DOMAIN b.deliveries \subseteq Nat \ {0}
  <2>1. b.deliveries \in Seq(Deliveries)
    BY Zenon DEF BusStates
  <2> QED
    BY <2>1
<1>2. Mine(b, p, i) = Mine(b, p, 0) \ {i}
  BY <1>1 DEF Mine
<1>3. b.deliveries[i].text = p <=> i \in Mine(b, p, 0)
  BY <1>1 DEF Mine
<1>4. Quiet(b, p, 0) => Quiet(b, p, i) /\ b.deliveries[i].text # p
  BY <1>2, <1>3 DEF Quiet
<1>5. ASSUME Ledger(b, p, t, 0)
      PROVE  /\ Ledger(b, p, t, i)
             /\ b.deliveries[i].text = p =>
                  /\ Mine(b, p, i) = {} /\ ~Waits(b, p) /\ b.hold[p] = None
                  /\ Verifying(b, p) => b.deliveries[i].current
                  /\ p \notin b.spent /\ ~b.deliveries[i].proven => t <= 1
  <2>1. Place(b, p, 0) /\ Cost(b, p, t, 0)
    BY <1>5 DEF Ledger
  <2>2. \A y : One(y) \in {0, 1}
    BY DEF One
  <2>3. CASE b.deliveries[i].text # p
    <3>1. Mine(b, p, i) = Mine(b, p, 0)
      BY <1>2, <1>3, <2>3
    <3>2. Place(b, p, i) /\ Cost(b, p, t, i)
      BY <2>1, <3>1 DEF Place, Cost
    <3> QED
      BY <2>3, <3>2 DEF Ledger
  <2>4. CASE b.deliveries[i].text = p
    <3>1. i \in Mine(b, p, 0)
      BY <1>3, <2>4
    <3>2. Mine(b, p, i) = {}
      BY <1>2, <2>1, <3>1 DEF Place
    <3>3. ~Waits(b, p) /\ b.hold[p] = None /\ (Verifying(b, p) => b.deliveries[i].current)
      BY <2>1, <3>1 DEF Place
    <3>4. /\ Verifying(b, p) => t <= 1
          /\ p \notin b.spent /\ ~b.deliveries[i].proven => t <= 1
      BY <2>1, <2>2, <3>1 DEF Cost
    <3>5. Place(b, p, i)
      BY <2>1, <3>2, <3>3 DEF Place
    <3>6. Cost(b, p, t, i)
      BY <2>1, <3>2, <3>3, <3>4 DEF Cost
    <3> QED
      BY <3>2, <3>3, <3>4, <3>5, <3>6 DEF Ledger
  <2> QED
    BY <2>3, <2>4
<1> QED
  BY <1>4, <1>5 DEF Keep

LEMMA SettledLedger ==
  ASSUME NEW b \in BusStates, NEW i \in DOMAIN b.deliveries, NEW p \in Prompts, NEW t \in Nat
  PROVE  LET d == [b EXCEPT !.deliveries = RemoveAt(@, i)]
         IN  /\ Ledger(b, p, t, i) => Ledger(d, p, t, 0)
             /\ Quiet(b, p, i) => Quiet(d, p, 0)
<1> DEFINE ds == b.deliveries
           es == RemoveAt(ds, i)
           d  == [b EXCEPT !.deliveries = es]
           n  == Len(ds)
           Old(j) == IF j < i THEN j ELSE j + 1
<1>1. ds \in Seq(Deliveries) /\ n \in Nat /\ DOMAIN ds = 1 .. n /\ i \in 1 .. n
  <2>1. ds \in Seq(Deliveries)
    BY Zenon DEF BusStates
  <2> QED
    BY <2>1
<1>2. es \in Seq(Deliveries) /\ Len(es) = n - 1 /\ \A j \in 1 .. n - 1 : es[j] = IF j < i THEN ds[j] ELSE ds[j + 1]
  BY <1>1, RemoveAtSeq
<1>3. DOMAIN es = 1 .. n - 1
  BY <1>2
<1> HIDE DEF n, ds, es
<1>4. /\ d.deliveries = es /\ d.held = b.held /\ d.carried = b.carried
      /\ d.verify = b.verify /\ d.hold = b.hold /\ d.spent = b.spent
  BY Zenon DEF BusStates
<1> HIDE DEF d
<1>5. (Waits(d, p) <=> Waits(b, p)) /\ (Verifying(d, p) <=> Verifying(b, p))
  BY <1>4, Zenon DEF Waits, Verifying
<1>6. \A j \in 1 .. n - 1 : Old(j) \in 1 .. n /\ Old(j) # i /\ es[j] = ds[Old(j)]
  BY <1>1, <1>2
<1>7. \A j, l \in 1 .. n - 1 : Old(j) = Old(l) => j = l
  BY <1>1
<1>8. \A m \in 1 .. n : m # i => \E j \in 1 .. n - 1 : Old(j) = m
  <2> SUFFICES ASSUME NEW m \in 1 .. n, m # i PROVE \E j \in 1 .. n - 1 : Old(j) = m
    OBVIOUS
  <2>1. CASE m < i
    BY <1>1, <2>1
  <2>2. CASE m > i
    <3>1. m - 1 \in 1 .. n - 1 /\ Old(m - 1) = m
      BY <1>1, <2>2
    <3> QED
      BY <3>1
  <2> QED
    BY <1>1, <2>1, <2>2
<1> HIDE DEF Old
<1>9. \A j \in Mine(d, p, 0) : Old(j) \in Mine(b, p, i) /\ j \in 1 .. n - 1 /\ es[j] = ds[Old(j)]
  BY <1>1, <1>3, <1>4, <1>6 DEF Mine, ds
<1>10. Mine(b, p, i) # {} => Mine(d, p, 0) # {}
  <2> SUFFICES ASSUME NEW m \in Mine(b, p, i) PROVE Mine(d, p, 0) # {}
    OBVIOUS
  <2>1. m \in 1 .. n /\ m # i /\ ds[m].text = p
    BY <1>1 DEF Mine, ds
  <2>2. PICK j \in 1 .. n - 1 : Old(j) = m
    BY <1>8, <2>1
  <2>3. j # 0
    BY <1>1
  <2> QED
    BY <1>3, <1>4, <1>6, <2>1, <2>2, <2>3 DEF Mine
<1>11. Mine(b, p, i) = {} <=> Mine(d, p, 0) = {}
  BY <1>9, <1>10
<1>12. Quiet(b, p, i) => Quiet(d, p, 0)
  BY <1>4, <1>5, <1>11, Zenon DEF Quiet
<1>13. ASSUME Ledger(b, p, t, i) PROVE Ledger(d, p, t, 0)
  <2>1. Place(b, p, i) /\ Cost(b, p, t, i)
    BY <1>13 DEF Ledger
  <2>2. \A j, l \in Mine(d, p, 0) : j = l
    BY <1>7, <1>9, <2>1, Zenon DEF Place
  <2>3. \A j \in Mine(d, p, 0) : d.deliveries[j] = b.deliveries[Old(j)] /\ Old(j) \in Mine(b, p, i)
    BY <1>4, <1>9 DEF ds
  <2>4. Place(d, p, 0)
    BY <1>4, <1>5, <1>11, <2>1, <2>2, <2>3, Zenon DEF Place
  <2>5. Cost(d, p, t, 0)
    BY <1>4, <1>5, <1>11, <2>1, <2>3, Zenon DEF Cost
  <2> QED
    BY <2>4, <2>5 DEF Ledger
<1> QED
  BY <1>12, <1>13 DEF d, es, ds

\* The retry marker is of no account where nothing waits or is in flight.
LEMMA SpentAlone ==
  ASSUME NEW b \in BusStates, NEW s, NEW p, NEW t, NEW k,
         Ledger(b, p, t, k), Mine(b, p, k) = {}, ~Waits(b, p)
  PROVE  Ledger([b EXCEPT !.spent = s], p, t, k)
<1> DEFINE d == [b EXCEPT !.spent = s]
<1>1. /\ d.deliveries = b.deliveries /\ d.held = b.held /\ d.carried = b.carried
      /\ d.verify = b.verify /\ d.hold = b.hold
  BY Zenon DEF BusStates
<1> HIDE DEF d
<1>2. Mine(d, p, k) = Mine(b, p, k) /\ (Waits(d, p) <=> Waits(b, p)) /\ (Verifying(d, p) <=> Verifying(b, p))
  BY <1>1, Zenon DEF Mine, Waits, Verifying
<1>3. Place(b, p, k) /\ Cost(b, p, t, k)
  BY DEF Ledger
<1>4. Place(d, p, k)
  BY <1>1, <1>2, <1>3, Zenon DEF Place
<1>5. Cost(d, p, t, k)
  BY <1>1, <1>2, <1>3 DEF Cost
<1> QED
  BY <1>4, <1>5 DEF Ledger, d

LEMMA VerdictLedger ==
  ASSUME NEW b \in BusStates, NEW i \in DOMAIN b.deliveries, NEW outcome, NEW since \in Nat,
         NEW p \in Prompts, NEW t \in Nat
  PROVE  Keep(b, Verdict(b, i, outcome, since), p, t, 0)
<1> DEFINE d        == b.deliveries[i]
           x        == d.text
           wasRetry == d.owns /\ x \in b.spent
           fresh    == [b EXCEPT !.spent = @ \ {x}]
           consumed == IF wasRetry /\ outcome # "error" THEN fresh ELSE b
           gaveUp   == /\ outcome \in {"gave-up", "stuck-compaction"}
                       /\ ~wasRetry
                       /\ d.owns
                       /\ ~d.proven
                       /\ x # Nudge
           again    == [consumed EXCEPT !.spent = @ \cup {x}]
           judged   == CASE ~gaveUp -> consumed
                         [] gaveUp /\ outcome = "stuck-compaction" ->
                              HoldThroughCompaction(consumed, x, d.gen, since)
                         [] gaveUp /\ outcome = "gave-up" /\ d.current -> ArmVerify(consumed, {x})
                         [] gaveUp /\ outcome = "gave-up" /\ ~d.current -> Redeliver(again, x)
           held     == HoldThroughCompaction(b, x, d.gen, since)
           armed    == ArmVerify(b, {x})
           marked   == [b EXCEPT !.spent = @ \cup {x}]
           retyped  == Redeliver(marked, x)
<1>1. d \in Deliveries /\ x \in Texts /\ d.gen \in Nat /\ i \in 1 .. Len(b.deliveries) /\ p \in Texts
      /\ i \in Nat /\ Len(b.deliveries) \in Nat /\ i <= Len(b.deliveries)
  <2>1. b.deliveries \in Seq(Deliveries)
    BY Zenon DEF BusStates
  <2>2. d \in Deliveries /\ i \in 1 .. Len(b.deliveries) /\ Len(b.deliveries) \in Nat
    BY <2>1
  <2> QED
    BY <2>2 DEF Deliveries, Texts
<1>2. b.spent \ {x} \in SUBSET Texts /\ b.spent \cup {x} \in SUBSET Texts
  BY <1>1, Zenon DEF BusStates
<1>3. /\ fresh \in BusStates /\ fresh.deliveries = b.deliveries
      /\ marked \in BusStates /\ marked.deliveries = b.deliveries /\ marked.spent = b.spent \cup {x}
      /\ marked.held = b.held /\ marked.carried = b.carried /\ marked.hold = b.hold
      /\ marked.verify = b.verify
  BY <1>2, Zenon DEF BusStates
<1>4. /\ Keep(b, b, p, t, i)
      /\ Ledger(b, p, t, 0) => Ledger(b, p, t, i)
      /\ Quiet(b, p, 0) => Quiet(b, p, i) /\ x # p
      /\ Ledger(b, p, t, 0) /\ x = p =>
           /\ Mine(b, p, i) = {} /\ ~Waits(b, p) /\ b.hold[p] = None
           /\ Verifying(b, p) => d.current
           /\ p \notin b.spent /\ ~d.proven => t <= 1
  BY SettlingLedger
<1>5. p # x => Keep(b, fresh, p, t, i) /\ Keep(b, marked, p, t, i)
  BY SpentLedger
<1>6. x = p /\ Ledger(b, p, t, 0) => Ledger(fresh, p, t, i)
  BY <1>4, SpentAlone
<1>7. judged \in {b, fresh, held, armed, retyped}
      /\ (judged \in {held, armed, retyped} => judged \in {b, fresh} \/ (d.owns /\ x \notin b.spent /\ ~d.proven))
      /\ (judged = retyped => judged \in {b, fresh, held, armed} \/ ~d.current)
  <2>1. gaveUp => consumed = b /\ again = marked /\ d.owns /\ x \notin b.spent /\ ~d.proven
    OBVIOUS
  <2>2. consumed \in {b, fresh}
    OBVIOUS
  <2>3. d.current \in BOOLEAN
    BY <1>1 DEF Deliveries
  <2>4. gaveUp => outcome \in {"gave-up", "stuck-compaction"}
    OBVIOUS
  <2> HIDE DEF gaveUp, consumed, again, fresh, marked, d, x
  <2>5. /\ ~gaveUp => judged = consumed
        /\ gaveUp /\ outcome = "stuck-compaction" => judged = held
        /\ gaveUp /\ outcome = "gave-up" /\ d.current => judged = armed
        /\ gaveUp /\ outcome = "gave-up" /\ ~d.current => judged = retyped
    BY <2>1, Zenon
  <2> HIDE DEF judged, held, armed, retyped
  <2> QED
    BY <2>1, <2>2, <2>3, <2>4, <2>5
<1> DEFINE verdict == [judged EXCEPT !.deliveries = RemoveAt(@, i)]
<1>8. Verdict(b, i, outcome, since) = verdict
  BY DEF Verdict
<1> HIDE DEF fresh, marked, judged, x, d
<1>9. /\ p # x => Keep(b, held, p, t, i)
      /\ p = x /\ Ledger(b, p, t, i) /\ Mine(b, p, i) = {} /\ ~Waits(b, p) /\ b.hold[p] = None /\ t <= 1 =>
           Ledger(held, p, t, i)
  BY <1>1, HoldThroughCompactionLedger
<1>10. /\ p # x => Keep(b, armed, p, t, i)
       /\ MayArm(b, p, t, i) /\ Ledger(b, p, t, i) => Ledger(armed, p, t, i)
  BY <1>1, ArmVerifyLedger
<1>11. /\ p # x => Keep(marked, retyped, p, t, i)
       /\ p = x /\ Free(marked, p, t, i) => Ledger(retyped, p, t, i)
  BY <1>1, <1>3, RedeliverLedger
<1>12. p # x => Keep(b, retyped, p, t, i)
  BY <1>5, <1>11, KeepTrans
<1>13. ASSUME x = p, Ledger(b, p, t, 0), p \notin b.spent, ~d.proven
       PROVE  /\ Ledger(held, p, t, i) /\ Ledger(armed, p, t, i)
              /\ ~d.current => Ledger(retyped, p, t, i)
  <2>1. MayArm(b, p, t, i)
    BY <1>4, <1>13 DEF MayArm
  <2>2. ASSUME ~d.current PROVE Free(marked, p, t, i)
    BY <1>3, <1>4, <1>13, <2>2 DEF Free, Quiet, Mine, Waits, Verifying
  <2> QED
    BY <1>4, <1>9, <1>10, <1>11, <1>13, <2>1, <2>2
<1> HIDE DEF held, armed, retyped
<1>14. Ledger(b, p, t, 0) => Ledger(judged, p, t, i)
  <2>1. CASE x = p
    BY <1>4, <1>6, <1>7, <1>13, <2>1
  <2>2. CASE x # p
    <3>1. Keep(b, judged, p, t, i)
      BY <1>4, <1>5, <1>7, <1>9, <1>10, <1>12, <2>2
    <3> QED
      BY <1>4, <3>1 DEF Keep
  <2> QED
    BY <2>1, <2>2
<1>15. Quiet(b, p, 0) => Quiet(judged, p, i)
  <2>1. ASSUME x # p PROVE Keep(b, judged, p, t, i)
    BY <1>4, <1>5, <1>7, <1>9, <1>10, <1>12, <2>1
  <2> QED
    BY <1>4, <2>1 DEF Keep
<1>16. judged \in BusStates /\ i \in DOMAIN judged.deliveries
  <2>1. held \in BusStates /\ held.deliveries = b.deliveries
    <3>1. HoldThroughCompaction(b, x, d.gen, since) \in BusStates
      BY <1>1, HoldThroughCompactionTyped
    <3>2. HoldThroughCompaction(b, x, d.gen, since).deliveries = b.deliveries
      BY <1>1, HoldKeepsDeliveries
    <3> QED
      BY <3>1, <3>2 DEF held
  <2>4. armed \in BusStates /\ armed.deliveries = b.deliveries
    BY ArmVerifyTyped, ArmKeepsDeliveries DEF armed
  <2>5. retyped \in BusStates /\ Len(retyped.deliveries) >= Len(b.deliveries)
    BY <1>1, <1>3, RedeliverTyped, RedeliverGrows DEF retyped
  <2>2. judged \in BusStates /\ Len(judged.deliveries) >= Len(b.deliveries)
    BY <1>1, <1>3, <1>7, <2>1, <2>4, <2>5
  <2>3. judged.deliveries \in Seq(Deliveries)
    BY <2>2, Zenon DEF BusStates
  <2> QED
    BY <1>1, <2>2, <2>3
<1>17. (Ledger(judged, p, t, i) => Ledger(verdict, p, t, 0)) /\ (Quiet(judged, p, i) => Quiet(verdict, p, 0))
  BY <1>16, SettledLedger
<1> HIDE DEF verdict
<1> QED
  BY <1>8, <1>14, <1>15, <1>17 DEF Keep

\* The verify of a prompt fires with no delivery in flight, so the prompt is
\* nowhere else.
LEMMA VerifyTimerLedger ==
  ASSUME NEW b \in BusStates, NEW x \in Texts, b.verify[x] \in {"armed", "graced"},
         NEW p \in Prompts, NEW t \in Nat
  PROVE  Keep(b, VerifyTimer(b, x), p, t, 0)
<1> DEFINE waits == [b EXCEPT !.verify = [@ EXCEPT ![x] = "armed"]]
           grace == [b EXCEPT !.verify = [@ EXCEPT ![x] = "graced"]]
           over  == [b EXCEPT !.verify = [@ EXCEPT ![x] = "spent"]]
           again == [over EXCEPT !.spent = @ \cup {x}]
           out   == Redeliver(again, x)
<1>1. b.verify \in [Texts -> {"none", "armed", "graced", "spent"}] /\ b.spent \in SUBSET Texts /\ p \in Texts
  BY Zenon DEF BusStates, Texts
<1>2. /\ [b EXCEPT !.verify[x] = "armed"] = waits /\ [b EXCEPT !.verify[x] = "graced"] = grace
      /\ [b EXCEPT !.verify[x] = "spent", !.spent = @ \cup {x}] = again
  OBVIOUS
<1>3. \A w \in {"armed", "graced", "spent"} :
        /\ [b.verify EXCEPT ![x] = w] \in [Texts -> {"none", "armed", "graced", "spent"}]
        /\ [b.verify EXCEPT ![x] = w][p] = IF p = x THEN w ELSE b.verify[p]
  BY <1>1
<1>4. Keep(b, waits, p, t, 0) /\ Keep(b, grace, p, t, 0) /\ Keep(b, over, p, t, 0)
  <2>1. \A w \in {"armed", "graced", "spent"} :
          [b.verify EXCEPT ![x] = w][p] \in {"armed", "graced"} => Verifying(b, p)
    BY <1>3 DEF Verifying
  <2> QED
    BY <2>1, VerifyLedger
<1>5. over \in BusStates
  BY <1>3, Zenon DEF BusStates
<1>6. /\ over.verify = [b.verify EXCEPT ![x] = "spent"] /\ over.spent = b.spent /\ over.deliveries = b.deliveries
      /\ over.held = b.held /\ over.carried = b.carried /\ over.hold = b.hold
  BY Zenon DEF BusStates
<1> HIDE DEF over
<1>7. over.spent \cup {x} \in SUBSET Texts
  BY <1>1, <1>6
<1>8. again \in BusStates
  BY <1>5, <1>7, Zenon DEF BusStates
<1>9. /\ again.verify = over.verify /\ again.spent = over.spent \cup {x} /\ again.deliveries = over.deliveries
      /\ again.held = over.held /\ again.carried = over.carried /\ again.hold = over.hold
  BY <1>5, Zenon DEF BusStates
<1>10. Keep(b, again, p, t, 0)
  BY <1>4, <1>5, SpentLedger, KeepTrans
<1> HIDE DEF again, waits, grace
<1>11. again.deliveries \in Seq(Deliveries) /\ 0 \in Nat /\ 0 <= Len(again.deliveries)
  <2>1. again.deliveries \in Seq(Deliveries)
    BY <1>8, Zenon DEF BusStates
  <2> QED
    BY <2>1
<1>12. /\ p # x => Keep(again, out, p, t, 0)
       /\ p = x /\ Free(again, p, t, 0) => Ledger(out, p, t, 0)
  BY <1>8, <1>11, RedeliverLedger
<1>13. ASSUME ~InFlight(b) PROVE Keep(b, out, p, t, 0)
  <2>1. CASE p # x
    BY <1>10, <1>12, <2>1, KeepTrans
  <2>2. CASE p = x
    <3>1. Verifying(b, p)
      BY <2>2 DEF Verifying
    <3>2. ~Quiet(b, p, 0)
      BY <3>1 DEF Quiet
    <3>3. ASSUME Ledger(b, p, t, 0) PROVE Free(again, p, t, 0)
      <4>1. Place(b, p, 0) /\ Cost(b, p, t, 0)
        BY <3>3 DEF Ledger
      <4>2. Mine(b, p, 0) = {}
        BY <1>13, <3>1, <4>1 DEF Place, Mine, InFlight
      <4>3. ~Waits(b, p) /\ b.hold[p] = None /\ t <= 1
        BY <3>1, <4>1, <4>2 DEF Place, Cost
      <4>4. Mine(again, p, 0) = {} /\ ~Waits(again, p) /\ again.hold[p] = None
        BY <1>6, <1>9, <4>2, <4>3 DEF Mine, Waits
      <4>5. ~Verifying(again, p) /\ p \in again.spent
        BY <1>3, <1>6, <1>9, <2>2 DEF Verifying
      <4> QED
        BY <4>3, <4>4, <4>5 DEF Free, Quiet
    <3> QED
      BY <1>12, <2>2, <3>2, <3>3 DEF Keep
  <2> QED
    BY <2>1, <2>2
<1> HIDE DEF out
<1>14. VerifyTimer(b, x) \in {waits, grace, out} /\ (VerifyTimer(b, x) = out => VerifyTimer(b, x) \in {waits, grace} \/ ~InFlight(b))
  <2> DEFINE busy == InFlight(b) \/ b.streaming
  <2>1. /\ busy => VerifyTimer(b, x) = waits
        /\ ~busy /\ b.verify[x] = "armed" => VerifyTimer(b, x) = grace
        /\ ~busy /\ b.verify[x] = "graced" => VerifyTimer(b, x) = out
    BY <1>2 DEF VerifyTimer, out
  <2> QED
    BY <2>1
<1> QED
  BY <1>4, <1>13, <1>14

--------------------------------------------------------------------------------
(* A close, and what it carries over *)

\* A close carries over what waited and the verified prompt with no delivery.
LEMMA CarryOverOnce ==
  ASSUME NEW b \in BusStates, NEW p
  PROVE  /\ Contains(CarryOver(b), p) => Waits(b, p) \/ (p \in Texts /\ NeedsCarrying(b, p))
         /\ Once(b.held, p) /\ Once(b.carried, p) /\ ~(Contains(b.held, p) /\ Contains(b.carried, p)) =>
              Once(CarryOver(b), p)
<1> DEFINE pending == {x \in Texts : NeedsCarrying(b, x)} \ (ToSet(b.held) \cup ToSet(b.carried))
           w == SetToSeq(pending)
           n == Cardinality(pending)
<1>1. IsFiniteSet(Texts)
  BY BusAssumption, FS_AddElement DEF Texts
<1>2. IsFiniteSet(pending) /\ pending \subseteq Texts
  BY <1>1, FS_Subset
<1>3. /\ p \in pending => p \in Texts /\ NeedsCarrying(b, p)
      /\ p \in pending => p \notin ToSet(b.held) /\ p \notin ToSet(b.carried)
  OBVIOUS
<1> HIDE DEF pending
<1>4. n \in Nat /\ ExistsBijection(1 .. n, pending)
  BY <1>2, FS_CardinalityType
<1>5. PICK f \in [1 .. n -> pending] : IsInjective(f)
  BY <1>4 DEF ExistsBijection, Bijection, Injection
<1>6. w \in [1 .. n -> pending] /\ IsInjective(w)
  BY <1>5 DEF SetToSeq
<1> HIDE DEF w, n
<1>7. w \in Seq(pending) /\ DOMAIN w = 1 .. n /\ Len(w) = n /\ \A i \in 1 .. n : w[i] \in pending
  BY <1>4, <1>6
<1>8. Once(w, p)
  BY <1>6, <1>7 DEF IsInjective, Once
<1>9. Contains(w, p) => p \in pending
  BY <1>7 DEF Contains
<1>10. b.held \in Seq(Texts) /\ b.carried \in Seq(Texts)
  BY Zenon DEF BusStates
<1>11. w \in Seq(Texts) /\ b.held \o w \in Seq(Texts)
  <2>1. w \in Seq(Texts)
    BY <1>2, <1>4, <1>7
  <2> QED
    BY <1>10, <2>1
<1>12. /\ Contains(b.held \o w, p) <=> Contains(b.held, p) \/ Contains(w, p)
       /\ Once(b.held, p) /\ ~(Contains(b.held, p) /\ Contains(w, p)) => Once(b.held \o w, p)
  BY <1>8, <1>10, <1>11, ConcatOnce
<1> DEFINE c == (b.held \o w) \o b.carried
<1>13. /\ Contains(c, p) <=> Contains(b.held \o w, p) \/ Contains(b.carried, p)
       /\ Once(b.held \o w, p) /\ Once(b.carried, p) /\ ~(Contains(b.held \o w, p) /\ Contains(b.carried, p)) =>
            Once(c, p)
  BY <1>10, <1>11, ConcatOnce
<1> HIDE DEF c
<1>14. CarryOver(b) = c
  BY DEF CarryOver, c, w, pending
<1>15. /\ Contains(b.held, p) => p \in ToSet(b.held)
       /\ Contains(b.carried, p) => p \in ToSet(b.carried)
  BY <1>10 DEF Contains, ToSet
<1> QED
  BY <1>3, <1>9, <1>12, <1>13, <1>14, <1>15 DEF Waits

LEMMA CloseDeliveriesLedger ==
  ASSUME NEW b \in BusStates, NEW p \in Prompts, NEW t \in Nat
  PROVE  Keep(b, CloseDeliveries(b), p, t, 0)
<1> DEFINE gone  == [i \in DOMAIN b.deliveries |-> [b.deliveries[i] EXCEPT !.current = FALSE]]
           carry == CarryOver(b)
           spent == b.spent \cup {x \in Texts : NeedsCarrying(b, x)}
           none  == [x \in Texts |-> "none"]
           d == [b EXCEPT !.init = FALSE, !.carried = carry, !.spent = spent, !.deliveries = gone,
                          !.held = <<>>, !.verify = none, !.closedOnce = TRUE, !.ready = FALSE,
                          !.hello = FALSE]
<1>1. p \in Texts
  BY DEF Texts
<1>2. ASSUME NEW i \in DOMAIN b.deliveries
      PROVE  /\ gone[i].text = b.deliveries[i].text /\ gone[i].typed = b.deliveries[i].typed
             /\ gone[i].owns = b.deliveries[i].owns /\ gone[i].proven = b.deliveries[i].proven
  <2>1. b.deliveries \in Seq(Deliveries)
    BY Zenon DEF BusStates
  <2>2. b.deliveries[i] \in Deliveries
    BY <2>1
  <2>3. gone[i] = [b.deliveries[i] EXCEPT !.current = FALSE]
    OBVIOUS
  <2> QED
    BY <2>2, <2>3, Zenon DEF Deliveries
<1>3. DOMAIN gone = DOMAIN b.deliveries
  OBVIOUS
<1>4. b.spent \subseteq spent /\ (NeedsCarrying(b, p) => p \in spent)
  BY <1>1
<1>5. none[p] = "none"
  BY <1>1
<1>6. /\ Contains(carry, p) => Waits(b, p) \/ NeedsCarrying(b, p)
      /\ Once(b.held, p) /\ Once(b.carried, p) /\ ~(Contains(b.held, p) /\ Contains(b.carried, p)) =>
           Once(carry, p)
  BY CarryOverOnce
<1> HIDE DEF gone, carry, spent, none
<1>7. /\ d.deliveries = gone /\ d.held = <<>> /\ d.carried = carry
      /\ d.verify = none /\ d.hold = b.hold /\ d.spent = spent
  BY ZenonT(60) DEF BusStates
<1> HIDE DEF d
<1>8. Mine(d, p, 0) = Mine(b, p, 0)
  BY <1>2, <1>3, <1>7 DEF Mine
<1>9. ~Verifying(d, p)
  BY <1>5, <1>7 DEF Verifying
<1>10. ~Contains(d.held, p) /\ Once(d.held, p)
  BY <1>7 DEF Contains, Once
<1>11. Waits(d, p) => Waits(b, p) \/ NeedsCarrying(b, p)
  BY <1>6, <1>7, <1>10 DEF Waits
<1>12. NeedsCarrying(b, p) => Verifying(b, p) /\ ~Proving(b, p)
  BY DEF NeedsCarrying, Verifying
<1>13. Quiet(b, p, 0) => Quiet(d, p, 0)
  BY <1>7, <1>8, <1>9, <1>11, <1>12 DEF Quiet
<1>14. ASSUME Ledger(b, p, t, 0) PROVE Ledger(d, p, t, 0)
  <2>1. Place(b, p, 0) /\ Cost(b, p, t, 0)
    BY <1>14 DEF Ledger
  <2>2. ASSUME NEW i \in Mine(b, p, 0)
        PROVE  /\ d.deliveries[i].owns = b.deliveries[i].owns
               /\ d.deliveries[i].typed = b.deliveries[i].typed
               /\ d.deliveries[i].proven = b.deliveries[i].proven
    BY <1>2, <1>7 DEF Mine
  <2>3. Mine(b, p, 0) # {} => ~NeedsCarrying(b, p)
    <3> SUFFICES ASSUME NEW i \in Mine(b, p, 0) PROVE Proving(b, p)
      BY <1>12
    <3> QED
      BY <2>1 DEF Place, Mine, Proving
  <2>4. Waits(d, p) => Mine(b, p, 0) = {} /\ b.hold[p] = None /\ t <= 1 /\ (p \notin spent => t = 0)
    BY <1>4, <1>11, <1>12, <2>1, <2>3 DEF Place, Cost
  <2>5. Once(d.carried, p)
    BY <1>6, <1>7, <2>1 DEF Place
  <2>6. Place(d, p, 0)
    BY <1>7, <1>8, <1>9, <1>10, <2>1, <2>2, <2>4, <2>5, Zenon DEF Place
  <2>7. Cost(d, p, t, 0)
    <3>1. p \notin d.spent => p \notin b.spent
      BY <1>4, <1>7
    <3> QED
      BY <1>7, <1>8, <1>9, <2>1, <2>2, <2>4, <3>1, Zenon DEF Cost
  <2> QED
    BY <2>6, <2>7 DEF Ledger
<1>15. CloseDeliveries(b) = d
  BY DEF CloseDeliveries, d, gone, carry, spent, none
<1> QED
  BY <1>13, <1>14, <1>15 DEF Keep

\* What waited is about to be delivered.
LEMMA ClearedLedger ==
  ASSUME NEW b \in BusStates, NEW d, NEW p \in Prompts, NEW t \in Nat,
         d.deliveries = b.deliveries, d.verify = b.verify, d.hold = b.hold, d.spent = b.spent,
         d.held \in {b.held, <<>>}, d.carried = <<>>
  PROVE  /\ Contains(b.carried, p) \/ (d.held = <<>> /\ Contains(b.held, p)) =>
              ~Quiet(b, p, 0) /\ (Ledger(b, p, t, 0) => Free(d, p, t, 0))
         /\ ~Contains(b.carried, p) /\ (d.held = <<>> => ~Contains(b.held, p)) => Keep(b, d, p, t, 0)
<1>1. Mine(d, p, 0) = Mine(b, p, 0) /\ (Verifying(d, p) <=> Verifying(b, p))
  BY Zenon DEF Mine, Verifying
<1>2. ~Contains(<<>>, p) /\ Once(<<>>, p)
  BY DEF Contains, Once
<1>3. ~Contains(d.carried, p) /\ Once(d.carried, p) /\ (Contains(d.held, p) => Contains(b.held, p))
  BY <1>2
<1>4. Waits(d, p) => Contains(d.held, p) /\ Contains(b.held, p) /\ Waits(b, p)
  BY <1>3 DEF Waits
<1>5. ASSUME Contains(b.carried, p) \/ (d.held = <<>> /\ Contains(b.held, p))
      PROVE  ~Quiet(b, p, 0) /\ (Ledger(b, p, t, 0) => Free(d, p, t, 0))
  <2>1. Waits(b, p)
    BY <1>5 DEF Waits
  <2>2. ASSUME Ledger(b, p, t, 0) PROVE Free(d, p, t, 0)
    <3>1. Place(b, p, 0) /\ Cost(b, p, t, 0)
      BY <2>2 DEF Ledger
    <3>2. Mine(b, p, 0) = {} /\ b.hold[p] = None /\ ~Verifying(b, p) /\ t <= 1 /\ (p \notin b.spent => t = 0)
          /\ ~(Contains(b.held, p) /\ Contains(b.carried, p))
      BY <2>1, <3>1 DEF Place, Cost
    <3>3. ~Waits(d, p)
      BY <1>2, <1>4, <1>5, <3>2
    <3> QED
      BY <1>1, <3>2, <3>3 DEF Free, Quiet
  <2> QED
    BY <2>1, <2>2 DEF Quiet
<1>6. ASSUME ~Contains(b.carried, p), d.held = <<>> => ~Contains(b.held, p) PROVE Keep(b, d, p, t, 0)
  <2>1. (Waits(d, p) <=> Waits(b, p)) /\ (Contains(d.held, p) <=> Contains(b.held, p))
    BY <1>2, <1>3, <1>6 DEF Waits
  <2>2. Once(b.held, p) => Once(d.held, p)
    BY <1>2
  <2>3. Place(b, p, 0) => Place(d, p, 0)
    BY <1>1, <1>3, <2>1, <2>2, Zenon DEF Place
  <2>4. Cost(b, p, t, 0) => Cost(d, p, t, 0)
    BY <1>1, <2>1, Zenon DEF Cost
  <2>5. Quiet(b, p, 0) => Quiet(d, p, 0)
    BY <1>1, <2>1, Zenon DEF Quiet
  <2> QED
    BY <2>3, <2>4, <2>5 DEF Keep, Ledger
<1> QED
  BY <1>5, <1>6

LEMMA ReissueLedger ==
  ASSUME NEW b \in BusStates, NEW xs \in Seq(Texts), NEW p \in Prompts, NEW t \in Nat
  PROVE  LET d == Reissue(b, xs)
         IN  /\ ~Contains(xs, p) => Keep(b, d, p, t, 0)
             /\ Contains(xs, p) /\ Once(xs, p) /\ Free(b, p, t, 0) =>
                  Ledger(d, p, t, 0) /\ (~b.init /\ t = 0 => MayArm(d, p, t, 0))
<1> DEFINE u == [b EXCEPT !.redelivered = @ \cup ToSet(xs), !.parked = TRUE]
           d == DeliverAll(u, xs)
<1>1. b.redelivered \cup ToSet(xs) \in SUBSET Texts
  BY DEF BusStates, ToSet
<1>2. u \in BusStates /\ Apart(b, u) /\ u.init = b.init
  BY <1>1, Zenon DEF BusStates, Apart
<1> HIDE DEF u
<1>3. 0 \in Nat /\ 0 <= Len(u.deliveries)
  <2>1. u.deliveries \in Seq(Deliveries)
    BY <1>2, Zenon DEF BusStates
  <2> QED
    BY <2>1
<1>4. Keep(b, u, p, t, 0) /\ (Free(u, p, t, 0) <=> Free(b, p, t, 0))
  BY <1>2, ApartKeep, ApartLedger
<1>5. /\ ~Contains(xs, p) => Keep(u, d, p, t, 0)
      /\ Contains(xs, p) /\ Once(xs, p) /\ Free(u, p, t, 0) =>
           Ledger(d, p, t, 0) /\ (~u.init /\ t = 0 => MayArm(d, p, t, 0))
  BY <1>2, <1>3, DeliverAllLedger
<1>6. Keep(b, b, p, t, 0)
  BY DEF Keep
<1>7. Reissue(b, xs) = IF xs = <<>> THEN b ELSE d
  BY DEF Reissue, u
<1>8. xs = <<>> => ~Contains(xs, p)
  BY DEF Contains
<1> HIDE DEF d
<1>9. ~Contains(xs, p) => Keep(b, d, p, t, 0)
  BY <1>4, <1>5, KeepTrans
<1> QED
  BY <1>2, <1>4, <1>5, <1>6, <1>7, <1>8, <1>9

--------------------------------------------------------------------------------
(* Steps on the side of the turn *)

\* A step on the turn's side: the deliveries, the queue and the readiness stay.
Stays(b, d) == Apart(b, d) /\ d.queue = b.queue /\ d.init = b.init

LEMMA StaysTrans == ASSUME NEW a, NEW b, NEW d, Stays(a, b), Stays(b, d) PROVE Stays(a, d)
BY Zenon DEF Stays, Apart

LEMMA StaysSelf == ASSUME NEW b PROVE Stays(b, b)
BY Zenon DEF Stays, Apart

LEMMA TouchStays == ASSUME NEW b \in BusStates PROVE Stays(b, Touch(b))
BY TouchApart, TouchFrame DEF Stays, Frame

LEMMA ReleaseTurnStays == ASSUME NEW b \in BusStates PROVE Stays(b, ReleaseTurn(b))
<1> DEFINE less == [b EXCEPT !.pending = @ - 1]
           none == [b EXCEPT !.pending = 0, !.op = None, !.overlap = FALSE]
<1>1. Stays(b, less)
  BY Zenon DEF BusStates, Stays, Apart
<1>2. none \in BusStates /\ Stays(b, none)
  <2>1. None \in PromptOrNone
    BY DEF PromptOrNone
  <2> QED
    BY <2>1, ZenonT(30) DEF BusStates, Stays, Apart
<1> HIDE DEF less, none
<1>3. Stays(b, Touch(none))
  BY <1>2, TouchStays, StaysTrans
<1> QED
  BY <1>1, <1>3 DEF ReleaseTurn, less, none

LEMMA OpenTurnStays == ASSUME NEW b \in BusStates PROVE Stays(b, OpenTurn(b))
BY ZenonT(60) DEF BusStates, Stays, Apart, OpenTurn

LEMMA ApplyOriginStays == ASSUME NEW b \in BusStates, NEW p PROVE Stays(b, ApplyOrigin(b, p))
BY ZenonT(60) DEF BusStates, Stays, Apart, ApplyOrigin

LEMMA ApplyPendingOriginStays == ASSUME NEW b \in BusStates PROVE Stays(b, ApplyPendingOrigin(b))
<1> DEFINE c == [b EXCEPT !.pendingOrigin = None]
<1>1. None \in PromptOrNone
  BY DEF PromptOrNone
<1>2. c \in BusStates /\ Stays(b, c)
  BY <1>1, Zenon DEF BusStates, Stays, Apart
<1> HIDE DEF c
<1>3. Stays(b, ApplyOrigin(c, b.pendingOrigin))
  BY <1>2, ApplyOriginStays, StaysTrans
<1> QED
  BY <1>3, StaysSelf DEF ApplyPendingOrigin, c

LEMMA TakeAwaitedLineStays == ASSUME NEW b \in BusStates, NEW x PROVE Stays(b, TakeAwaitedLine(b, x))
<1> DEFINE c == [b EXCEPT !.awaitLine = None]
<1>1. None \in PromptOrNone
  BY DEF PromptOrNone
<1>2. c \in BusStates /\ Stays(b, c)
  BY <1>1, Zenon DEF BusStates, Stays, Apart
<1> HIDE DEF c
<1>3. Stays(b, ApplyPendingOrigin(c))
  BY <1>2, ApplyPendingOriginStays, StaysTrans
<1> QED
  BY <1>3, StaysSelf DEF TakeAwaitedLine, c

LEMMA ScheduleAdmitStays == ASSUME NEW b \in BusStates PROVE Stays(b, ScheduleAdmit(b))
<1> DEFINE c == [b EXCEPT !.settle = TRUE]
<1>1. c \in BusStates /\ Stays(b, c)
  BY Zenon DEF BusStates, Stays, Apart
<1> HIDE DEF c
<1> QED
  BY <1>1, TouchStays, StaysTrans DEF ScheduleAdmit, c

LEMMA DropTurnStays == ASSUME NEW b \in BusStates PROVE Stays(b, DropTurn(b))
BY ZenonT(90) DEF BusStates, Stays, Apart, DropTurn

LEMMA SpawnedStays == ASSUME NEW b \in BusStates, NEW gen PROVE Stays(b, Spawned(b, gen))
BY Zenon DEF BusStates, Stays, Apart, Spawned

LEMMA NewGenerationStays == ASSUME NEW b \in BusStates PROVE Stays(b, NewGeneration(b))
<1> DEFINE parked   == IF b.redelivered = {} THEN FALSE ELSE b.parked
           unparked == [b EXCEPT !.parked = parked, !.awaitLine = None, !.earlyReleased = FALSE,
                                 !.deadlineReleased = FALSE]
           dropped  == [unparked EXCEPT !.pendingOrigin = None]
<1>1. parked \in BOOLEAN /\ None \in PromptOrNone
  BY Zenon DEF BusStates, PromptOrNone
<1> HIDE DEF parked
<1>2. unparked \in BusStates /\ Stays(b, unparked)
  BY <1>1, ZenonT(60) DEF BusStates, Stays, Apart
<1> HIDE DEF unparked
<1>3. Stays(unparked, dropped)
  BY <1>2, Zenon DEF BusStates, Stays, Apart
<1>4. Stays(unparked, ApplyPendingOrigin(unparked))
  BY <1>2, ApplyPendingOriginStays
<1>5. NewGeneration(b) \in {ApplyPendingOrigin(unparked), dropped}
  BY DEF NewGeneration, unparked, parked
<1> HIDE DEF dropped
<1> QED
  BY <1>2, <1>3, <1>4, <1>5, StaysTrans

LEMMA IngestReplyStays ==
  ASSUME NEW b \in BusStates, NEW named, NEW kind
  PROVE  Stays(b, IngestReply(b, named, kind))
<1> DEFINE pub     == Publish(b)
           cleared == [pub EXCEPT !.slot = None, !.slotAmbiguous = FALSE]
<1>1. pub \in BusStates /\ Stays(b, pub)
  BY TouchTyped, TouchStays DEF Publish
<1> HIDE DEF pub
<1>2. None \in PromptOrNone
  BY DEF PromptOrNone
<1>3. cleared \in BusStates /\ Stays(pub, cleared)
  BY <1>1, <1>2, ZenonT(30) DEF BusStates, Stays, Apart
<1> HIDE DEF cleared
<1>4. ASSUME NEW r \in {pub, cleared}, NEW silent, NEW answered
      PROVE  /\ Stays(b, [[r EXCEPT !.replied = TRUE, !.nudged = FALSE, !.stash = None]
                            EXCEPT !.silentClosed = silent])
             /\ Stays(b, [[r EXCEPT !.replied = TRUE, !.nudged = FALSE, !.stash = None]
                            EXCEPT !.silentClosed = None, !.published = TRUE, !.answered = answered])
  <2> DEFINE s == [r EXCEPT !.replied = TRUE, !.nudged = FALSE, !.stash = None]
  <2>1. r \in BusStates /\ Stays(b, r)
    BY <1>1, <1>3, StaysTrans
  <2>2. s \in BusStates /\ Stays(r, s)
    BY <2>1, ZenonT(60) DEF BusStates, Stays, Apart
  <2> HIDE DEF s
  <2>3. /\ Stays(s, [s EXCEPT !.silentClosed = silent])
        /\ Stays(s, [s EXCEPT !.silentClosed = None, !.published = TRUE, !.answered = answered])
    BY <2>2, ZenonT(60) DEF BusStates, Stays, Apart
  <2> QED
    BY <2>1, <2>2, <2>3, StaysTrans DEF s
<1>5. \E r \in {pub, cleared} : \E silent, answered :
        IngestReply(b, named, kind) \in
          {b,
           [[r EXCEPT !.replied = TRUE, !.nudged = FALSE, !.stash = None] EXCEPT !.silentClosed = silent],
           [[r EXCEPT !.replied = TRUE, !.nudged = FALSE, !.stash = None]
              EXCEPT !.silentClosed = None, !.published = TRUE, !.answered = answered]}
  <2> DEFINE namesOther == /\ named # None /\ named \in b.known
                           /\ b.slot # None
                           /\ SlotChat(b) # named
             r == IF namesOther THEN pub ELSE cleared
             s == [r EXCEPT !.replied = TRUE, !.nudged = FALSE, !.stash = None]
             to == Effective(b, named, kind)
             silent == IF b.slot # None THEN SlotChat(b) ELSE s.silentClosed
             answered == IF to # None THEN s.answered \cup {to} ELSE s.answered
  <2>1. r \in {pub, cleared}
    OBVIOUS
  <2>2. IngestReply(b, named, kind) \in
          {b, [s EXCEPT !.silentClosed = silent],
           [s EXCEPT !.silentClosed = None, !.published = TRUE, !.answered = answered]}
    BY DEF IngestReply, pub, cleared
  <2> HIDE DEF silent, answered, r
  <2> QED
    BY <2>1, <2>2
<1> QED
  BY <1>4, <1>5, StaysSelf

\* A step of the bus that admits nobody: the accounts are kept, and the queue.
Leaves(b, d, p, t) == Keep(b, d, p, t, 0) /\ d.queue = b.queue

LEMMA StaysLeaves == ASSUME NEW b, NEW d, Stays(b, d), NEW p, NEW t PROVE Leaves(b, d, p, t)
BY ApartKeep DEF Stays, Leaves

LEMMA LeavesTrans ==
  ASSUME NEW a, NEW b, NEW d, NEW p, NEW t, Leaves(a, b, p, t), Leaves(b, d, p, t)
  PROVE  Leaves(a, d, p, t)
BY KeepTrans DEF Leaves

LEMMA NoDelivery == ASSUME NEW b \in BusStates PROVE 0 \in Nat /\ 0 <= Len(b.deliveries)
<1>1. b.deliveries \in Seq(Deliveries)
  BY Zenon DEF BusStates
<1> QED
  BY <1>1

\* Another text goes to the REPL: the prompts are not concerned.
LEMMA DeliverOtherLedger ==
  ASSUME NEW b \in BusStates, NEW x \in Texts, NEW p \in Prompts, x # p, NEW t \in Nat
  PROVE  Leaves(b, DeliverOrQueue(b, x), p, t)
<1>1. <<x>> \in Seq(Texts) /\ ~Contains(<<x>>, p)
  BY DEF Contains
<1> QED
  BY <1>1, NoDelivery, DeliverAllLedger, DeliverAllFrame DEF DeliverOrQueue, Leaves, Frame

LEMMA AdmitPromptLedger ==
  ASSUME NEW b \in BusStates, NEW q \in Prompts, NEW online, NEW p \in Prompts, NEW t \in Nat
  PROVE  LET d == AdmitPrompt(b, q, online)
         IN  /\ d.queue = b.queue
             /\ p # q => Keep(b, d, p, t, 0)
             /\ p = q /\ Quiet(b, p, 0) /\ t = 0 => Ledger(d, p, t, 0)
<1> DEFINE awaits  == b.earlyReleased \/ b.awaitLine # None
           line    == IF awaits THEN q ELSE None
           lapped  == b.op # None \/ b.deadlineReleased
           taken   == [b EXCEPT !.overlap = lapped,
                                !.deadlineReleased = FALSE,
                                !.earlyReleased = FALSE,
                                !.awaitLine = line,
                                !.op = q,
                                !.pending = @ + 1]
           counted == Publish(taken)
           defers  == [counted EXCEPT !.pendingOrigin = q]
           routed  == IF awaits THEN defers ELSE ApplyOrigin(counted, q)
           started == OpenTurn(routed)
           opened  == [started EXCEPT !.nudged = FALSE, !.stash = None]
           xs      == <<q>>
           posted  == DeliverAll(opened, xs)
           armed   == ArmVerify(posted, {q})
           d       == AdmitPrompt(b, q, online)
<1>1. /\ q \in PromptOrNone /\ line \in PromptOrNone /\ q \in Texts /\ p \in Texts
      /\ xs \in Seq(Texts) /\ (Contains(xs, p) <=> p = q) /\ Once(xs, p)
  BY DEF PromptOrNone, Texts, Contains, Once
<1>2. b.pending + 1 \in Nat /\ lapped \in BOOLEAN
  <2>1. b.pending \in Nat
    BY Zenon DEF BusStates
  <2> QED
    BY <2>1 DEF BusStates
<1> HIDE DEF line, lapped, xs
<1>3. taken \in BusStates /\ Stays(b, taken)
  <2>1. taken \in BusStates
    BY <1>1, <1>2, ZenonT(60) DEF BusStates
  <2>2. Stays(b, taken)
    BY ZenonT(60) DEF BusStates, Stays, Apart
  <2> QED
    BY <2>1, <2>2
<1> HIDE DEF taken
<1>4. counted \in BusStates /\ Stays(b, counted)
  BY <1>3, TouchTyped, TouchStays, StaysTrans DEF Publish
<1> HIDE DEF counted
<1>5. defers \in BusStates /\ Stays(counted, defers)
  BY <1>1, <1>4, Zenon DEF BusStates, Stays, Apart
<1> HIDE DEF defers
<1>6. routed \in BusStates /\ Stays(b, routed)
  BY <1>4, <1>5, ApplyOriginTyped, ApplyOriginStays, StaysTrans
<1> HIDE DEF routed
<1>7. started \in BusStates /\ Stays(b, started)
  BY <1>6, OpenTurnTyped, OpenTurnStays, StaysTrans
<1> HIDE DEF started
<1>8. opened \in BusStates /\ Stays(b, opened)
  <2>1. opened \in BusStates
    BY <1>7, ZenonT(60) DEF BusStates
  <2>2. Stays(started, opened)
    BY <1>7, ZenonT(60) DEF BusStates, Stays, Apart
  <2> QED
    BY <1>7, <2>1, <2>2, StaysTrans
<1> HIDE DEF opened
<1>9. /\ posted \in BusStates /\ Frame(opened, posted) /\ armed \in BusStates /\ Frame(posted, armed)
  BY <1>1, <1>8, DeliverAllTyped, DeliverAllFrame, ArmVerifyTyped, ArmVerifyFrame
<1>10. /\ p # q => Keep(opened, posted, p, t, 0)
       /\ p = q /\ Free(opened, p, t, 0) =>
            Ledger(posted, p, t, 0) /\ (~opened.init /\ t = 0 => MayArm(posted, p, t, 0))
  BY <1>1, <1>8, NoDelivery, DeliverAllLedger
<1>11. /\ p \notin {q} => Keep(posted, armed, p, t, 0)
       /\ MayArm(posted, p, t, 0) /\ Ledger(posted, p, t, 0) => Ledger(armed, p, t, 0)
  BY <1>1, <1>9, ArmVerifyLedger
<1>12. opened.init = b.init /\ opened.queue = b.queue /\ Keep(b, opened, p, t, 0)
  BY <1>8, ApartKeep DEF Stays
<1>13. Quiet(b, p, 0) /\ t = 0 => Free(opened, p, t, 0)
  BY <1>12 DEF Keep, Free
<1>14. (d = armed /\ ~b.init) \/ d = posted
  <2>1. d = IF (~online \/ awaits) /\ ~b.init THEN armed ELSE posted
    BY DEF AdmitPrompt, DeliverOrQueue, armed, posted, xs, opened, started, routed, defers, counted, taken, line, lapped
  <2> QED
    BY <2>1
<1> HIDE DEF armed, posted, d
<1>15. d.queue = b.queue
  BY <1>9, <1>12, <1>14 DEF Frame
<1>16. p # q => Keep(b, posted, p, t, 0) /\ Keep(b, armed, p, t, 0)
  BY <1>10, <1>11, <1>12, KeepTrans
<1> QED
  BY <1>10, <1>11, <1>12, <1>13, <1>14, <1>15, <1>16 DEF d

--------------------------------------------------------------------------------
(* The account of every prompt *)

\* A prompt not sent yet, or in the queue still, has been delivered nowhere.
Waiting(b, p, S) == p \in Queued(b.queue) \/ p \notin S

Account(b, p, t, S) == Ledger(b, p, t, 0) /\ (Waiting(b, p, S) => Quiet(b, p, 0) /\ t = 0)

Lanes(b, S) == OwnLanes(b.queue) /\ Queued(b.queue) \subseteq S

LEMMA QuietLedger ==
  ASSUME NEW b \in BusStates, NEW p, NEW t \in Nat, Quiet(b, p, 0), t = 0
  PROVE  Ledger(b, p, t, 0)
<1>1. b.held \in Seq(Texts) /\ b.carried \in Seq(Texts)
  BY Zenon DEF BusStates
<1>2. Once(b.held, p) /\ Once(b.carried, p)
  BY <1>1, NotContainedOnce DEF Quiet, Waits
<1> QED
  BY <1>2 DEF Ledger, Place, Cost, Quiet, Waits

LEMMA LeavesAccount ==
  ASSUME NEW b, NEW d, NEW p, NEW t, NEW S, Leaves(b, d, p, t)
  PROVE  /\ Account(b, p, t, S) => Account(d, p, t, S)
         /\ Lanes(b, S) => Lanes(d, S)
BY DEF Leaves, Keep, Account, Lanes, Waiting

LEMMA AdmitNextAccount ==
  ASSUME NEW b \in BusStates, Admissible(b), NEW online, NEW p \in Prompts, NEW t \in Nat, NEW S,
         Lanes(b, S), Account(b, p, t, S)
  PROVE  Account(AdmitNext(b, online), p, t, S) /\ Lanes(AdmitNext(b, online), S)
<1> DEFINE q == NextPrompt(b.queue)
           c == ServedChat(b.queue)
           lane == b.queue.lanes[c]
           u == Dequeue(b.queue)
           e == [b EXCEPT !.queue = u]
           d == AdmitPrompt(e, q, online)
<1> SUFFICES ASSUME SlotFree(b), HasQueue(b.queue) PROVE Account(d, p, t, S) /\ Lanes(d, S)
  BY DEF AdmitNext
<1>1. b.queue \in Queues /\ u \in Queues /\ OwnLanes(b.queue) /\ Queued(b.queue) \subseteq S
  <2>1. b.queue \in Queues
    BY Zenon DEF BusStates
  <2> QED
    BY <2>1, DequeueTyped DEF Lanes
<1>2. Servable(b.queue) # {}
  BY <1>1, ServesFront DEF Admissible
<1>3. q \in Prompts /\ c \in Chats /\ lane \in Seq(Prompts) /\ lane # <<>>
  BY <1>1, <1>2, ServedIndexFound
<1>4. u.lanes = [b.queue.lanes EXCEPT ![c] = Tail(lane)]
  BY <1>1, DequeueEffect DEF Admissible
<1>5. Distinct(lane) /\ \A x \in ToSet(lane) : Chat[x] = c
  BY <1>1, <1>3 DEF OwnLanes
<1>6. q = Head(lane)
  BY DEF NextPrompt
<1>7. Tail(lane) \in Seq(Prompts) /\ Distinct(Tail(lane)) /\ ToSet(Tail(lane)) = ToSet(lane) \ {q} /\ q \in ToSet(lane)
  BY <1>3, <1>5, <1>6, TailDistinct
<1>8. ToSet(lane) \subseteq Queued(b.queue)
  BY <1>3 DEF Queued
<1> HIDE DEF q, c, lane, u
<1>9. OwnLanes(u) /\ Queued(u) = {x \in Queued(b.queue) : Chat[x] # c} \cup ToSet(Tail(lane))
  <2> DEFINE left == Tail(lane)
  <2>1. left \in Seq(Prompts) /\ Distinct(left) /\ \A x \in ToSet(left) : Chat[x] = c
    BY <1>5, <1>7
  <2>2. u.lanes = [b.queue.lanes EXCEPT ![c] = left]
    BY <1>4
  <2> HIDE DEF left
  <2>3. OwnLanes(u) /\ Queued(u) = {x \in Queued(b.queue) : Chat[x] # c} \cup ToSet(left)
    BY <1>1, <1>3, <2>1, <2>2, LaneChange
  <2> QED
    BY <2>3 DEF left
<1>10. Queued(u) \subseteq Queued(b.queue) /\ q \notin Queued(u) /\ q \in Queued(b.queue)
  BY <1>5, <1>7, <1>8, <1>9
<1>11. e \in BusStates /\ e.queue = u /\ Apart(b, e)
  BY <1>1, Zenon DEF BusStates, Apart
<1> HIDE DEF e
<1>12. Keep(b, e, p, t, 0)
  BY <1>11, ApartKeep
<1>13. /\ d.queue = u
       /\ p # q => Keep(e, d, p, t, 0)
       /\ p = q /\ Quiet(e, p, 0) /\ t = 0 => Ledger(d, p, t, 0)
  BY <1>3, <1>11, AdmitPromptLedger
<1> HIDE DEF d
<1>14. Lanes(d, S)
  BY <1>1, <1>9, <1>10, <1>13 DEF Lanes
<1>15. CASE p = q
  <2>1. Quiet(b, p, 0) /\ t = 0
    BY <1>10, <1>15 DEF Account, Waiting
  <2>2. Ledger(d, p, t, 0)
    BY <1>12, <1>13, <1>15, <2>1 DEF Keep
  <2>3. ~Waiting(d, p, S)
    BY <1>1, <1>10, <1>13, <1>15 DEF Waiting
  <2> QED
    BY <1>14, <2>2, <2>3 DEF Account
<1>16. CASE p # q
  <2>1. Keep(b, d, p, t, 0)
    BY <1>12, <1>13, <1>16, KeepTrans
  <2>2. Waiting(d, p, S) => Waiting(b, p, S)
    BY <1>10, <1>13 DEF Waiting
  <2> QED
    BY <1>14, <2>1, <2>2 DEF Account, Keep
<1> QED
  BY <1>15, <1>16

\* A prompt sent for the first time is admitted, refused or queued.
LEMMA SendPromptAccount ==
  ASSUME NEW b \in BusStates, Admissible(b), NEW q \in Prompts, NEW online, NEW p \in Prompts,
         NEW t \in Nat, NEW S, q \notin S, Lanes(b, S), Account(b, p, t, S)
  PROVE  LET d == SendPrompt(b, q, online)
             R == IF MustQueue(b) /\ Refuses(b.queue, q) THEN S ELSE S \cup {q}
         IN  Account(d, p, t, R) /\ Lanes(d, R)
<1> DEFINE u == Enqueue(b.queue, q)
           e == [b EXCEPT !.queue = u]
           c == Chat[q]
           lane == b.queue.lanes[c]
           T == S \cup {q}
           a == AdmitPrompt(b, q, online)
<1>1. b.queue \in Queues /\ u \in Queues /\ OwnLanes(b.queue) /\ Queued(b.queue) \subseteq S /\ c \in Chats
  <2>1. b.queue \in Queues
    BY Zenon DEF BusStates
  <2> QED
    BY <2>1, EnqueueTyped, ChatAssumption DEF Lanes
<1>2. q \notin Queued(b.queue)
  BY <1>1
<1>3. /\ Refuses(b.queue, q) => u = b.queue
      /\ ~Refuses(b.queue, q) => u.lanes = [b.queue.lanes EXCEPT ![c] = Append(lane, q)] /\ Matched(u)
  BY <1>1, EnqueueEffect DEF Admissible
<1>4. lane \in Seq(Prompts) /\ ToSet(lane) \subseteq Queued(b.queue) /\ Distinct(lane) /\ \A x \in ToSet(lane) : Chat[x] = c
  BY <1>1 DEF Queues, OwnLanes, Queued
<1> HIDE DEF u, lane
<1>5. e \in BusStates /\ e.queue = u /\ Apart(b, e)
  BY <1>1, Zenon DEF BusStates, Apart
<1> HIDE DEF e
<1>6. Keep(b, e, p, t, 0)
  BY <1>5, ApartKeep
<1>7. ASSUME ~MustQueue(b) PROVE Account(a, p, t, T) /\ Lanes(a, T)
  <2>1. /\ a.queue = b.queue
        /\ p # q => Keep(b, a, p, t, 0)
        /\ p = q /\ Quiet(b, p, 0) /\ t = 0 => Ledger(a, p, t, 0)
    BY AdmitPromptLedger
  <2> HIDE DEF a
  <2>2. Lanes(a, T)
    BY <1>1, <2>1 DEF Lanes
  <2>3. CASE p = q
    <3>1. Quiet(b, p, 0) /\ t = 0
      BY <2>3 DEF Account, Waiting
    <3>2. ~Waiting(a, p, T)
      BY <1>2, <2>1, <2>3 DEF Waiting
    <3> QED
      BY <2>1, <2>2, <2>3, <3>1, <3>2 DEF Account
  <2>4. CASE p # q
    <3>1. Waiting(a, p, T) => Waiting(b, p, S)
      BY <2>1, <2>4 DEF Waiting
    <3> QED
      BY <2>1, <2>2, <2>4, <3>1 DEF Account, Keep
  <2> QED
    BY <2>3, <2>4
<1>8. ASSUME Refuses(b.queue, q) PROVE Account(e, p, t, S) /\ Lanes(e, S)
  BY <1>3, <1>5, <1>6, <1>8, LeavesAccount DEF Leaves
<1>9. ASSUME ~Refuses(b.queue, q) PROVE Account(AdmitNext(e, online), p, t, T) /\ Lanes(AdmitNext(e, online), T)
  <2> DEFINE longer == Append(lane, q)
  <2>1. longer \in Seq(Prompts) /\ Distinct(longer) /\ ToSet(longer) = ToSet(lane) \cup {q}
    BY <1>2, <1>4, AppendDistinct
  <2>2. u.lanes = [b.queue.lanes EXCEPT ![c] = longer]
    BY <1>3, <1>9
  <2> HIDE DEF longer
  <2>3. \A x \in ToSet(longer) : Chat[x] = c
    BY <1>4, <2>1
  <2>4. OwnLanes(u) /\ Queued(u) = {x \in Queued(b.queue) : Chat[x] # c} \cup ToSet(longer)
    BY <1>1, <2>1, <2>2, <2>3, LaneChange
  <2>5. Queued(u) \subseteq Queued(b.queue) \cup {q}
    BY <1>4, <2>1, <2>4
  <2>6. Lanes(e, T)
    BY <1>1, <1>5, <2>4, <2>5 DEF Lanes
  <2>7. Account(e, p, t, T)
    <3>1. Waiting(e, p, T) => Waiting(b, p, S)
      BY <1>5, <2>5 DEF Waiting
    <3> QED
      BY <1>6, <3>1 DEF Account, Keep
  <2>8. Admissible(e)
    BY <1>3, <1>5, <1>9 DEF Admissible
  <2> QED
    BY <1>5, <2>6, <2>7, <2>8, AdmitNextAccount
<1>10. SendPrompt(b, q, online) = IF ~MustQueue(b) THEN a ELSE IF Refuses(b.queue, q) THEN e ELSE AdmitNext(e, online)
  BY DEF SendPrompt, e, u
<1> HIDE DEF a
<1> QED
  BY <1>7, <1>8, <1>9, <1>10

--------------------------------------------------------------------------------
(* The handlers that admit nobody *)

LEMMA NudgeForReplyLeaves ==
  ASSUME NEW b \in BusStates, NEW text \in (SUBSET Prompts) \cup {None}, NEW online \in BOOLEAN,
         NEW p \in Prompts, NEW t \in Nat
  PROVE  Leaves(b, NudgeForReply(b, text, online), p, t)
<1> DEFINE asked == [b EXCEPT !.nudged = TRUE, !.stash = text, !.replied = FALSE, !.published = FALSE,
                              !.answered = {}, !.fallback = online]
<1>1. asked \in BusStates
  BY ZenonT(60) DEF BusStates
<1>2. Stays(b, asked)
  BY ZenonT(60) DEF BusStates, Stays, Apart
<1> HIDE DEF asked
<1>3. Leaves(b, asked, p, t)
  BY <1>2, StaysLeaves
<1>4. Nudge \in Texts /\ Nudge # p
  BY BusAssumption DEF Texts
<1>5. Leaves(b, DeliverOrQueue(asked, Nudge), p, t)
  BY <1>1, <1>3, <1>4, DeliverOtherLedger, LeavesTrans
<1> QED
  BY <1>3, <1>5 DEF NudgeForReply, asked

LEMMA HandleTurnEndLeaves ==
  ASSUME NEW b \in BusStates, NEW text \in (SUBSET Prompts) \cup {None}, NEW inject, NEW online \in BOOLEAN,
         NEW p \in Prompts, NEW t \in Nat
  PROVE  Leaves(b, HandleTurnEnd(b, text, inject, online), p, t)
<1> DEFINE silent == [b EXCEPT !.replied = TRUE]
           spoken == [b EXCEPT !.replied = TRUE, !.nudged = FALSE, !.stash = None]
<1>1. NetText(b, text) \in (SUBSET Prompts) \cup {None}
  <2>1. b.stash \in (SUBSET Prompts) \cup {None}
    BY Zenon DEF BusStates
  <2> QED
    BY <2>1 DEF NetText
<1>2. silent \in BusStates /\ Stays(b, silent)
  BY ZenonT(30) DEF BusStates, Stays, Apart
<1>3. spoken \in BusStates /\ Stays(b, spoken)
  BY ZenonT(60) DEF BusStates, Stays, Apart
<1> HIDE DEF silent, spoken
<1>4. /\ Leaves(b, IngestReply(silent, None, "silent"), p, t)
      /\ Leaves(b, IngestReply(spoken, None, "synthetic"), p, t)
  BY <1>2, <1>3, IngestReplyStays, StaysTrans, StaysLeaves
<1>5. Leaves(b, NudgeForReply(b, NetText(b, text), online), p, t)
  BY <1>1, NudgeForReplyLeaves
<1>6. Leaves(b, b, p, t)
  BY StaysSelf, StaysLeaves
<1>7. NetVerdict(b, text, inject) \in {"nothing", "silent", "nudge", "synthesize"}
  BY Zenon DEF NetVerdict
<1> QED
  BY <1>4, <1>5, <1>6, <1>7 DEF HandleTurnEnd, silent, spoken

LEMMA TurnEndLeaves ==
  ASSUME NEW b \in BusStates, NEW id \in Nat, NEW text \in (SUBSET Prompts) \cup {None},
         NEW inject, NEW online \in BOOLEAN, NEW p \in Prompts, NEW t \in Nat
  PROVE  Leaves(b, TurnEnd(b, id, text, inject, online), p, t)
<1> DEFINE stale    == Stale(b)
           net      == IF stale THEN HandleStaleTurnEnd(b, text, inject)
                                ELSE HandleTurnEnd(b, text, inject, online)
           unparks  == ~stale \/ b.redelivered = {}
           parked   == IF unparks THEN FALSE ELSE net.parked
           again    == IF unparks THEN {} ELSE net.redelivered
           early    == IF stale THEN net.earlyReleased ELSE FALSE
           late     == IF stale THEN net.deadlineReleased ELSE FALSE
           over     == [net EXCEPT !.streaming = FALSE, !.parked = parked, !.redelivered = again,
                                   !.earlyReleased = early, !.deadlineReleased = late, !.lastEnd = id]
           said     == Publish(over)
           released == IF id # b.lastEnd /\ ~stale THEN ReleaseTurn(said) ELSE said
           spoken   == IngestReply(b, None, "synthetic")
<1>1. spoken \in BusStates /\ Stays(b, spoken)
  BY IngestReplyTyped, IngestReplyStays
<1> HIDE DEF spoken
<1>2. OpenTurn(spoken) \in BusStates /\ Stays(b, OpenTurn(spoken))
  BY <1>1, OpenTurnTyped, OpenTurnStays, StaysTrans
<1>3. HandleStaleTurnEnd(b, text, inject) \in BusStates /\ Stays(b, HandleStaleTurnEnd(b, text, inject))
  BY <1>2, StaysSelf DEF HandleStaleTurnEnd, spoken
<1>4. net \in BusStates /\ Leaves(b, net, p, t)
  BY <1>3, StaysLeaves, HandleTurnEndTyped, HandleTurnEndLeaves
<1> HIDE DEF net
<1>5. /\ parked \in BOOLEAN /\ again \in SUBSET Texts
      /\ early \in BOOLEAN /\ late \in BOOLEAN
  BY <1>4, Zenon DEF BusStates
<1> HIDE DEF parked, again, early, late
<1>6. over \in BusStates /\ Stays(net, over)
  <2>1. over \in BusStates
    BY <1>4, <1>5, ZenonT(60) DEF BusStates
  <2>2. Stays(net, over)
    BY <1>4, ZenonT(60) DEF BusStates, Stays, Apart
  <2> QED
    BY <2>1, <2>2
<1> HIDE DEF over
<1>7. said \in BusStates /\ Stays(net, said)
  BY <1>6, PublishTyped, TouchStays, StaysTrans DEF Publish
<1> HIDE DEF said
<1>8. released \in BusStates /\ Stays(net, released)
  BY <1>7, ReleaseTurnTyped, ReleaseTurnStays, StaysTrans
<1> HIDE DEF released
<1>9. Stays(net, Touch(released)) /\ Stays(net, ScheduleAdmit(released))
  BY <1>8, TouchStays, ScheduleAdmitStays, StaysTrans
<1>10. Leaves(b, Touch(released), p, t) /\ Leaves(b, ScheduleAdmit(released), p, t) /\ Leaves(b, b, p, t)
  BY <1>4, <1>9, StaysSelf, StaysLeaves, LeavesTrans
<1> QED
  BY <1>10 DEF TurnEnd, released, said, over, parked, again, early, late, net

LEMMA NoteFlushTurnStartLeaves ==
  ASSUME NEW b \in BusStates, NEW x, NEW p \in Prompts, NEW t \in Nat
  PROVE  Leaves(b, NoteFlushTurnStart(b, x), p, t)
BY NoteFlushTurnStartLedger, NoteFlushTurnStartFrame DEF Leaves, Frame

LEMMA PromptLineLeaves ==
  ASSUME NEW b \in BusStates, NEW x, NEW p \in Prompts, NEW t \in Nat
  PROVE  Leaves(b, PromptLine(b, x), p, t)
<1> DEFINE noted   == NoteFlushTurnStart(b, x)
           fall    == noted.fallback /\ x \notin {Nudge, NudgeNote}
           nudgeIn == [noted EXCEPT !.fallback = fall]
           taken   == TakeAwaitedLine(nudgeIn, x)
           runs    == [taken EXCEPT !.streaming = TRUE]
<1>1. noted \in BusStates /\ Leaves(b, noted, p, t)
  BY NoteFlushTurnStartTyped, NoteFlushTurnStartLeaves
<1> HIDE DEF noted
<1>2. fall \in BOOLEAN
  BY <1>1 DEF BusStates
<1> HIDE DEF fall
<1>3. nudgeIn \in BusStates /\ Stays(noted, nudgeIn)
  BY <1>1, <1>2, Zenon DEF BusStates, Stays, Apart
<1> HIDE DEF nudgeIn
<1>4. taken \in BusStates /\ Stays(noted, taken)
  BY <1>3, TakeAwaitedLineTyped, TakeAwaitedLineStays, StaysTrans
<1> HIDE DEF taken
<1>5. runs \in BusStates /\ Stays(taken, runs)
  BY <1>4, Zenon DEF BusStates, Stays, Apart
<1> HIDE DEF runs
<1>6. OpenTurn(runs) \in BusStates /\ Stays(noted, OpenTurn(runs))
  BY <1>4, <1>5, OpenTurnTyped, OpenTurnStays, StaysTrans
<1>7. Stays(noted, Publish(OpenTurn(runs)))
  BY <1>6, TouchStays, StaysTrans DEF Publish
<1>8. Leaves(b, Publish(OpenTurn(runs)), p, t)
  BY <1>1, <1>7, StaysLeaves, LeavesTrans
<1> QED
  BY <1>8 DEF PromptLine, runs, taken, nudgeIn, fall, noted

LEMMA AbsorbedLineLeaves ==
  ASSUME NEW b \in BusStates, NEW x, NEW p \in Prompts, NEW t \in Nat
  PROVE  Leaves(b, AbsorbedLine(b, x), p, t)
<1> DEFINE fall    == b.fallback /\ x \notin {Nudge, NudgeNote}
           nudgeIn == [b EXCEPT !.fallback = fall]
           taken   == TakeAwaitedLine(nudgeIn, x)
           noted   == NoteFlushTurnStart(taken, x)
           over    == IF WasUnverified(taken, x) THEN ReleaseTurn(noted) ELSE noted
<1>1. fall \in BOOLEAN
  BY DEF BusStates
<1> HIDE DEF fall
<1>2. nudgeIn \in BusStates /\ Stays(b, nudgeIn)
  BY <1>1, Zenon DEF BusStates, Stays, Apart
<1> HIDE DEF nudgeIn
<1>3. taken \in BusStates /\ Stays(b, taken)
  BY <1>2, TakeAwaitedLineTyped, TakeAwaitedLineStays, StaysTrans
<1> HIDE DEF taken
<1>4. noted \in BusStates /\ Leaves(b, noted, p, t)
  BY <1>3, NoteFlushTurnStartTyped, NoteFlushTurnStartLeaves, StaysLeaves, LeavesTrans
<1> HIDE DEF noted
<1>5. over \in BusStates /\ Stays(noted, over)
  BY <1>4, ReleaseTurnTyped, ReleaseTurnStays, StaysSelf
<1> HIDE DEF over
<1>6. Stays(noted, Publish(over))
  BY <1>5, TouchStays, StaysTrans DEF Publish
<1>7. Leaves(b, Publish(over), p, t)
  BY <1>4, <1>6, StaysLeaves, LeavesTrans
<1> QED
  BY <1>7 DEF AbsorbedLine, over, noted, taken, nudgeIn, fall

LEMMA InitLineLeaves ==
  ASSUME NEW b \in BusStates, NEW session, NEW p \in Prompts, NEW t \in Nat
  PROVE  Leaves(b, InitLine(b, session), p, t)
<1> DEFINE c == [b EXCEPT !.init = TRUE]
<1>1. c \in BusStates /\ Apart(b, c) /\ c.queue = b.queue
  BY Zenon DEF BusStates, Apart
<1> HIDE DEF c
<1>2. Leaves(b, c, p, t)
  BY <1>1, ApartKeep DEF Leaves
<1>3. Leaves(b, Publish(c), p, t) /\ Leaves(b, Publish(b), p, t)
  BY <1>1, <1>2, TouchStays, StaysLeaves, LeavesTrans DEF Publish
<1> QED
  BY <1>3 DEF InitLine, c

LEMMA ReleaseHoldLeaves ==
  ASSUME NEW b \in BusStates, NEW xs \in SUBSET HeldTexts(b), NEW p \in Prompts, NEW t \in Nat
  PROVE  Leaves(b, ReleaseHold(b, xs), p, t)
<1>1. p \in Texts
  BY DEF Texts
<1> QED
  BY <1>1, ReleaseHoldLedger, ReleaseHoldFrame DEF Leaves, Frame

LEMMA CompactLineLeaves ==
  ASSUME NEW b \in BusStates, NEW gen, NEW nth, NEW tolerant, NEW p \in Prompts, NEW t \in Nat
  PROVE  Leaves(b, CompactLine(b, gen, nth, tolerant), p, t)
<1> DEFINE xs == HoldsEndedBy(b, gen, nth, tolerant)
           c  == ReleaseHold(b, xs)
<1>1. xs \in SUBSET HeldTexts(b)
  BY DEF HoldsEndedBy
<1> HIDE DEF xs
<1>2. c \in BusStates /\ Leaves(b, c, p, t)
  BY <1>1, ReleaseHoldTyped, ReleaseHoldLeaves
<1> HIDE DEF c
<1>3. Leaves(b, Publish(c), p, t)
  BY <1>2, TouchStays, StaysLeaves, LeavesTrans DEF Publish
<1> QED
  BY <1>3 DEF CompactLine, c, xs

LEMMA NudgeFallbackLeaves ==
  ASSUME NEW b \in BusStates, NEW p \in Prompts, NEW t \in Nat
  PROVE  Leaves(b, NudgeFallback(b), p, t)
<1> DEFINE off == [b EXCEPT !.fallback = FALSE]
<1>1. off \in BusStates /\ Stays(b, off)
  BY Zenon DEF BusStates, Stays, Apart
<1> HIDE DEF off
<1>2. Nudge \in Texts /\ Nudge # p
  BY BusAssumption DEF Texts
<1>3. Leaves(b, off, p, t) /\ Leaves(b, b, p, t)
  BY <1>1, StaysSelf, StaysLeaves
<1>4. Leaves(b, DeliverOrQueue(off, Nudge), p, t)
  BY <1>1, <1>2, <1>3, DeliverOtherLedger, LeavesTrans
<1> QED
  BY <1>3, <1>4 DEF NudgeFallback, off

--------------------------------------------------------------------------------
(* The handlers that admit *)

LEMMA ReissueQueue ==
  ASSUME NEW b \in BusStates, NEW xs \in Seq(Texts)
  PROVE  Reissue(b, xs).queue = b.queue
<1> DEFINE u == [b EXCEPT !.redelivered = @ \cup ToSet(xs), !.parked = TRUE]
<1>1. b.redelivered \cup ToSet(xs) \in SUBSET Texts
  BY DEF BusStates, ToSet
<1>2. u \in BusStates /\ u.queue = b.queue
  BY <1>1, Zenon DEF BusStates
<1> HIDE DEF u
<1>3. DeliverAll(u, xs).queue = b.queue
  BY <1>2, DeliverAllFrame DEF Frame
<1> QED
  BY <1>3 DEF Reissue, u

LEMMA OnHelloLeaves ==
  ASSUME NEW b \in BusStates, NEW p \in Prompts, NEW t \in Nat
  PROVE  Leaves(b, OnHello(b), p, t)
<1> DEFINE greeted == [b EXCEPT !.hello = TRUE]
           emptied == [b EXCEPT !.hello = TRUE, !.carried = <<>>]
           d       == Reissue(emptied, b.carried)
<1>1. b.carried \in Seq(Texts)
  BY Zenon DEF BusStates
<1>2. Stays(b, greeted)
  BY Zenon DEF BusStates, Stays, Apart
<1>3. emptied \in BusStates
  <2>1. <<>> \in Seq(Texts)
    OBVIOUS
  <2> QED
    BY <2>1, Zenon DEF BusStates
<1>4. /\ emptied.deliveries = b.deliveries /\ emptied.verify = b.verify /\ emptied.hold = b.hold
      /\ emptied.spent = b.spent /\ emptied.held = b.held /\ emptied.carried = <<>>
      /\ emptied.queue = b.queue
  BY ZenonT(30) DEF BusStates
<1> HIDE DEF greeted, emptied
<1>5. /\ Contains(b.carried, p) \/ (emptied.held = <<>> /\ Contains(b.held, p)) =>
           ~Quiet(b, p, 0) /\ (Ledger(b, p, t, 0) => Free(emptied, p, t, 0))
      /\ ~Contains(b.carried, p) /\ (emptied.held = <<>> => ~Contains(b.held, p)) => Keep(b, emptied, p, t, 0)
  BY <1>4, ClearedLedger
<1>6. /\ ~Contains(b.carried, p) => Keep(emptied, d, p, t, 0)
      /\ Contains(b.carried, p) /\ Once(b.carried, p) /\ Free(emptied, p, t, 0) => Ledger(d, p, t, 0)
  BY <1>1, <1>3, ReissueLedger
<1>7. d.queue = b.queue
  BY <1>1, <1>3, <1>4, ReissueQueue
<1> HIDE DEF d
<1>8. Keep(b, d, p, t, 0)
  <2>1. CASE Contains(b.carried, p)
    <3>1. Ledger(b, p, t, 0) => Once(b.carried, p)
      BY DEF Ledger, Place
    <3> QED
      BY <1>5, <1>6, <2>1, <3>1 DEF Keep
  <2>2. CASE ~Contains(b.carried, p)
    <3>1. Contains(<<>>, p) = FALSE
      BY DEF Contains
    <3>2. emptied.held = <<>> => ~Contains(b.held, p)
      BY <1>4, <3>1
    <3> QED
      BY <1>5, <1>6, <2>2, <3>2, KeepTrans
  <2> QED
    BY <2>1, <2>2
<1>9. Leaves(b, d, p, t) /\ Leaves(b, greeted, p, t)
  BY <1>2, <1>7, <1>8, StaysLeaves DEF Leaves
<1> QED
  BY <1>9 DEF OnHello, d, greeted, emptied

\* A readiness marker delivers what waited.  The verify the backstop arms for a
\* text it held is sound for one that was never re-delivered.
LEMMA ReadiedAccount ==
  ASSUME NEW b \in BusStates, Gate(b), NEW newGen, NEW viaBackstop \in BOOLEAN, NEW online,
         NEW p \in Prompts, NEW t \in Nat, NEW S, Lanes(b, S), Account(b, p, t, S),
         viaBackstop /\ Contains(b.held, p) => p \notin b.spent \/ t = 0
  PROVE  LET d == Readied(b, newGen, viaBackstop, online)
         IN  Account(d, p, t, S) /\ Lanes(d, S)
<1> DEFINE idle     == [b EXCEPT !.init = FALSE, !.streaming = FALSE]
           older    == {x \in HeldTexts(idle) : idle.hold[x].gen # newGen}
           let      == ReleaseHold(idle, older)
           unheld   == IF newGen # 0 THEN let ELSE idle
           again    == unheld.carried \o unheld.held
           emptied  == [unheld EXCEPT !.carried = <<>>, !.held = <<>>]
           out      == Reissue(emptied, again)
           armed    == ArmVerify(out, ToSet(unheld.held))
           verified == IF viaBackstop /\ unheld.held # <<>> THEN armed ELSE out
           latest   == IF newGen # 0 THEN NewGeneration(verified) ELSE verified
           renewed  == Touch(latest)
<1>1. /\ idle \in BusStates /\ Apart(b, idle) /\ idle.queue = b.queue /\ idle.init = FALSE
      /\ idle.op = b.op /\ idle.pending = b.pending /\ idle.awaitLine = b.awaitLine
      /\ idle.pendingOrigin = b.pendingOrigin
  <2>1. idle \in BusStates
    BY Zenon DEF BusStates
  <2>2. Apart(b, idle) /\ idle.queue = b.queue /\ idle.init = FALSE
    BY ZenonT(60) DEF BusStates, Apart
  <2>3. /\ idle.op = b.op /\ idle.pending = b.pending /\ idle.awaitLine = b.awaitLine
        /\ idle.pendingOrigin = b.pendingOrigin
    BY ZenonT(60) DEF BusStates
  <2> QED
    BY <2>1, <2>2, <2>3
<1>2. older \in SUBSET HeldTexts(idle) /\ p \in Texts
  BY DEF Texts
<1> HIDE DEF idle, older
<1>3. Keep(b, idle, p, t, 0)
  BY <1>1, ApartKeep
<1>4. /\ let \in BusStates /\ Keep(idle, let, p, t, 0) /\ let.queue = idle.queue
      /\ let.init = idle.init /\ let.held = idle.held /\ let.spent = idle.spent
  BY <1>1, <1>2, ReleaseHoldLedger, ReleaseHoldTyped, ReleaseHoldFrame DEF Frame
<1> HIDE DEF let
<1>5. /\ unheld \in BusStates /\ Keep(b, unheld, p, t, 0) /\ unheld.queue = b.queue /\ unheld.init = FALSE
      /\ unheld.held = b.held /\ unheld.spent = b.spent
  <2>1. idle.held = b.held /\ idle.spent = b.spent
    BY <1>1 DEF Apart
  <2> QED
    BY <1>1, <1>3, <1>4, <2>1, KeepTrans
<1> HIDE DEF unheld
<1>6. <<>> \in Seq(Texts) /\ unheld.carried \in Seq(Texts) /\ unheld.held \in Seq(Texts)
  BY <1>5 DEF BusStates
<1>7. again \in Seq(Texts)
  BY <1>6
<1>8. /\ Contains(again, p) <=> Contains(unheld.carried, p) \/ Contains(unheld.held, p)
      /\ Once(unheld.carried, p) /\ Once(unheld.held, p)
         /\ ~(Contains(unheld.carried, p) /\ Contains(unheld.held, p)) => Once(again, p)
  BY <1>6, ConcatOnce
<1> HIDE DEF again
<1>9. emptied \in BusStates
  BY <1>5, <1>6, ZenonT(30) DEF BusStates
<1>10. /\ emptied.deliveries = unheld.deliveries /\ emptied.verify = unheld.verify
       /\ emptied.hold = unheld.hold /\ emptied.spent = unheld.spent /\ emptied.held = <<>>
       /\ emptied.carried = <<>> /\ emptied.queue = unheld.queue /\ emptied.init = unheld.init
  BY <1>5, ZenonT(60) DEF BusStates
<1> HIDE DEF emptied
<1>11. /\ Contains(again, p) => ~Quiet(unheld, p, 0) /\ (Ledger(unheld, p, t, 0) => Free(emptied, p, t, 0))
       /\ ~Contains(again, p) => Keep(unheld, emptied, p, t, 0)
  <2>1. /\ Contains(unheld.carried, p) \/ (emptied.held = <<>> /\ Contains(unheld.held, p)) =>
             ~Quiet(unheld, p, 0) /\ (Ledger(unheld, p, t, 0) => Free(emptied, p, t, 0))
        /\ ~Contains(unheld.carried, p) /\ (emptied.held = <<>> => ~Contains(unheld.held, p)) =>
             Keep(unheld, emptied, p, t, 0)
    BY <1>5, <1>10, ClearedLedger
  <2> QED
    BY <1>8, <1>10, <2>1
<1>12. /\ out \in BusStates /\ out.queue = emptied.queue
       /\ ~Contains(again, p) => Keep(emptied, out, p, t, 0)
       /\ Contains(again, p) /\ Once(again, p) /\ Free(emptied, p, t, 0) =>
            Ledger(out, p, t, 0) /\ (~emptied.init /\ t = 0 => MayArm(out, p, t, 0))
  BY <1>7, <1>9, ReissueTyped, ReissueQueue, ReissueLedger
<1> HIDE DEF out
<1>13. armed \in BusStates /\ armed.queue = out.queue
  BY <1>12, ArmVerifyTyped, ArmVerifyFrame DEF Frame
<1>14. /\ p \notin ToSet(unheld.held) => Keep(out, armed, p, t, 0)
       /\ MayArm(out, p, t, 0) /\ Ledger(out, p, t, 0) => Ledger(armed, p, t, 0)
  BY <1>2, <1>12, ArmVerifyLedger
<1> HIDE DEF armed
<1>15. p \in ToSet(unheld.held) <=> Contains(unheld.held, p)
  BY <1>6 DEF ToSet, Contains
<1>16. Keep(unheld, out, p, t, 0) /\ (viaBackstop => Keep(b, armed, p, t, 0))
  <2>1. CASE Contains(again, p)
    <3>1. ASSUME Ledger(unheld, p, t, 0)
          PROVE  Ledger(out, p, t, 0) /\ (t = 0 => MayArm(out, p, t, 0)) /\ (p \notin unheld.spent => t = 0)
      <4>1. Once(again, p)
        BY <1>8, <3>1 DEF Ledger, Place
      <4>2. Free(emptied, p, t, 0)
        BY <1>11, <2>1, <3>1
      <4> QED
        BY <1>5, <1>10, <1>12, <2>1, <4>1, <4>2 DEF Free
    <3>2. ~Quiet(unheld, p, 0)
      BY <1>11, <2>1
    <3>3. ASSUME viaBackstop, Ledger(unheld, p, t, 0) PROVE Ledger(armed, p, t, 0)
      BY <1>5, <1>14, <1>15, <3>1, <3>3 DEF Keep
    <3> QED
      BY <1>5, <3>1, <3>2, <3>3 DEF Keep
  <2>2. CASE ~Contains(again, p)
    <3>1. Keep(unheld, out, p, t, 0)
      BY <1>11, <1>12, <2>2, KeepTrans
    <3>2. Keep(out, armed, p, t, 0)
      BY <1>8, <1>14, <1>15, <2>2
    <3> QED
      BY <1>5, <3>1, <3>2, KeepTrans
  <2> QED
    BY <2>1, <2>2
<1>17. verified \in BusStates /\ Leaves(b, verified, p, t)
  BY <1>5, <1>10, <1>12, <1>13, <1>16, KeepTrans DEF Leaves
<1> HIDE DEF verified
<1>18. latest \in BusStates /\ Stays(verified, latest)
  BY <1>17, NewGenerationTyped, NewGenerationStays, StaysSelf
<1> HIDE DEF latest
<1>19. renewed \in BusStates /\ Stays(verified, renewed)
  BY <1>18, TouchTyped, TouchStays, StaysTrans
<1> HIDE DEF renewed
<1>20. Leaves(b, renewed, p, t)
  BY <1>17, <1>19, StaysLeaves, LeavesTrans
<1>21. Account(renewed, p, t, S) /\ Lanes(renewed, S) /\ Admissible(renewed)
  BY <1>20, LeavesAccount DEF Gate, Parts, Admissible, Leaves
<1>22. Account(AdmitNext(renewed, online), p, t, S) /\ Lanes(AdmitNext(renewed, online), S)
  BY <1>19, <1>21, AdmitNextAccount
<1> DEFINE d == Readied(b, newGen, viaBackstop, online)
<1>23. d = IF again = <<>> THEN AdmitNext(renewed, online) ELSE renewed
  BY DEF Readied, renewed, latest, verified, armed, out, emptied, again, unheld, let, older, idle
<1> HIDE DEF d
<1> QED
  BY <1>21, <1>22, <1>23 DEF d

\* What every handler owes the account of p.
Accounts(b, p, t, S) == Account(b, p, t, S) /\ Lanes(b, S)

\* A step that leaves the accounts, with the admission that may follow it.
LEMMA LeavesAdmits ==
  ASSUME NEW b, Gate(b), NEW d \in BusStates, NEW p \in Prompts, NEW t \in Nat, Leaves(b, d, p, t),
         NEW S, Accounts(b, p, t, S), NEW online
  PROVE  Accounts(d, p, t, S) /\ Accounts(AdmitNext(d, online), p, t, S)
<1>1. Accounts(d, p, t, S)
  BY LeavesAccount DEF Accounts
<1>2. Admissible(d)
  BY DEF Gate, Parts, Admissible, Leaves
<1>3. Accounts(AdmitNext(d, online), p, t, S)
  BY <1>1, <1>2, AdmitNextAccount DEF Accounts
<1> QED
  BY <1>1, <1>3

LEMMA PublishLeaves ==
  ASSUME NEW b \in BusStates, NEW p, NEW t
  PROVE  Leaves(b, Publish(b), p, t)
BY TouchStays, StaysLeaves DEF Publish

LEMMA ReplayDoneAccount ==
  ASSUME NEW b \in BusStates, Gate(b), NEW gen \in Nat, NEW session \in Nat, NEW online,
         NEW p \in Prompts, NEW t \in Nat, NEW S, Accounts(b, p, t, S)
  PROVE  Accounts(ReplayDone(b, gen, session, online), p, t, S)
<1> DEFINE marked == [b EXCEPT !.liveGen = gen, !.liveSession = session, !.ready = TRUE]
           newGen == IF b.liveGen # 0 /\ gen > b.liveGen THEN gen ELSE 0
           r      == Readied(marked, newGen, FALSE, online)
<1>1. marked \in BusStates /\ Frame(b, marked) /\ Stays(b, marked)
  <2>1. marked \in BusStates /\ Frame(b, marked)
    BY ZenonT(30) DEF BusStates, Frame
  <2>2. Stays(b, marked)
    BY ZenonT(60) DEF BusStates, Stays, Apart
  <2> QED
    BY <2>1, <2>2
<1> HIDE DEF marked, newGen
<1>2. Gate(marked) /\ Accounts(marked, p, t, S)
  BY <1>1, FrameKeeps, StaysLeaves, LeavesAccount DEF Accounts
<1>3. r \in BusStates
  BY <1>1, <1>2, ReadiedGate
<1>4. Accounts(r, p, t, S)
  BY <1>1, <1>2, ReadiedAccount DEF Accounts
<1> HIDE DEF r
<1>5. Accounts(Publish(r), p, t, S) /\ Accounts(Publish(b), p, t, S)
  BY <1>3, <1>4, PublishLeaves, LeavesAccount DEF Accounts
<1> QED
  BY <1>5 DEF ReplayDone, r, newGen, marked

LEMMA InitBackstopAccount ==
  ASSUME NEW b \in BusStates, Gate(b), NEW online,
         NEW p \in Prompts, NEW t \in Nat, NEW S, Accounts(b, p, t, S),
         Contains(b.held, p) => p \notin b.spent \/ t = 0
  PROVE  Accounts(InitBackstop(b, online), p, t, S)
<1>1. Accounts(Readied(b, 0, TRUE, online), p, t, S)
  BY ReadiedAccount DEF Accounts
<1> QED
  BY <1>1 DEF InitBackstop

LEMMA CloseDeliveriesLeaves ==
  ASSUME NEW b \in BusStates, NEW p \in Prompts, NEW t \in Nat
  PROVE  Leaves(b, CloseDeliveries(b), p, t)
BY CloseDeliveriesLedger, CloseDeliveriesFrame DEF Leaves, Frame

LEMMA OnCloseAccount ==
  ASSUME NEW b \in BusStates, Gate(b),
         NEW p \in Prompts, NEW t \in Nat, NEW S, Accounts(b, p, t, S)
  PROVE  Accounts(OnClose(b), p, t, S)
<1> DEFINE live    == b.streaming \/ b.op # None
           over    == DropTurn(b)
           closed  == CloseDeliveries(over)
           parked  == IF live THEN TRUE ELSE closed.parked
           dropped == [closed EXCEPT !.deadlineReleased = FALSE, !.streaming = FALSE,
                                     !.parked = parked, !.redelivered = {}]
           last    == Touch(dropped)
<1>1. over \in BusStates /\ Leaves(b, over, p, t)
  BY DropTurnTyped, DropTurnStays, StaysLeaves
<1> HIDE DEF over, live
<1>2. closed \in BusStates /\ Leaves(b, closed, p, t)
  BY <1>1, CloseDeliveriesTyped, CloseDeliveriesLeaves, LeavesTrans
<1> HIDE DEF closed
<1>3. parked \in BOOLEAN
  BY <1>2, Zenon DEF BusStates
<1> HIDE DEF parked
<1>4. dropped \in BusStates
  BY <1>2, <1>3, ZenonT(60) DEF BusStates
<1>5. Stays(closed, dropped)
  BY <1>2, ZenonT(120) DEF BusStates, Stays, Apart
<1> HIDE DEF dropped
<1>6. last \in BusStates /\ Leaves(b, last, p, t)
  BY <1>2, <1>4, <1>5, TouchTyped, TouchStays, StaysTrans, StaysLeaves, LeavesTrans
<1> HIDE DEF last
<1>7. Accounts(last, p, t, S) /\ Accounts(AdmitNext(last, FALSE), p, t, S)
  BY <1>6, LeavesAdmits
<1> QED
  BY <1>7 DEF OnClose, last, dropped, parked, closed, over, live

LEMMA AbandonAccount ==
  ASSUME NEW b \in BusStates, Gate(b), NEW online,
         NEW p \in Prompts, NEW t \in Nat, NEW S, Accounts(b, p, t, S)
  PROVE  Accounts(Abandon(b, online), p, t, S)
<1> DEFINE said    == Publish(b)
           over    == DropTurn(said)
           dropped == [over EXCEPT !.streaming = FALSE, !.parked = FALSE, !.redelivered = {},
                                   !.earlyReleased = TRUE]
           last    == Touch(dropped)
<1>1. said \in BusStates /\ Stays(b, said)
  BY PublishTyped, TouchStays DEF Publish
<1> HIDE DEF said
<1>2. over \in BusStates /\ Stays(b, over)
  BY <1>1, DropTurnTyped, DropTurnStays, StaysTrans
<1> HIDE DEF over
<1>3. dropped \in BusStates
  BY <1>2, ZenonT(60) DEF BusStates
<1>4. Stays(over, dropped)
  BY <1>2, ZenonT(120) DEF BusStates, Stays, Apart
<1> HIDE DEF dropped
<1>5. last \in BusStates /\ Leaves(b, last, p, t)
  BY <1>2, <1>3, <1>4, TouchTyped, TouchStays, StaysTrans, StaysLeaves
<1> HIDE DEF last
<1>6. Accounts(AdmitNext(last, online), p, t, S)
  BY <1>5, LeavesAdmits
<1> QED
  BY <1>6 DEF Abandon, last, dropped, over, said

LEMMA TurnDeadlineAccount ==
  ASSUME NEW b \in BusStates, Gate(b), NEW online,
         NEW p \in Prompts, NEW t \in Nat, NEW S, Accounts(b, p, t, S)
  PROVE  Accounts(TurnDeadline(b, online), p, t, S)
<1> DEFINE fired    == [b EXCEPT !.deadline = FALSE]
           released == [fired EXCEPT !.op = None, !.overlap = FALSE, !.pending = 0,
                                     !.nudged = FALSE, !.stash = None,
                                     !.streaming = FALSE, !.parked = FALSE, !.redelivered = {},
                                     !.awaitLine = None, !.pendingOrigin = None,
                                     !.settle = FALSE,
                                     !.deadlineReleased = TRUE, !.earlyReleased = TRUE]
<1>1. fired \in BusStates /\ Stays(b, fired)
  BY ZenonT(60) DEF BusStates, Stays, Apart
<1> HIDE DEF fired
<1>2. None \in PromptOrNone
  BY DEF PromptOrNone
<1>3. released \in BusStates
  BY <1>1, <1>2, ZenonT(120) DEF BusStates
<1>4. Stays(fired, released)
  BY <1>1, ZenonT(240) DEF BusStates, Stays, Apart
<1> HIDE DEF released
<1>5. Leaves(b, fired, p, t) /\ Leaves(b, released, p, t)
  BY <1>1, <1>4, StaysTrans, StaysLeaves
<1>6. Accounts(fired, p, t, S) /\ Accounts(AdmitNext(released, online), p, t, S)
  BY <1>1, <1>3, <1>5, LeavesAdmits
<1> QED
  BY <1>6 DEF TurnDeadline, released, fired

LEMMA SettledAccount ==
  ASSUME NEW b \in BusStates, Gate(b), NEW online,
         NEW p \in Prompts, NEW t \in Nat, NEW S, Accounts(b, p, t, S)
  PROVE  Accounts(Settled(b, online), p, t, S)
<1> DEFINE over == [b EXCEPT !.settle = FALSE]
           last == Touch(over)
<1>1. over \in BusStates /\ Stays(b, over)
  BY ZenonT(60) DEF BusStates, Stays, Apart
<1> HIDE DEF over
<1>2. last \in BusStates /\ Leaves(b, last, p, t)
  BY <1>1, TouchTyped, TouchStays, StaysTrans, StaysLeaves
<1> HIDE DEF last
<1>3. Accounts(AdmitNext(last, online), p, t, S)
  BY <1>2, LeavesAdmits
<1> QED
  BY <1>3 DEF Settled, last, over

LEMMA VerdictLeaves ==
  ASSUME NEW b \in BusStates, NEW i \in DOMAIN b.deliveries, NEW outcome, NEW since \in Nat,
         NEW p \in Prompts, NEW t \in Nat
  PROVE  Leaves(b, Verdict(b, i, outcome, since), p, t)
BY VerdictLedger, VerdictFrame DEF Leaves, Frame

LEMMA VerifyTimerLeaves ==
  ASSUME NEW b \in BusStates, NEW x \in Texts, b.verify[x] \in {"armed", "graced"},
         NEW p \in Prompts, NEW t \in Nat
  PROVE  Leaves(b, VerifyTimer(b, x), p, t)
BY VerifyTimerLedger, VerifyTimerFrame DEF Leaves, Frame

\* Nothing has been sent to an agent that has just started.
LEMMA StartedAccount ==
  ASSUME NEW p \in Prompts, NEW S
  PROVE  Accounts(OnHello(ReplayDone(Spawned(FreshBus, 1), 1, 1, FALSE)), p, 0, S)
<1> DEFINE s == Spawned(FreshBus, 1)
           r == ReplayDone(s, 1, 1, FALSE)
<1>1. /\ FreshBus.queue = EmptyQueue /\ FreshBus.deliveries = <<>> /\ FreshBus.held = <<>>
      /\ FreshBus.carried = <<>> /\ FreshBus.hold[p] = None /\ FreshBus.verify[p] = "none"
  BY DEF FreshBus, Texts
<1>2. Quiet(FreshBus, p, 0)
  BY <1>1 DEF Quiet, Mine, Waits, Verifying, Contains
<1>3. Ledger(FreshBus, p, 0, 0)
  BY <1>2, FreshTyped, QuietLedger
<1>4. OwnLanes(EmptyQueue) /\ Queued(EmptyQueue) = {}
  BY DEF EmptyQueue, OwnLanes, Queued, Distinct, ToSet
<1>5. Accounts(FreshBus, p, 0, S)
  BY <1>1, <1>2, <1>3, <1>4 DEF Accounts, Account, Lanes
<1>6. FreshBus \in BusStates /\ Gate(FreshBus)
  <2>1. FreshBus.op = None /\ FreshBus.pending = 0
        /\ FreshBus.streaming = FALSE /\ FreshBus.nudged = FALSE /\ FreshBus.parked = FALSE
        /\ FreshBus.settle = FALSE /\ FreshBus.pendingOrigin = None
    BY DEF FreshBus
  <2> QED
    BY <1>1, <2>1, FreshTyped, EmptyQueueMatched DEF Gate, Parts, Admissible, Counted, Deferred, Timed, SlotFree
<1>7. s \in BusStates /\ Gate(s) /\ Accounts(s, p, 0, S)
  BY <1>5, <1>6, SpawnedTyped, SpawnedGate, SpawnedStays, StaysLeaves, LeavesAccount DEF Accounts
<1> HIDE DEF s
<1>8. r \in BusStates /\ Gate(r) /\ Accounts(r, p, 0, S)
  BY <1>7, ReplayDoneGate, ReplayDoneAccount
<1> HIDE DEF r
<1> QED
  BY <1>8, OnHelloLeaves, LeavesAccount DEF Accounts, r, s

--------------------------------------------------------------------------------
(* The actions of BusCore *)

\* A keystroke counts for the prompt it types.
LEMMA TypedAccount ==
  ASSUME NEW b \in BusStates, NEW i \in DOMAIN b.deliveries, ~b.deliveries[i].typed,
         NEW p \in Prompts, NEW t \in Nat, NEW S, Accounts(b, p, t, S)
  PROVE  LET d == [b EXCEPT !.deliveries[i].typed = TRUE]
         IN  /\ b.deliveries[i].text = p => Accounts(d, p, t + 1, S)
             /\ b.deliveries[i].text # p => Accounts(d, p, t, S)
             /\ t = 0 => Accounts(d, p, 0, S)
<1> DEFINE ds == b.deliveries
           es == [ds EXCEPT ![i].typed = TRUE]
           d  == [b EXCEPT !.deliveries[i].typed = TRUE]
<1>1. ds \in Seq(Deliveries)
  BY Zenon DEF BusStates
<1>2. d.deliveries = es /\ d.held = b.held /\ d.carried = b.carried /\ d.verify = b.verify
      /\ d.hold = b.hold /\ d.spent = b.spent /\ d.queue = b.queue
  BY Zenon DEF BusStates
<1>3. DOMAIN ds = 1 .. Len(ds) /\ Len(ds) \in Nat
  <2> HIDE DEF ds
  <2> QED
    BY <1>1
<1>4. /\ DOMAIN es = DOMAIN ds
      /\ \A j \in DOMAIN ds : /\ es[j].text = ds[j].text /\ es[j].owns = ds[j].owns
                              /\ es[j].current = ds[j].current /\ es[j].proven = ds[j].proven
                              /\ j # i => es[j].typed = ds[j].typed
      /\ es[i].typed = TRUE
  <2>1. \A j \in DOMAIN ds : ds[j] \in Deliveries
    <3> HIDE DEF ds
    <3> QED
      BY <1>1
  <2>2. DOMAIN es = DOMAIN ds /\ \A j \in DOMAIN ds : es[j] = IF j = i THEN [ds[j] EXCEPT !.typed = TRUE] ELSE ds[j]
    OBVIOUS
  <2> HIDE DEF ds, es
  <2>3. \A e \in Deliveries : LET u == [e EXCEPT !.typed = TRUE]
                              IN  u.text = e.text /\ u.owns = e.owns /\ u.current = e.current
                                  /\ u.proven = e.proven /\ u.typed = TRUE
    BY Zenon DEF Deliveries
  <2>4. ASSUME NEW j \in DOMAIN ds
        PROVE  /\ es[j].text = ds[j].text /\ es[j].owns = ds[j].owns
               /\ es[j].current = ds[j].current /\ es[j].proven = ds[j].proven
               /\ j # i => es[j].typed = ds[j].typed
               /\ j = i => es[j].typed = TRUE
    BY <2>1, <2>2, <2>3
  <2> QED
    BY <2>2, <2>4 DEF ds
<1> HIDE DEF es, d
<1>5. /\ Mine(d, p, 0) = Mine(b, p, 0) /\ (Waits(d, p) <=> Waits(b, p))
      /\ (Verifying(d, p) <=> Verifying(b, p)) /\ (Quiet(d, p, 0) <=> Quiet(b, p, 0))
  BY <1>2, <1>4 DEF Mine, Waits, Verifying, Quiet
<1>6. Place(d, p, 0)
  BY <1>2, <1>4, <1>5 DEF Accounts, Account, Ledger, Place, Mine
<1>7. Lanes(d, S) /\ (Waiting(d, p, S) <=> Waiting(b, p, S))
  BY <1>2 DEF Accounts, Lanes, Waiting
<1>8. Place(b, p, 0) /\ Cost(b, p, t, 0)
  BY DEF Accounts, Account, Ledger
<1>9. CASE ds[i].text = p
  <2>1. i \in Mine(b, p, 0)
    BY <1>3, <1>9 DEF Mine
  <2>2. Mine(b, p, 0) = {i}
    BY <1>8, <2>1 DEF Place
  <2>3. ~Waits(b, p) /\ ~Waiting(b, p, S)
    BY <1>8, <2>1 DEF Place, Accounts, Account, Quiet
  <2>4. /\ t <= 1
        /\ Verifying(b, p) \/ (p \notin b.spent /\ ~ds[i].proven) => t <= 0
    BY <1>8, <2>1 DEF Cost, One
  <2>5. Cost(d, p, t + 1, 0)
    BY <1>2, <1>4, <1>5, <2>2, <2>3, <2>4 DEF Cost, One
  <2>6. Cost(d, p, 0, 0)
    BY <1>2, <1>4, <1>5, <2>2, <2>3 DEF Cost, One
  <2> QED
    BY <1>5, <1>6, <1>7, <1>9, <2>3, <2>5, <2>6 DEF Accounts, Account, Ledger, d
<1>10. CASE ds[i].text # p
  <2>1. i \notin Mine(b, p, 0)
    BY <1>10 DEF Mine
  <2>2. \A j \in Mine(b, p, 0) : es[j].typed = ds[j].typed /\ es[j].proven = ds[j].proven
    BY <1>4, <2>1 DEF Mine
  <2>3. Cost(d, p, t, 0)
    BY <1>2, <1>5, <1>8, <2>2 DEF Cost
  <2> QED
    BY <1>5, <1>6, <1>7, <1>10, <2>3 DEF Accounts, Account, Ledger, d
<1> QED
  BY <1>9, <1>10

LEMMA TailLineAccounts ==
  ASSUME IInv, NEW g \in 1 .. MaxGen, TailLine(g),
         NEW p \in Prompts, NEW t \in Nat, Accounts(bus, p, t, sent)
  PROVE  Accounts(bus', p, t, sent)
<1> DEFINE l == Head(lines[g])
<1>1. bus \in BusStates /\ Gate(bus) /\ HistoryOK /\ CliTypeOK
  BY IInvParts
<1>2. lines \in [1 .. MaxGen -> Seq(Lines)] /\ lines[g] # <<>>
  BY <1>1 DEF CliTypeOK, TailLine
<1>3. lines[g] \in Seq(Lines)
  BY <1>2
<1>4. l \in Lines
  <2> HIDE DEF Lines
  <2> QED
    BY <1>2, <1>3
<1>5. /\ l.kind \in {"prompt", "absorbed", "end", "init", "replay", "compact"}
      /\ l.kind = "end" => l.id \in Nat /\ l.text \in Says
      /\ l.kind = "replay" => l.gen \in Nat /\ l.session \in Nat
  BY <1>4, LineFields
<1>6. connected \in BOOLEAN
  BY <1>1 DEF HistoryOK
<1>7. CASE l.kind = "prompt"
  <2>1. bus' = PromptLine(bus, l.text)
    BY <1>7 DEF TailLine
  <2> QED
    BY <1>1, <2>1, PromptLineLeaves, LeavesAccount DEF Accounts
<1>8. CASE l.kind = "absorbed"
  <2>1. bus' = AbsorbedLine(bus, l.text)
    BY <1>8 DEF TailLine
  <2> QED
    BY <1>1, <2>1, AbsorbedLineLeaves, LeavesAccount DEF Accounts
<1>9. CASE l.kind = "end"
  <2>1. bus' = TurnEnd(bus, l.id, l.text, l.inject, connected)
    BY <1>9 DEF TailLine
  <2>2. Leaves(bus, bus', p, t)
    BY <1>1, <1>5, <1>6, <1>9, <2>1, TurnEndLeaves DEF Says
  <2> QED
    BY <2>2, LeavesAccount DEF Accounts
<1>10. CASE l.kind = "init"
  <2>1. bus' = InitLine(bus, l.session)
    BY <1>10 DEF TailLine
  <2> QED
    BY <1>1, <2>1, InitLineLeaves, LeavesAccount DEF Accounts
<1>11. CASE l.kind = "replay"
  <2>1. bus' = ReplayDone(bus, l.gen, l.session, connected)
    BY <1>11 DEF TailLine
  <2> QED
    BY <1>1, <1>5, <1>11, <2>1, ReplayDoneAccount
<1>12. CASE l.kind = "compact"
  <2>1. PICK tolerant \in BOOLEAN : bus' = CompactLine(bus, l.gen, l.nth, tolerant)
    BY <1>12 DEF TailLine
  <2> QED
    BY <1>1, <2>1, CompactLineLeaves, LeavesAccount DEF Accounts
<1> QED
  BY <1>5, <1>7, <1>8, <1>9, <1>10, <1>11, <1>12

LEMMA ReadFrameAccounts ==
  ASSUME IInv, ReadFrame, NEW p \in Prompts, NEW t \in Nat, Accounts(bus, p, t, sent)
  PROVE  Accounts(bus', p, t, sent)
<1> DEFINE f == Head(frames)
<1>1. bus \in BusStates /\ Gate(bus) /\ HistoryOK /\ CliTypeOK
  BY IInvParts
<1>2. frames \in Seq(Frames) /\ frames # <<>>
  BY <1>1 DEF CliTypeOK, ReadFrame
<1>3. f \in Frames
  <2> HIDE DEF Frames
  <2> QED
    BY <1>2
<1>4. f.kind \in {"reply", "cancel"}
  <2>1. CASE f \in [kind : {"reply"}, about : SUBSET Prompts, named : Chats \cup {None}]
    BY <2>1
  <2>2. CASE f \in [kind : {"cancel"}]
    BY <2>2
  <2> QED
    BY <1>3, <2>1, <2>2 DEF Frames
<1>5. CASE f.kind = "reply"
  <2>1. bus' = IngestReply(bus, f.named, "reply")
    BY <1>5 DEF ReadFrame
  <2> QED
    BY <1>1, <2>1, IngestReplyStays, StaysLeaves, LeavesAccount DEF Accounts
<1>6. CASE f.kind = "cancel"
  <2>1. bus' = Abandon(bus, connected)
    BY <1>6 DEF ReadFrame
  <2> QED
    BY <1>1, <2>1, AbandonAccount
<1> QED
  BY <1>4, <1>5, <1>6

LEMMA SettleAccounts ==
  ASSUME IInv, NEW i, PtySettle(i), NEW p \in Prompts, NEW t \in Nat, Accounts(bus, p, t, sent)
  PROVE  Accounts(bus', p, t, sent)
<1>1. bus \in BusStates /\ Gate(bus) /\ HistoryOK /\ CliTypeOK
  BY IInvParts
<1>2. i \in DOMAIN bus.deliveries /\ cli.compactions \in Nat
  BY <1>1 DEF PtySettle, IsNext, CliTypeOK, CliStates
<1>3. PICK outcome \in Verdicts : bus' = Verdict(bus, i, outcome, cli.compactions)
  BY DEF PtySettle
<1> QED
  BY <1>1, <1>2, <1>3, VerdictLeaves, LeavesAccount DEF Accounts

\* Every step but a keystroke keeps the account of a prompt, the backstop's on
\* the condition that it re-arms no second retry.
LEMMA NextAccounts ==
  ASSUME IInv, [Next]_vars, \A i : ~PtyType(i),
         NEW p \in Prompts, NEW t \in Nat, Accounts(bus, p, t, sent),
         BackstopFires /\ Contains(bus.held, p) => p \notin bus.spent \/ t = 0
  PROVE  Accounts(bus', p, t, sent')
<1>1. bus \in BusStates /\ Gate(bus) /\ HistoryOK /\ CliTypeOK
  BY IInvParts
<1>2. ASSUME NEW q \in Prompts, Send(q) PROVE Accounts(bus', p, t, sent')
  <2>1. /\ q \notin sent /\ bus' = SendPrompt(bus, q, connected)
        /\ sent' = IF MustQueue(bus) /\ Refuses(bus.queue, q) THEN sent ELSE sent \cup {q}
    BY <1>2 DEF Send
  <2>2. Admissible(bus) /\ Lanes(bus, sent) /\ Account(bus, p, t, sent)
    BY <1>1 DEF Gate, Parts, Accounts
  <2> QED
    BY <1>1, <2>1, <2>2, SendPromptAccount DEF Accounts
<1>3. CASE UNCHANGED <<bus, sent>>
  BY <1>3
<1>4. CASE PtyMoves
  BY <1>4, SettleAccounts DEF PtyMoves, PtySettle
<1>5. ASSUME NEW g \in 1 .. MaxGen, TailLine(g) PROVE Accounts(bus', p, t, sent')
  BY <1>5, TailLineAccounts DEF TailLine
<1>6. CASE ReadFrame
  BY <1>6, ReadFrameAccounts DEF ReadFrame
<1>7. CASE Drop
  BY <1>1, <1>7, OnCloseAccount DEF Drop
<1>8. CASE Hello
  <2>1. bus' = OnHello(bus) /\ sent' = sent
    BY <1>8 DEF Hello, Unlogged
  <2> QED
    BY <1>1, <2>1, OnHelloLeaves, LeavesAccount DEF Accounts
<1>9. CASE Kill
  <2>1. (bus' = OnClose(bus) \/ bus' = bus) /\ sent' = sent
    BY <1>9 DEF Kill, Unlogged
  <2> QED
    BY <1>1, <2>1, OnCloseAccount
<1>10. CASE Respawn
  <2>1. PICK gen : bus' = Spawned(bus, gen)
    BY <1>10 DEF Respawn
  <2>2. sent' = sent
    BY <1>10 DEF Respawn, Unlogged
  <2> QED
    BY <1>1, <2>1, <2>2, SpawnedStays, StaysLeaves, LeavesAccount DEF Accounts
<1>11. CASE SettleTimer
  BY <1>1, <1>11, SettledAccount DEF SettleTimer, Unlogged
<1>12. CASE DeadlineTimer
  BY <1>1, <1>12, TurnDeadlineAccount DEF DeadlineTimer
<1>13. CASE BackstopFires
  <2>1. bus' = InitBackstop(bus, connected) /\ sent' = sent
    BY <1>13 DEF BackstopFires, Unlogged
  <2> QED
    BY <1>1, <1>13, <2>1, InitBackstopAccount
<1>14. CASE FallbackFires
  <2>1. bus' = NudgeFallback(bus) /\ sent' = sent
    BY <1>14 DEF FallbackFires, Unlogged
  <2> QED
    BY <1>1, <2>1, NudgeFallbackLeaves, LeavesAccount DEF Accounts
<1>15. ASSUME NEW x \in Texts, VerifyFires(x) PROVE Accounts(bus', p, t, sent')
  <2>1. bus' = VerifyTimer(bus, x) /\ bus.verify[x] \in {"armed", "graced"} /\ sent' = sent
    BY <1>15 DEF VerifyFires, Unlogged
  <2> QED
    BY <1>1, <2>1, VerifyTimerLeaves, LeavesAccount DEF Accounts
<1>16. ASSUME NEW x \in Texts, HoldDeadline(x) PROVE Accounts(bus', p, t, sent')
  <2>1. bus' = ReleaseHold(bus, {x}) /\ bus.hold[x] # None /\ sent' = sent
    BY <1>16 DEF HoldDeadline, Unlogged
  <2>2. {x} \in SUBSET HeldTexts(bus)
    BY <2>1 DEF HeldTexts
  <2> QED
    BY <1>1, <2>1, <2>2, ReleaseHoldLeaves, LeavesAccount DEF Accounts
<1>17. (\E g \in 1 .. MaxGen : StopTailer(g)) \/ CliMoves => UNCHANGED <<bus, sent>>
  BY DEF StopTailer, CliMoves, coreVars, Unlogged
<1>18. UNCHANGED vars => UNCHANGED <<bus, sent>>
  BY DEF vars, coreVars
<1>19. CASE Next
  BY <1>2, <1>3, <1>4, <1>5, <1>6, <1>7, <1>8, <1>9, <1>10, <1>11, <1>12, <1>13, <1>14, <1>15,
     <1>16, <1>17, <1>19 DEF Next
<1> QED
  BY <1>3, <1>18, <1>19

\* The account of every prompt, whatever was typed of it, and with what was.
PlacesKept == \A p \in Prompts : Accounts(bus, p, 0, sent)

AccountsKept == \A p \in Prompts : Accounts(bus, p, typed[p], sent)

LEMMA InitAccounts == CoreInit => PlacesKept /\ AccountsKept
<1>1. ASSUME CoreInit, NEW p \in Prompts PROVE Accounts(bus, p, 0, sent) /\ typed[p] = 0
  BY <1>1, StartedAccount DEF CoreInit, StartedBus, Texts
<1> QED
  BY <1>1 DEF PlacesKept, AccountsKept

LEMMA KeystrokeAccounts ==
  ASSUME IInv, NEW i, PtyType(i), NEW p \in Prompts
  PROVE  /\ Accounts(bus, p, 0, sent) => Accounts(bus', p, 0, sent')
         /\ Accounts(bus, p, typed[p], sent) => Accounts(bus', p, typed'[p], sent')
<1> DEFINE x == bus.deliveries[i].text
           d == [bus EXCEPT !.deliveries[i].typed = TRUE]
<1>1. bus \in BusStates /\ HistoryOK
  BY IInvParts
<1>2. /\ i \in DOMAIN bus.deliveries /\ ~bus.deliveries[i].typed
      /\ typed' = [typed EXCEPT ![x] = @ + 1] /\ bus' = d /\ sent' = sent
  BY DEF PtyType, IsNext
<1>3. typed[p] \in Nat /\ (x = p => typed'[p] = typed[p] + 1) /\ (x # p => typed'[p] = typed[p])
  <2>1. typed \in [Texts -> Nat] /\ p \in Texts
    BY <1>1 DEF HistoryOK, Texts
  <2> HIDE DEF x
  <2> QED
    BY <1>2, <2>1
<1>4. ASSUME NEW t \in Nat, Accounts(bus, p, t, sent)
      PROVE  /\ x = p => Accounts(d, p, t + 1, sent)
             /\ x # p => Accounts(d, p, t, sent)
             /\ t = 0 => Accounts(d, p, 0, sent)
  BY <1>1, <1>2, <1>4, TypedAccount
<1> HIDE DEF x, d
<1> QED
  BY <1>2, <1>3, <1>4

LEMMA NextPlaces == ASSUME IInv, [Next]_vars, PlacesKept PROVE PlacesKept'
<1> SUFFICES ASSUME NEW p \in Prompts PROVE Accounts(bus', p, 0, sent')
  BY DEF PlacesKept
<1>1. Accounts(bus, p, 0, sent)
  BY DEF PlacesKept
<1>2. CASE \E i : PtyType(i)
  BY <1>1, <1>2, KeystrokeAccounts
<1>3. CASE \A i : ~PtyType(i)
  BY <1>1, <1>3, NextAccounts
<1> QED
  BY <1>2, <1>3

\* Where a keystroke is not counted, what was typed of a text stays.
LEMMA OnlyKeystrokesType ==
  ASSUME [Next]_vars, \A i : ~PtyType(i)
  PROVE  typed' = typed
<1>1. CASE Next
  <2>1. (\E p \in Prompts : Send(p)) \/ PtyMoves => typed' = typed
    BY DEF Send, PtyMoves, PtySettle
  <2>2. (\E g \in 1 .. MaxGen : TailLine(g) \/ StopTailer(g)) \/ ReadFrame => typed' = typed
    BY DEF TailLine, StopTailer, ReadFrame, Unlogged
  <2>3. Drop \/ Hello \/ Kill \/ Respawn => typed' = typed
    BY DEF Drop, Hello, Kill, Respawn, Unlogged
  <2>4. SettleTimer \/ DeadlineTimer \/ BackstopFires \/ FallbackFires => typed' = typed
    BY DEF SettleTimer, DeadlineTimer, BackstopFires, FallbackFires, Unlogged
  <2>5. (\E x \in Texts : VerifyFires(x) \/ HoldDeadline(x)) \/ CliMoves => typed' = typed
    BY DEF VerifyFires, HoldDeadline, CliMoves, coreVars, Unlogged
  <2> QED
    BY <1>1, <2>1, <2>2, <2>3, <2>4, <2>5 DEF Next
<1>2. CASE UNCHANGED vars
  BY <1>2 DEF vars, coreVars
<1> QED
  BY <1>1, <1>2

LEMMA NextAccountsKept ==
  ASSUME IInv, [Next]_vars, [~RetryRearmed]_vars, AccountsKept
  PROVE  AccountsKept'
<1> SUFFICES ASSUME NEW p \in Prompts PROVE Accounts(bus', p, typed'[p], sent')
  BY DEF AccountsKept
<1>1. Accounts(bus, p, typed[p], sent) /\ typed[p] \in Nat
  BY IInvParts DEF AccountsKept, HistoryOK, Texts
<1>2. CASE \E i : PtyType(i)
  BY <1>1, <1>2, KeystrokeAccounts
<1>3. CASE UNCHANGED vars
  BY <1>1, <1>3 DEF vars, coreVars
<1>4. CASE ~(\E i : PtyType(i)) /\ ~RetryRearmed
  <2>1. typed' = typed
    BY <1>4, OnlyKeystrokesType
  <2>2. BackstopFires /\ Contains(bus.held, p) => p \notin bus.spent \/ typed[p] = 0
    BY <1>4 DEF RetryRearmed
  <2>3. Accounts(bus', p, typed[p], sent')
    BY <1>1, <1>4, <2>2, NextAccounts
  <2> QED
    BY <2>1, <2>3
<1> QED
  BY <1>2, <1>3, <1>4

--------------------------------------------------------------------------------
(* The theorems *)

\* No prompt waits twice for its delivery, held behind an initialising session or
\* carried over a close, whatever the drops, the restarts, the verdicts of the PTY
\* layer and the timers do: core.ts never gives the CLI a prompt it has not been
\* told to give again (#252, #361).
THEOREM NoPromptWaitsTwice == Spec => []PromptsCarriedOnce
<1>1. CoreInit => IInv /\ PlacesKept
  BY InitInvariant, InitAccounts
<1>2. IInv /\ PlacesKept /\ [Next]_vars => IInv' /\ PlacesKept'
  BY NextInvariant, NextPlaces
<1>3. IInv /\ PlacesKept => PromptsCarriedOnce
  <2> SUFFICES ASSUME IInv, PlacesKept PROVE PromptsCarriedOnce
    OBVIOUS
  <2> DEFINE waiting == bus.held \o bus.carried
  <2>1. bus.held \in Seq(Texts) /\ bus.carried \in Seq(Texts)
    BY IInvParts, Zenon DEF BusStates
  <2>2. ASSUME NEW p \in Prompts PROVE Once(waiting, p)
    <3>1. Place(bus, p, 0)
      BY DEF PlacesKept, Accounts, Account, Ledger
    <3> QED
      BY <2>1, <3>1, ConcatOnce DEF Place
  <2> HIDE DEF waiting
  <2>3. \A i, j \in DOMAIN waiting : i # j /\ waiting[i] \in Prompts => waiting[i] # waiting[j]
    BY <2>2 DEF Once
  <2> QED
    BY <2>3 DEF PromptsCarriedOnce, waiting
<1> QED
  BY <1>1, <1>2, <1>3, PTL DEF Spec

\* A prompt reaches a REPL at most twice, its delivery and one re-delivery (#402),
\* for as long as the init backstop re-arms no second retry.
THEOREM RetriesOnce == Spec /\ [][~RetryRearmed]_vars => []AtMostOneRetry
<1>1. CoreInit => IInv /\ AccountsKept
  BY InitInvariant, InitAccounts
<1>2. IInv /\ AccountsKept /\ [Next]_vars /\ [~RetryRearmed]_vars => IInv' /\ AccountsKept'
  BY NextInvariant, NextAccountsKept
<1>3. IInv /\ AccountsKept => AtMostOneRetry
  <2> SUFFICES ASSUME IInv, AccountsKept, NEW p \in Prompts PROVE typed[p] <= 2
    BY DEF AtMostOneRetry
  <2> QED
    BY DEF AccountsKept, Accounts, Account, Ledger, Cost
<1> QED
  BY <1>1, <1>2, <1>3, PTL DEF Spec
================================================================================
