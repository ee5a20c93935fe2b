----------------------------- MODULE FanoutProofs -----------------------------
(***************************************************************************)
(* Proofs about Fanout, for any partners, devices, workers and bounds.     *)
(*                                                                         *)
(* What a handler prepares is what its changes announce, numbered behind   *)
(* the committed ones: so a commit adds new messages and no other.  A      *)
(* notice that a batch may still take has gone out at most as often as a   *)
(* batch with it was rolled back; and a batch deletes dead devices only.   *)
(***************************************************************************)
EXTENDS Fanout, FiniteSetTheorems, TLAPS

Seen ==
    [what : {"ENTERED", "RESCHEDULED", "ESCALATED"}, status : RequestStatus \cup {"ABSENT"},
     partner : Partners \cup {NoPartner}]

Messages ==
    [n : Nat, kind : Kinds, to : {"subscriber", "user", "partner", "operator", "chat"},
     partner : Partners \cup {NoPartner}]

\* The messages of change number n when the given kinds are switched on, and those of
\* a row of changes behind the first n.
News(kinds, n, c) ==
    LET told == ({"webhook"} \X Webhooks(c)) \cup ({"notification"} \X Notices(c))
                  \cup ({"concierge_status"} \X Callbacks(c))
    IN  {[n |-> n, kind |-> t[1], to |-> t[2], partner |-> c.partner] :
           t \in {x \in told : x[1] \in kinds}}

AllNews(kinds, n, cs) == UNION {News(kinds, n + i, cs[i]) : i \in DOMAIN cs}

ChangesInv ==
    /\ on \in Deployments
    /\ request \in RequestRow /\ log \in Seq(Seen)
    /\ tx \in [open : BOOLEAN, row : RequestRow, changes : Seq(Seen), emitted : SUBSET Messages]
    /\ Len(log) + Len(tx.changes) <= MaxEvents
    /\ DOMAIN outbox = AllNews(on, 0, log)
    /\ tx.emitted = AllNews(on, Len(log), tx.changes)

\* A table of messages, and a batch.
Table == UNION {[S -> Rows] : S \in SUBSET Messages}

Batch ==
    [todo : SUBSET Messages, mem : Table, cur : SUBSET Messages, left : SUBSET Devices,
     gone : SUBSET Devices]

\* A batch holds pending notices; one that it has not dealt with, or has put back, went
\* out no more often than it was rolled back.
Sound(b, rows, sent, undone) ==
    /\ b.todo \cup b.cur \subseteq DOMAIN b.mem /\ DOMAIN b.mem \subseteq DOMAIN rows
    /\ b.todo \cap b.cur = {} /\ (b.cur = {} \/ \E m \in DOMAIN b.mem : b.cur = {m})
    /\ \A m \in DOMAIN b.mem :
         /\ m.kind = "notification" /\ rows[m].state = "PENDING"
         /\ m \in b.todo => b.mem[m].state = "PENDING"
         /\ b.mem[m].state = "PENDING" /\ m \notin b.cur =>
              sent[m] <= undone[m] /\ (m \notin b.todo => b.mem[m].attempts < MaxAttempts)

Apart(batches) ==
    \A v, w \in Workers : v # w => DOMAIN batches[v].mem \cap DOMAIN batches[w].mem = {}

Counted(m, row, sent, undone, batches) ==
    /\ sent <= 1 + undone
    /\ row.state = "PENDING" =>
         /\ row.attempts < MaxAttempts
         /\ m.kind = "notification" /\ (\A w \in Workers : m \notin DOMAIN batches[w].mem)
              => sent <= undone

Tables(rows, sent, undone, batches) ==
    /\ rows \in Table /\ sent \in [DOMAIN rows -> Nat] /\ undone \in [DOMAIN rows -> Nat]
    /\ batches \in [Workers -> Batch]

Deliverable(rows, sent, undone, batches) ==
    /\ Tables(rows, sent, undone, batches)
    /\ \A w \in Workers : Sound(batches[w], rows, sent, undone)
    /\ Apart(batches)
    /\ \A m \in DOMAIN rows : Counted(m, rows[m], sent[m], undone[m], batches)

DeliveryInv == Deliverable(outbox, mails, aborts, drain)

\* What a batch deletes has expired.
DevicesInv ==
    /\ subs \subseteq Devices /\ dead \subseteq {d[2] : d \in Devices}
    /\ \A w \in Workers : \A d \in drain[w].gone : d[2] \in dead

Invariant == ChangesInv /\ DeliveryInv /\ DevicesInv

---------------------------------------------------------------------------
\* News are told apart by their numbers.
LEMMA NewsNumbered ==
    ASSUME NEW k, NEW n \in Nat, NEW c \in Seen
    PROVE  News(k, n, c) \subseteq {m \in Messages : m.n = n}
<1> SUFFICES ASSUME NEW m \in News(k, n, c) PROVE m \in Messages /\ m.n = n
  OBVIOUS
<1>1. PICK t : /\ t \in ({"webhook"} \X Webhooks(c)) \cup ({"notification"} \X Notices(c))
                           \cup ({"concierge_status"} \X Callbacks(c))
               /\ m = [n |-> n, kind |-> t[1], to |-> t[2], partner |-> c.partner]
  BY DEF News
<1>2. t[1] \in Kinds /\ t[2] \in {"subscriber", "user", "partner", "operator", "chat"}
  BY <1>1 DEF Kinds, Webhooks, Notices, Callbacks
<1>3. c.partner \in Partners \cup {NoPartner}
  BY DEF Seen
<1> QED BY <1>1, <1>2, <1>3 DEF Messages

LEMMA AllNewsNumbered ==
    ASSUME NEW k, NEW n \in Nat, NEW cs \in Seq(Seen)
    PROVE  /\ AllNews(k, n, cs) \subseteq Messages
           /\ \A m \in AllNews(k, n, cs) : n < m.n /\ m.n <= n + Len(cs)
<1> SUFFICES ASSUME NEW m \in AllNews(k, n, cs)
             PROVE  m \in Messages /\ n < m.n /\ m.n <= n + Len(cs)
  OBVIOUS
<1>1. PICK i \in 1 .. Len(cs) : m \in News(k, n + i, cs[i])
  BY DEF AllNews
<1>2. n + i \in Nat /\ cs[i] \in Seen
  OBVIOUS
<1>3. m \in Messages /\ m.n = n + i
  BY <1>1, <1>2, NewsNumbered
<1> QED BY <1>3

LEMMA AllNewsJoined ==
    ASSUME NEW k, NEW n \in Nat, NEW a \in Seq(Seen), NEW b \in Seq(Seen)
    PROVE  AllNews(k, n, a \o b) = AllNews(k, n, a) \cup AllNews(k, n + Len(a), b)
<1> DEFINE ab == a \o b
<1> PICK A \in Nat, B \in Nat : A = Len(a) /\ B = Len(b)
  OBVIOUS
<1>1. /\ DOMAIN ab = 1 .. A + B /\ DOMAIN a = 1 .. A /\ DOMAIN b = 1 .. B
      /\ \A i \in 1 .. A : ab[i] = a[i]
      /\ \A i \in 1 .. B : ab[A + i] = b[i]
  <2>1. /\ DOMAIN ab = 1 .. A + B
        /\ \A i \in 1 .. A + B : ab[i] = IF i <= A THEN a[i] ELSE b[i - A]
    OBVIOUS
  <2> HIDE DEF ab
  <2>2. ASSUME NEW i \in 1 .. B PROVE ab[A + i] = b[i]
    <3>1. A + i \in 1 .. A + B /\ ~(A + i <= A) /\ (A + i) - A = i
      OBVIOUS
    <3> QED BY <2>1, <3>1
  <2> QED BY <2>1, <2>2
<1> HIDE DEF ab
<1>2. ASSUME NEW m, m \in AllNews(k, n, ab)
      PROVE  m \in AllNews(k, n, a) \cup AllNews(k, n + A, b)
  <2>1. PICK i \in 1 .. A + B : m \in News(k, n + i, ab[i])
    BY <1>1, <1>2 DEF AllNews
  <2>2. CASE i <= A
    BY <1>1, <2>1, <2>2 DEF AllNews
  <2>3. CASE i > A
    <3>1. i - A \in 1 .. B /\ i = A + (i - A) /\ n + i = (n + A) + (i - A)
      BY <2>3
    <3>2. m \in News(k, (n + A) + (i - A), b[i - A])
      BY <1>1, <2>1, <3>1
    <3> QED BY <1>1, <3>1, <3>2 DEF AllNews
  <2> QED BY <2>2, <2>3
<1>3. ASSUME NEW m, m \in AllNews(k, n, a) PROVE m \in AllNews(k, n, ab)
  <2>1. PICK i \in 1 .. A : m \in News(k, n + i, a[i])
    BY <1>1, <1>3 DEF AllNews
  <2>2. i \in 1 .. A + B
    OBVIOUS
  <2> QED BY <1>1, <2>1, <2>2 DEF AllNews
<1>4. ASSUME NEW m, m \in AllNews(k, n + A, b) PROVE m \in AllNews(k, n, ab)
  <2>1. PICK i \in 1 .. B : m \in News(k, (n + A) + i, b[i])
    BY <1>1, <1>4 DEF AllNews
  <2>2. A + i \in 1 .. A + B /\ (n + A) + i = n + (A + i)
    OBVIOUS
  <2> QED BY <1>1, <2>1, <2>2 DEF AllNews
<1> QED BY <1>2, <1>3, <1>4 DEF ab

LEMMA EmittedNews == ASSUME NEW n, NEW c PROVE Emitted(n, c) = News(on, n, c)
BY DEF Emitted, News

LEMMA AnnouncedNews ==
    ASSUME log \in Seq(Seen)
    PROVE  AnnouncedOnce <=> DOMAIN outbox = AllNews(on, 0, log)
<1>1. \A n \in DOMAIN log : Emitted(n, log[n]) = News(on, 0 + n, log[n])
  BY EmittedNews
<1> QED BY <1>1 DEF AnnouncedOnce, AllNews

---------------------------------------------------------------------------
\* Rows of the outbox, and the marks a drain puts on them.
LEMMA TableOpened ==
    ASSUME NEW f \in Table
    PROVE  DOMAIN f \subseteq Messages /\ f \in [DOMAIN f -> Rows]
BY DEF Table

LEMMA TableMade ==
    ASSUME NEW S \in SUBSET Messages, NEW f \in [S -> Rows]
    PROVE  f \in Table
BY DEF Table

LEMMA Marked ==
    ASSUME NEW r \in Rows
    PROVE  /\ Done(r) \in Rows /\ Done(r).state = "DONE"
           /\ Again(r) \in Rows
           /\ Again(r).state = "PENDING" => Again(r).attempts < MaxAttempts
           /\ r.attempts < MaxAttempts =>
                Tried(r) \in Rows /\ Tried(r).state = r.state
BY FanoutAssumption DEF Rows, Done, Again, Tried

\* A worker goes on with its batch, or takes one.
LEMMA BatchReplaced ==
    ASSUME NEW R, NEW M, NEW A, NEW D, Deliverable(R, M, A, D),
           NEW w \in Workers, NEW b \in Batch, NEW N \in [DOMAIN R -> Nat],
           DOMAIN D[w].mem \subseteq DOMAIN b.mem,
           \A v \in Workers \ {w} : DOMAIN D[v].mem \cap DOMAIN b.mem = {},
           \A m \in DOMAIN R \ DOMAIN b.mem : N[m] = M[m],
           \A m \in DOMAIN b.mem : N[m] <= 1 + A[m],
           Sound(b, R, N, A), NEW E, E = [D EXCEPT ![w] = b]
    PROVE  Deliverable(R, N, A, E)
<1>1. /\ E \in [Workers -> Batch] /\ E[w] = b
      /\ \A v \in Workers \ {w} : E[v] = D[v]
  BY DEF Deliverable, Tables
<1>2. Tables(R, N, A, E)
  BY <1>1 DEF Deliverable, Tables
<1>3. ASSUME NEW v \in Workers PROVE Sound(E[v], R, N, A)
  <2>1. CASE v = w
    BY <1>1, <2>1
  <2>2. CASE v # w
    <3>1. Sound(D[v], R, M, A) /\ E[v] = D[v]
      BY <1>1, <2>2 DEF Deliverable
    <3>2. \A m \in DOMAIN D[v].mem : N[m] = M[m]
      BY <2>2, <3>1 DEF Sound
    <3> QED BY <3>1, <3>2 DEF Sound
  <2> QED BY <2>1, <2>2
<1>4. Apart(E)
  BY <1>1 DEF Apart, Deliverable
<1>5. ASSUME NEW m \in DOMAIN R PROVE Counted(m, R[m], N[m], A[m], E)
  <2>1. Counted(m, R[m], M[m], A[m], D)
    BY DEF Deliverable
  <2>2. CASE m \in DOMAIN b.mem
    <3>1. N[m] <= 1 + A[m]
      BY <2>2
    <3> QED BY <1>1, <2>1, <2>2, <3>1 DEF Counted
  <2>3. CASE m \notin DOMAIN b.mem
    <3>1. N[m] = M[m] /\ m \notin DOMAIN D[w].mem
      BY <2>3
    <3>2. (\A v \in Workers : m \notin DOMAIN E[v].mem)
            => \A v \in Workers : m \notin DOMAIN D[v].mem
      BY <1>1, <3>1
    <3> QED BY <2>1, <3>1, <3>2 DEF Counted
  <2> QED BY <2>2, <2>3
<1> QED BY <1>2, <1>3, <1>4, <1>5 DEF Deliverable

LEMMA NoBatch ==
    ASSUME NEW R, NEW M, NEW A
    PROVE  Batch0 \in Batch /\ DOMAIN Batch0.mem = {} /\ Sound(Batch0, R, M, A)
<1>1. Batch0.mem = << >> /\ Batch0.todo = {} /\ Batch0.cur = {}
  BY DEF Batch0
<1>2. << >> \in [{} -> Rows] /\ DOMAIN << >> = {}
  OBVIOUS
<1>3. << >> \in Table
  BY <1>2, TableMade
<1>4. Batch0 \in Batch
  BY <1>3 DEF Batch0, Batch
<1> QED BY <1>1, <1>2, <1>4 DEF Sound

\* A batch is rolled back: the counts of roll-backs after it.
Undoes(R, A, D, w, U) ==
    /\ U \in [DOMAIN R -> Nat]
    /\ \A m \in DOMAIN R : U[m] = IF m \in DOMAIN D[w].mem THEN A[m] + 1 ELSE A[m]

LEMMA BatchUndone ==
    ASSUME NEW R, NEW M, NEW A, NEW D, Deliverable(R, M, A, D), NEW w \in Workers,
           NEW E, E = [D EXCEPT ![w] = Batch0], NEW U, Undoes(R, A, D, w, U)
    PROVE  Deliverable(R, M, U, E)
<1>1. /\ E \in [Workers -> Batch] /\ E[w] = Batch0
      /\ \A v \in Workers \ {w} : E[v] = D[v]
  BY NoBatch DEF Deliverable, Tables
<1>2. /\ U \in [DOMAIN R -> Nat]
      /\ \A m \in DOMAIN R : m \in DOMAIN D[w].mem => U[m] = A[m] + 1
      /\ \A m \in DOMAIN R : m \notin DOMAIN D[w].mem => U[m] = A[m]
      /\ M \in [DOMAIN R -> Nat] /\ A \in [DOMAIN R -> Nat]
  BY DEF Deliverable, Tables, Undoes
<1>3. Tables(R, M, U, E)
  BY <1>1, <1>2 DEF Deliverable, Tables
<1>4. ASSUME NEW v \in Workers PROVE Sound(E[v], R, M, U)
  <2>1. CASE v = w
    BY <1>1, <2>1, NoBatch
  <2>2. CASE v # w
    <3>1. Sound(D[v], R, M, A) /\ E[v] = D[v]
      BY <1>1, <2>2 DEF Deliverable
    <3>2. \A m \in DOMAIN D[v].mem : U[m] = A[m]
      BY <1>2, <2>2, <3>1 DEF Sound, Deliverable, Apart
    <3> QED BY <3>1, <3>2 DEF Sound
  <2> QED BY <2>1, <2>2
<1>5. Apart(E)
  BY <1>1, NoBatch DEF Apart, Deliverable
<1>6. ASSUME NEW m \in DOMAIN R PROVE Counted(m, R[m], M[m], U[m], E)
  <2>1. Counted(m, R[m], M[m], A[m], D) /\ M[m] \in Nat /\ A[m] \in Nat
    BY <1>2 DEF Deliverable
  <2>2. CASE m \in DOMAIN D[w].mem
    <3>1. U[m] = A[m] + 1
      BY <1>2, <2>2
    <3> QED BY <2>1, <3>1 DEF Counted
  <2>3. CASE m \notin DOMAIN D[w].mem
    <3>1. U[m] = A[m]
      BY <1>2, <2>3
    <3>2. (\A v \in Workers : m \notin DOMAIN E[v].mem)
            => \A v \in Workers : m \notin DOMAIN D[v].mem
      BY <1>1, <2>3
    <3> QED BY <2>1, <3>1, <3>2 DEF Counted
  <2> QED BY <2>2, <2>3
<1> QED BY <1>3, <1>4, <1>5, <1>6 DEF Deliverable

\* A batch is committed: it has put back only what it did not send.
LEMMA BatchCommitted ==
    ASSUME NEW R, NEW M, NEW A, NEW D, Deliverable(R, M, A, D), NEW w \in Workers,
           D[w].todo = {}, D[w].cur = {}, NEW E, E = [D EXCEPT ![w] = Batch0],
           NEW S \in [DOMAIN R -> Rows],
           \A m \in DOMAIN R : S[m] = IF m \in DOMAIN D[w].mem THEN D[w].mem[m] ELSE R[m]
    PROVE  Deliverable(S, M, A, E)
<1>1. /\ E \in [Workers -> Batch] /\ E[w] = Batch0
      /\ \A v \in Workers \ {w} : E[v] = D[v]
  BY NoBatch DEF Deliverable, Tables
<1>2. R \in [DOMAIN R -> Rows] /\ DOMAIN R \subseteq Messages
  BY TableOpened DEF Deliverable, Tables
<1>3. D[w].mem \in [DOMAIN D[w].mem -> Rows]
  <2>1. D[w].mem \in Table
    BY DEF Deliverable, Tables, Batch
  <2> QED BY <2>1, TableOpened
<1>4. /\ S \in [DOMAIN R -> Rows]
      /\ \A m \in DOMAIN R : m \in DOMAIN D[w].mem => S[m] = D[w].mem[m]
      /\ \A m \in DOMAIN R : m \notin DOMAIN D[w].mem => S[m] = R[m]
  BY <1>2, <1>3
<1>5. Tables(S, M, A, E)
  <2>1. S \in Table /\ DOMAIN S = DOMAIN R
    BY <1>2, <1>4, TableMade
  <2> QED BY <1>1, <2>1 DEF Deliverable, Tables
<1>6. ASSUME NEW v \in Workers PROVE Sound(E[v], S, M, A)
  <2>1. CASE v = w
    BY <1>1, <2>1, NoBatch
  <2>2. CASE v # w
    <3>1. Sound(D[v], R, M, A) /\ E[v] = D[v]
      BY <1>1, <2>2 DEF Deliverable
    <3>2. \A m \in DOMAIN D[v].mem : S[m] = R[m]
      BY <1>4, <2>2, <3>1 DEF Sound, Deliverable, Apart
    <3>3. DOMAIN S = DOMAIN R
      BY <1>4
    <3> QED BY <3>1, <3>2, <3>3 DEF Sound
  <2> QED BY <2>1, <2>2
<1>7. Apart(E)
  BY <1>1, NoBatch DEF Apart, Deliverable
<1>8. ASSUME NEW m \in DOMAIN S PROVE Counted(m, S[m], M[m], A[m], E)
  <2>1. m \in DOMAIN R /\ Counted(m, R[m], M[m], A[m], D)
    BY <1>4 DEF Deliverable
  <2>2. CASE m \in DOMAIN D[w].mem
    <3>1. S[m] = D[w].mem[m]
      BY <1>4, <2>1, <2>2
    <3>2. S[m].state = "PENDING" => M[m] <= A[m] /\ S[m].attempts < MaxAttempts
      BY <2>2, <3>1 DEF Deliverable, Sound
    <3> QED BY <2>1, <3>2 DEF Counted
  <2>3. CASE m \notin DOMAIN D[w].mem
    <3>1. S[m] = R[m]
      BY <1>4, <2>1, <2>3
    <3>2. (\A v \in Workers : m \notin DOMAIN E[v].mem)
            => \A v \in Workers : m \notin DOMAIN D[v].mem
      BY <1>1, <2>3
    <3> QED BY <2>1, <3>1, <3>2 DEF Counted
  <2> QED BY <2>2, <2>3
<1> QED BY <1>5, <1>6, <1>7, <1>8 DEF Deliverable

\* The messages of a committed change are new.
Adds(R, M, A, new, S, N, B) ==
    /\ S \in [DOMAIN R \cup new -> Rows]
    /\ N \in [DOMAIN R \cup new -> Nat] /\ B \in [DOMAIN R \cup new -> Nat]
    /\ \A m \in new : S[m] = Fresh /\ N[m] = 0 /\ B[m] = 0
    /\ \A m \in DOMAIN R : S[m] = R[m] /\ N[m] = M[m] /\ B[m] = A[m]

LEMMA MessagesAdded ==
    ASSUME NEW R, NEW M, NEW A, NEW D, Deliverable(R, M, A, D),
           NEW new \in SUBSET Messages, new \cap DOMAIN R = {}, NEW S, NEW N, NEW B,
           Adds(R, M, A, new, S, N, B)
    PROVE  Deliverable(S, N, B, D)
<1>1. R \in [DOMAIN R -> Rows] /\ DOMAIN R \subseteq Messages
  BY TableOpened DEF Deliverable, Tables
<1>2. Fresh \in Rows /\ Fresh.state = "PENDING" /\ Fresh.attempts < MaxAttempts
  BY FanoutAssumption DEF Fresh, Rows
<1>3. /\ S \in [DOMAIN R \cup new -> Rows] /\ N \in [DOMAIN R \cup new -> Nat]
      /\ B \in [DOMAIN R \cup new -> Nat]
  BY DEF Adds
<1>4. /\ \A m \in DOMAIN R : m \notin new /\ S[m] = R[m] /\ N[m] = M[m] /\ B[m] = A[m]
      /\ \A m \in new : S[m] = Fresh /\ N[m] = 0 /\ B[m] = 0
      /\ DOMAIN S = DOMAIN R \cup new
  BY DEF Adds
<1>5. Tables(S, N, B, D)
  <2>1. S \in Table
    BY <1>1, <1>3, TableMade
  <2> QED BY <1>3, <1>4, <2>1 DEF Deliverable, Tables
<1>6. ASSUME NEW v \in Workers PROVE Sound(D[v], S, N, B)
  <2>1. Sound(D[v], R, M, A)
    BY DEF Deliverable
  <2> QED BY <1>4, <2>1 DEF Sound
<1>7. ASSUME NEW m \in DOMAIN S PROVE Counted(m, S[m], N[m], B[m], D)
  <2>1. CASE m \in new
    BY <1>2, <1>4, <2>1 DEF Counted
  <2>2. CASE m \in DOMAIN R
    BY <1>4, <2>2 DEF Deliverable
  <2> QED BY <1>4, <2>1, <2>2
<1> QED BY <1>5, <1>6, <1>7 DEF Deliverable

\* A message that goes out in one call is in no batch.
LEMMA MessagePosted ==
    ASSUME NEW R, NEW M, NEW A, NEW D, Deliverable(R, M, A, D),
           NEW m \in DOMAIN R, m.kind # "notification", NEW r \in Rows,
           r.state = "PENDING" => r.attempts < MaxAttempts, NEW S, S = [R EXCEPT ![m] = r]
    PROVE  Deliverable(S, M, A, D)
<1>1. R \in [DOMAIN R -> Rows] /\ DOMAIN R \subseteq Messages
  BY TableOpened DEF Deliverable, Tables
<1>2. /\ S \in [DOMAIN R -> Rows] /\ S[m] = r
      /\ \A x \in DOMAIN R \ {m} : S[x] = R[x]
  BY <1>1
<1>3. Tables(S, M, A, D)
  <2>1. S \in Table /\ DOMAIN S = DOMAIN R
    BY <1>1, <1>2, TableMade
  <2> QED BY <2>1 DEF Deliverable, Tables
<1>4. ASSUME NEW v \in Workers PROVE Sound(D[v], S, M, A)
  <2>1. Sound(D[v], R, M, A)
    BY DEF Deliverable
  <2>2. \A x \in DOMAIN D[v].mem : S[x] = R[x]
    BY <1>2, <2>1 DEF Sound
  <2>3. DOMAIN S = DOMAIN R
    BY <1>2
  <2> QED BY <2>1, <2>2, <2>3 DEF Sound
<1>5. ASSUME NEW x \in DOMAIN S PROVE Counted(x, S[x], M[x], A[x], D)
  <2>1. x \in DOMAIN R /\ Counted(x, R[x], M[x], A[x], D)
    BY <1>2 DEF Deliverable
  <2>2. CASE x = m
    BY <1>2, <2>1, <2>2 DEF Counted
  <2>3. CASE x # m
    BY <1>2, <2>1, <2>3
  <2> QED BY <2>2, <2>3
<1> QED BY <1>3, <1>4, <1>5 DEF Deliverable

---------------------------------------------------------------------------
\* The end of a notice's fan-out marks it; until then nothing happens to it.
LEMMA Rested ==
    ASSUME NEW b \in Batch, NEW R, NEW N \in [DOMAIN R -> Nat], NEW A, Sound(b, R, N, A)
    PROVE  /\ Resting(b) \in Batch /\ DOMAIN Resting(b).mem = DOMAIN b.mem
           /\ Sound(Resting(b), R, N, A)
           /\ Resting(b).gone = b.gone
<1>1. CASE b.left # {}
  BY <1>1 DEF Resting
<1>2. CASE b.left = {}
  <2> DEFINE q == [b EXCEPT !.cur = {},
                            !.mem = [m \in DOMAIN @ |-> IF m \in b.cur THEN Done(@[m]) ELSE @[m]]]
             mem == [m \in DOMAIN b.mem |-> IF m \in b.cur THEN Done(b.mem[m]) ELSE b.mem[m]]
  <2>1. Resting(b) = q
    BY <1>2 DEF Resting
  <2>2. DOMAIN b.mem \subseteq Messages /\ b.mem \in [DOMAIN b.mem -> Rows]
    BY TableOpened DEF Batch
  <2>3. /\ mem \in [DOMAIN b.mem -> Rows]
        /\ \A m \in DOMAIN b.mem : m \in b.cur => mem[m].state = "DONE"
        /\ \A m \in DOMAIN b.mem : m \notin b.cur => mem[m] = b.mem[m]
    BY <2>2, Marked
  <2>4. mem \in Table
    BY <2>2, <2>3, TableMade
  <2>5. q = [b EXCEPT !.cur = {}, !.mem = mem]
    BY DEF Batch
  <2> HIDE DEF mem
  <2>6. /\ q \in Batch /\ q.mem = mem /\ q.cur = {} /\ q.gone = b.gone /\ q.todo = b.todo
    BY <2>4, <2>5 DEF Batch
  <2> HIDE DEF q
  <2>7. Sound(q, R, N, A)
    BY <2>3, <2>6 DEF Sound
  <2> QED BY <2>1, <2>3, <2>6, <2>7
<1> QED BY <1>1, <1>2

\* One device of the fan-out is dealt with.
LEMMA DevicePassed ==
    ASSUME NEW b \in Batch, NEW R, NEW N \in [DOMAIN R -> Nat], NEW A, Sound(b, R, N, A),
           NEW d \in Devices, NEW deleted \in BOOLEAN
    PROVE  /\ Passed(b, d, deleted) \in Batch
           /\ DOMAIN Passed(b, d, deleted).mem = DOMAIN b.mem
           /\ Sound(Passed(b, d, deleted), R, N, A)
           /\ Passed(b, d, deleted).gone \subseteq b.gone \cup (IF deleted THEN {d} ELSE {})
<1> DEFINE q == [b EXCEPT !.left = @ \ {d}, !.gone = IF deleted THEN @ \cup {d} ELSE @]
<1>1. /\ q \in Batch /\ q.mem = b.mem /\ q.cur = b.cur /\ q.todo = b.todo
      /\ q.gone \subseteq b.gone \cup (IF deleted THEN {d} ELSE {})
  BY DEF Batch
<1>2. Passed(b, d, deleted) = Resting(q)
  BY DEF Passed
<1> HIDE DEF q
<1>3. Sound(q, R, N, A)
  BY <1>1 DEF Sound
<1> QED BY <1>1, <1>2, <1>3, Rested

\* A notice that could not go out is put back.
LEMMA NoticePutBack ==
    ASSUME NEW b \in Batch, NEW R, NEW N \in [DOMAIN R -> Nat], NEW A, Sound(b, R, N, A),
           NEW m \in b.todo
    PROVE  /\ PutBack(b, m) \in Batch /\ DOMAIN PutBack(b, m).mem = DOMAIN b.mem
           /\ Sound(PutBack(b, m), R, N, A)
           /\ PutBack(b, m).gone = b.gone
<1>1. DOMAIN b.mem \subseteq Messages /\ b.mem \in [DOMAIN b.mem -> Rows]
  BY TableOpened DEF Batch
<1>2. m \in DOMAIN b.mem /\ b.mem[m] \in Rows
  BY <1>1 DEF Sound
<1> DEFINE r == Again(b.mem[m])
           mem == [b.mem EXCEPT ![m] = r]
           q == [b EXCEPT !.todo = @ \ {m}, !.mem[m] = r]
<1>3. PutBack(b, m) = q
  BY DEF PutBack
<1>4. r \in Rows /\ (r.state = "PENDING" => r.attempts < MaxAttempts)
  BY <1>2, Marked
<1> HIDE DEF r
<1>5. /\ mem \in [DOMAIN b.mem -> Rows] /\ mem[m] = r
      /\ \A x \in DOMAIN b.mem \ {m} : mem[x] = b.mem[x]
  BY <1>1, <1>2, <1>4
<1>6. mem \in Table
  BY <1>1, <1>5, TableMade
<1>7. q = [b EXCEPT !.todo = @ \ {m}, !.mem = mem]
  BY DEF Batch
<1> HIDE DEF mem
<1>8. q \in Batch /\ q.mem = mem /\ q.cur = b.cur /\ q.gone = b.gone /\ q.todo = b.todo \ {m}
  BY <1>6, <1>7 DEF Batch
<1> HIDE DEF q
<1>9. Sound(q, R, N, A)
  BY <1>2, <1>4, <1>5, <1>8 DEF Sound
<1> QED BY <1>3, <1>5, <1>8, <1>9

\* A notice goes out: it is no longer among those that may be put back.
LEMMA NoticePushed ==
    ASSUME NEW b \in Batch, NEW R, NEW M, NEW N \in [DOMAIN R -> Nat], NEW A,
           Sound(b, R, M, A), b.cur = {},
           NEW m \in b.todo, NEW devices \in SUBSET Devices,
           \A x \in DOMAIN R \ {m} : N[x] = M[x]
    PROVE  /\ Pushing(b, m, devices) \in Batch
           /\ DOMAIN Pushing(b, m, devices).mem = DOMAIN b.mem
           /\ Sound(Pushing(b, m, devices), R, N, A)
           /\ Pushing(b, m, devices).gone = b.gone
<1> DEFINE q == [b EXCEPT !.todo = @ \ {m}, !.cur = {m}, !.left = devices]
<1>1. m \in DOMAIN b.mem /\ m \in Messages /\ DOMAIN b.mem \subseteq DOMAIN R
  BY DEF Sound, Batch
<1>2. /\ q \in Batch /\ q.mem = b.mem /\ q.cur = {m} /\ q.todo = b.todo \ {m}
      /\ q.gone = b.gone
  BY <1>1 DEF Batch
<1>3. Pushing(b, m, devices) = Resting(q)
  BY DEF Pushing
<1> HIDE DEF q
<1>4. Sound(q, R, N, A)
  BY <1>1, <1>2 DEF Sound
<1> QED BY <1>2, <1>3, <1>4, Rested

---------------------------------------------------------------------------
\* The steps.  Those of the drains and the browsers announce nothing.
LEMMA NothingAnnounced ==
    ASSUME ChangesInv, UNCHANGED <<on, changes>>, DOMAIN outbox' = DOMAIN outbox
    PROVE  ChangesInv'
BY DEF ChangesInv, changes

LEMMA RowTyped ==
    ASSUME ChangesInv
    PROVE  /\ Row \in RequestRow
           /\ \A what \in {"ENTERED", "RESCHEDULED", "ESCALATED"}, r \in RequestRow :
                <<Change(what, r)>> \in Seq(Seen)
<1>1. Row \in RequestRow
  BY DEF ChangesInv, Row
<1>2. ASSUME NEW what \in {"ENTERED", "RESCHEDULED", "ESCALATED"}, NEW r \in RequestRow
      PROVE  <<Change(what, r)>> \in Seq(Seen)
  <2>1. Change(what, r) \in Seen
    BY DEF Change, Seen, RequestRow
  <2> HIDE DEF Change
  <2> QED BY <2>1
<1> QED BY <1>1, <1>2

LEMMA ChangedKeeps ==
    ASSUME Invariant, NEW r \in RequestRow, NEW c \in Seq(Seen), Changed(r, c)
    PROVE  Invariant'
<1>1. PICK L \in Nat, K \in Nat, C \in Nat : L = Len(log) /\ K = Len(tx.changes) /\ C = Len(c)
  BY DEF Invariant, ChangesInv
<1>2. PICK more : more = UNION {Emitted((L + K) + i, c[i]) : i \in DOMAIN c}
  OBVIOUS
<1>3. /\ tx' = [open |-> TRUE, row |-> r, changes |-> tx.changes \o c,
                emitted |-> tx.emitted \cup more]
      /\ (L + K) + C <= MaxEvents
      /\ UNCHANGED <<on, request, log, outbox, subs, dead, drain, mails, aborts, crashes>>
  BY <1>1, <1>2 DEF Changed
<1>4. more = AllNews(on, L + K, c)
  BY <1>2, EmittedNews DEF AllNews
<1>5. PICK held \in Seq(Seen) : held = tx.changes
  BY DEF Invariant, ChangesInv
<1>6. /\ AllNews(on, L, held \o c) = tx.emitted \cup more
      /\ tx.emitted \cup more \subseteq Messages
  <2>1. AllNews(on, L, held \o c) = AllNews(on, L, held) \cup AllNews(on, L + K, c)
    BY <1>1, <1>5, AllNewsJoined
  <2>2. tx.emitted = AllNews(on, L, held) /\ tx.emitted \subseteq Messages
    BY <1>1, <1>5 DEF Invariant, ChangesInv
  <2>3. AllNews(on, L + K, c) \subseteq Messages
    <3>1. L + K \in Nat
      OBVIOUS
    <3> QED BY <3>1, AllNewsNumbered
  <2> QED BY <1>4, <2>1, <2>2, <2>3
<1>7. held \o c \in Seq(Seen) /\ Len(held \o c) = K + C
  BY <1>1, <1>5
<1>8. ChangesInv'
  <2>1. tx' \in [open : BOOLEAN, row : RequestRow, changes : Seq(Seen), emitted : SUBSET Messages]
    BY <1>3, <1>5, <1>6, <1>7
  <2>2. Len(log') + Len(tx'.changes) <= MaxEvents
    <3>1. Len(tx'.changes) = K + C /\ Len(log') = L
      BY <1>1, <1>3, <1>5, <1>7
    <3>2. L + (K + C) <= MaxEvents
      BY <1>3, FanoutAssumption
    <3> QED BY <3>1, <3>2
  <2>3. tx'.emitted = AllNews(on, L, tx'.changes)
    BY <1>3, <1>5, <1>6
  <2>4. /\ on \in Deployments /\ request \in RequestRow /\ log \in Seq(Seen)
        /\ DOMAIN outbox = AllNews(on, 0, log)
    BY DEF Invariant, ChangesInv
  <2> QED BY <1>1, <1>3, <2>1, <2>2, <2>3, <2>4 DEF ChangesInv
<1>9. DeliveryInv' /\ DevicesInv'
  BY <1>3 DEF Invariant, DeliveryInv, DevicesInv
<1> QED BY <1>8, <1>9 DEF Invariant

LEMMA CommitKeeps ==
    ASSUME Invariant, Commit
    PROVE  Invariant'
<1>1. PICK before \in Seq(Seen), held \in Seq(Seen) : before = log /\ held = tx.changes
  BY DEF Invariant, ChangesInv
<1>2. PICK L \in Nat, K \in Nat : L = Len(before) /\ K = Len(held)
  OBVIOUS
<1>3. PICK new : new = tx.emitted
  OBVIOUS
<1>4. new = AllNews(on, L, held) /\ DOMAIN outbox = AllNews(on, 0, before)
  BY <1>1, <1>2, <1>3 DEF Invariant, ChangesInv
<1>5. /\ new \subseteq Messages /\ \A m \in new : L < m.n
      /\ \A m \in DOMAIN outbox : m \in Messages /\ m.n <= L
  <2>1. /\ AllNews(on, L, held) \subseteq Messages
        /\ \A m \in AllNews(on, L, held) : L < m.n
    BY AllNewsNumbered
  <2>2. /\ AllNews(on, 0, before) \subseteq Messages
        /\ \A m \in AllNews(on, 0, before) : m.n <= 0 + L
    BY <1>2, AllNewsNumbered
  <2> QED BY <1>4, <2>1, <2>2
<1>6. new \cap DOMAIN outbox = {}
  <2> SUFFICES ASSUME NEW m \in new, m \in DOMAIN outbox PROVE FALSE
    OBVIOUS
  <2>1. L < m.n /\ m.n <= L /\ m.n \in Nat
    BY <1>5 DEF Messages
  <2> QED BY <2>1
<1>7. /\ outbox' = [m \in DOMAIN outbox \cup new |-> IF m \in new THEN Fresh ELSE outbox[m]]
      /\ mails' = [m \in DOMAIN outbox \cup new |-> IF m \in new THEN 0 ELSE mails[m]]
      /\ aborts' = [m \in DOMAIN outbox \cup new |-> IF m \in new THEN 0 ELSE aborts[m]]
      /\ DOMAIN outbox' = DOMAIN outbox \cup new
  BY <1>3 DEF Commit
<1>8. /\ on' = on /\ subs' = subs /\ dead' = dead /\ drain' = drain
      /\ request' = tx.row /\ log' = before \o held /\ tx' = NoTx
  BY <1>1 DEF Commit
<1>9. DeliveryInv'
  <2> PICK R, M, A, D, S, N, B :
         /\ R = outbox /\ M = mails /\ A = aborts /\ D = drain
         /\ S = outbox' /\ N = mails' /\ B = aborts'
    OBVIOUS
  <2>1. new \in SUBSET Messages /\ Deliverable(R, M, A, D) /\ new \cap DOMAIN R = {}
    BY <1>5, <1>6 DEF Invariant, DeliveryInv
  <2>2. /\ S = [m \in DOMAIN R \cup new |-> IF m \in new THEN Fresh ELSE R[m]]
        /\ N = [m \in DOMAIN R \cup new |-> IF m \in new THEN 0 ELSE M[m]]
        /\ B = [m \in DOMAIN R \cup new |-> IF m \in new THEN 0 ELSE A[m]]
    BY <1>7
  <2>3. Adds(R, M, A, new, S, N, B)
    <3>1. R \in [DOMAIN R -> Rows] /\ M \in [DOMAIN R -> Nat] /\ A \in [DOMAIN R -> Nat]
      BY <2>1, TableOpened DEF Deliverable, Tables
    <3>2. Fresh \in Rows
      BY FanoutAssumption DEF Fresh, Rows
    <3> QED BY <2>1, <2>2, <3>1, <3>2 DEF Adds
  <2>4. Deliverable(S, N, B, D)
    BY <2>1, <2>3, MessagesAdded
  <2> QED BY <1>8, <2>4 DEF DeliveryInv
<1>10. ChangesInv'
  <2>1. before \o held \in Seq(Seen) /\ Len(before \o held) = L + K
    BY <1>2
  <2>2. AllNews(on, 0, before \o held) = DOMAIN outbox \cup new
    <3>1. AllNews(on, 0, before \o held) = AllNews(on, 0, before) \cup AllNews(on, 0 + L, held)
      BY <1>2, AllNewsJoined
    <3>2. 0 + L = L
      OBVIOUS
    <3> QED BY <1>4, <3>1, <3>2
  <2>3. /\ NoTx \in [open : BOOLEAN, row : RequestRow, changes : Seq(Seen),
                     emitted : SUBSET Messages]
        /\ Len(NoTx.changes) = 0 /\ NoTx.emitted = {} /\ DOMAIN NoTx.changes = {}
    BY DEF NoTx, RequestRow
  <2>4. NoTx.emitted = AllNews(on, Len(log'), NoTx.changes)
    BY <2>3 DEF AllNews
  <2>5. L + K <= MaxEvents /\ tx.row \in RequestRow /\ on \in Deployments
    BY <1>1, <1>2 DEF Invariant, ChangesInv
  <2>6. Len(log') + Len(NoTx.changes) <= MaxEvents
    BY <1>8, <2>1, <2>3, <2>5
  <2> QED BY <1>7, <1>8, <2>1, <2>2, <2>3, <2>4, <2>5, <2>6 DEF ChangesInv
<1>11. DevicesInv'
  BY <1>8 DEF Invariant, DevicesInv
<1> QED BY <1>9, <1>10, <1>11 DEF Invariant

LEMMA HandlersKeep ==
    ASSUME Invariant, Handlers
    PROVE  Invariant'
<1>1. Row \in RequestRow /\ ChangesInv
  BY RowTyped DEF Invariant
<1>2. CASE Create
  <2> DEFINE r == [status |-> "NEW", partner |-> NoPartner]
  <2>1. r \in RequestRow
    BY DEF RequestRow, RequestStatus, PreAcceptance
  <2> HIDE DEF r
  <2>2. Changed(r, <<Change("ENTERED", r)>>)
    BY <1>2 DEF Create, r
  <2> QED BY <1>1, <2>1, <2>2, RowTyped, ChangedKeeps
<1>3. ASSUME NEW s \in RequestStatus, Enter(s) PROVE Invariant'
  <2> DEFINE r == [Row EXCEPT !.status = s]
  <2>1. r \in RequestRow
    BY <1>1 DEF RequestRow
  <2>2. Changed(r, <<Change("ENTERED", r)>>)
    BY <1>3 DEF Enter
  <2> HIDE DEF r
  <2> QED BY <1>1, <2>1, <2>2, RowTyped, ChangedKeeps
<1>4. ASSUME NEW p \in Partners, Choose(p) PROVE Invariant'
  <2> DEFINE r == [Row EXCEPT !.partner = p]
  <2>1. r \in RequestRow
    BY <1>1 DEF RequestRow
  <2>2. Changed(r, << >>)
    BY <1>4 DEF Choose
  <2>3. << >> \in Seq(Seen)
    OBVIOUS
  <2> HIDE DEF r
  <2> QED BY <2>1, <2>2, <2>3, ChangedKeeps
<1>5. CASE Reschedule
  <2>1. Changed(Row, <<Change("RESCHEDULED", Row)>>)
    BY <1>5 DEF Reschedule
  <2> QED BY <1>1, <2>1, RowTyped, ChangedKeeps
<1>6. CASE Escalate
  <2>1. Changed(Row, <<Change("ESCALATED", Row)>>)
    BY <1>6 DEF Escalate
  <2> QED BY <1>1, <2>1, RowTyped, ChangedKeeps
<1>7. CASE Rollback
  <2>1. /\ tx' = NoTx
        /\ UNCHANGED <<on, request, log, outbox, subs, dead, drain, mails, aborts>>
    BY <1>7 DEF Rollback
  <2>2. PICK L \in Nat, K \in Nat : L = Len(log) /\ K = Len(tx.changes)
    BY <1>1 DEF ChangesInv
  <2>3. /\ NoTx \in [open : BOOLEAN, row : RequestRow, changes : Seq(Seen),
                     emitted : SUBSET Messages]
        /\ Len(NoTx.changes) = 0 /\ NoTx.emitted = {} /\ DOMAIN NoTx.changes = {}
    BY DEF NoTx, RequestRow
  <2>4. NoTx.emitted = AllNews(on, Len(log), NoTx.changes)
    BY <2>3 DEF AllNews
  <2>5. L + K <= MaxEvents
    BY <1>1, <2>2 DEF ChangesInv
  <2>6. L + 0 <= MaxEvents
    BY <2>5, FanoutAssumption
  <2>7. ChangesInv'
    BY <1>1, <2>1, <2>2, <2>3, <2>4, <2>6 DEF ChangesInv
  <2>8. DeliveryInv' /\ DevicesInv'
    BY <2>1 DEF Invariant, DeliveryInv, DevicesInv
  <2> QED BY <2>7, <2>8 DEF Invariant
<1>8. CASE Commit
  BY <1>8, CommitKeeps
<1> QED BY <1>2, <1>3, <1>4, <1>5, <1>6, <1>7, <1>8 DEF Handlers

---------------------------------------------------------------------------
LEMMA PostKeeps ==
    ASSUME Invariant, NEW m \in DOMAIN outbox, m.kind # "notification", NEW ok \in BOOLEAN,
           Post(m, ok)
    PROVE  Invariant'
<1> PICK R, M, A, D : R = outbox /\ M = mails /\ A = aborts /\ D = drain
  OBVIOUS
<1>1. Deliverable(R, M, A, D) /\ m \in DOMAIN R
  BY DEF Invariant, DeliveryInv
<1>2. R \in [DOMAIN R -> Rows]
  BY <1>1, TableOpened DEF Deliverable, Tables
<1>3. R[m].state = "PENDING" /\ R[m].attempts < MaxAttempts
  BY <1>1 DEF Post, Deliverable, Counted
<1> DEFINE r == IF ok THEN Done(Tried(R[m])) ELSE Again(Tried(R[m]))
<1>4. outbox' = [R EXCEPT ![m] = r]
  BY DEF Post
<1>5. r \in Rows /\ (r.state = "PENDING" => r.attempts < MaxAttempts)
  <2>1. Tried(R[m]) \in Rows
    BY <1>1, <1>2, <1>3, Marked
  <2> QED BY <2>1, Marked
<1> HIDE DEF r
<1>6. Deliverable(outbox', M, A, D)
  BY <1>1, <1>4, <1>5, MessagePosted
<1>7. UNCHANGED <<on, changes, subs, dead, drain, mails, aborts>> /\ DOMAIN outbox' = DOMAIN outbox
  BY <1>4 DEF Post
<1>8. ChangesInv'
  BY <1>7, NothingAnnounced DEF Invariant
<1>9. DeliveryInv' /\ DevicesInv'
  BY <1>6, <1>7 DEF Invariant, DeliveryInv, DevicesInv
<1> QED BY <1>8, <1>9 DEF Invariant

\* A worker's next batch deletes what it deleted before and what has expired.
LEMMA ReplacedKeeps ==
    ASSUME Invariant, NEW w \in Workers, NEW b \in Batch,
           drain' = [drain EXCEPT ![w] = b], UNCHANGED <<on, changes, outbox, subs, dead, aborts>>,
           DOMAIN drain[w].mem \subseteq DOMAIN b.mem,
           \A v \in Workers \ {w} : DOMAIN drain[v].mem \cap DOMAIN b.mem = {},
           mails' \in [DOMAIN outbox -> Nat],
           \A m \in DOMAIN outbox \ DOMAIN b.mem : mails'[m] = mails[m],
           \A m \in DOMAIN b.mem : mails'[m] <= 1 + aborts[m],
           Sound(b, outbox, mails', aborts),
           \A d \in b.gone \ drain[w].gone : d[2] \in dead
    PROVE  Invariant'
<1> PICK R, M, A, D, N, E :
        R = outbox /\ M = mails /\ A = aborts /\ D = drain /\ N = mails' /\ E = drain'
  OBVIOUS
<1>1. Deliverable(R, M, A, D)
  BY DEF Invariant, DeliveryInv
<1>2. Deliverable(R, N, A, E)
  BY <1>1, BatchReplaced
<1>3. ChangesInv'
  BY NothingAnnounced DEF Invariant
<1>4. DeliveryInv'
  BY <1>2 DEF DeliveryInv
<1>5. E[w] = b /\ \A v \in Workers \ {w} : E[v] = D[v]
  BY <1>1 DEF Deliverable, Tables
<1>6. DevicesInv'
  BY <1>5 DEF Invariant, DevicesInv
<1> QED BY <1>3, <1>4, <1>6 DEF Invariant

LEMMA TakeKeeps ==
    ASSUME Invariant, NEW w \in Workers, NEW batch \in SUBSET Waiting, Claim(w, batch)
    PROVE  Invariant'
<1> PICK R, M, A, D : R = outbox /\ M = mails /\ A = aborts /\ D = drain
  OBVIOUS
<1>1. Deliverable(R, M, A, D)
  BY DEF Invariant, DeliveryInv
<1>2. R \in [DOMAIN R -> Rows] /\ DOMAIN R \subseteq Messages
  BY <1>1, TableOpened DEF Deliverable, Tables
<1>3. \A m \in batch : /\ m \in DOMAIN R /\ m.kind = "notification" /\ R[m].state = "PENDING"
                       /\ \A v \in Workers : m \notin DOMAIN D[v].mem
  BY DEF Waiting, Held
<1>4. \A m \in batch : R[m].attempts < MaxAttempts /\ M[m] <= A[m] /\ R[m] \in Rows
  BY <1>1, <1>2, <1>3 DEF Deliverable, Counted
<1> DEFINE mem == [m \in batch |-> Tried(R[m])]
           b == [Batch0 EXCEPT !.todo = batch, !.mem = mem]
<1>5. mem \in [batch -> Rows] /\ \A m \in batch : mem[m].state = "PENDING"
  BY <1>3, <1>4, Marked
<1>6. mem \in Table
  BY <1>2, <1>3, <1>5, TableMade
<1>7. /\ drain' = [D EXCEPT ![w] = b] /\ D[w] = Batch0
      /\ UNCHANGED <<on, changes, outbox, subs, dead, mails, aborts>>
  BY DEF Claim
<1> HIDE DEF mem
<1>8. b \in Batch /\ b.mem = mem /\ b.todo = batch /\ b.cur = {} /\ b.gone = {}
  BY <1>2, <1>3, <1>6, NoBatch DEF Batch, Batch0
<1> HIDE DEF b
<1>9. DOMAIN b.mem = batch
  BY <1>5, <1>8
<1>10. Sound(b, R, M, A)
  BY <1>3, <1>4, <1>5, <1>8, <1>9 DEF Sound
<1>11. M \in [DOMAIN R -> Nat] /\ A \in [DOMAIN R -> Nat]
  BY <1>1 DEF Deliverable, Tables
<1>12. \A m \in batch : M[m] <= 1 + A[m]
  BY <1>3, <1>4, <1>11
<1>13. DOMAIN D[w].mem = {}
  BY <1>7, NoBatch
<1> QED BY <1>3, <1>7, <1>8, <1>9, <1>10, <1>11, <1>12, <1>13, ReplacedKeeps

LEMMA SendKeeps ==
    ASSUME Invariant, NEW w \in Workers, NEW m \in drain[w].todo, Send(w, m)
    PROVE  Invariant'
<1> PICK R, M, A, b, N :
        R = outbox /\ M = mails /\ A = aborts /\ b = drain[w] /\ N = mails'
  OBVIOUS
<1>1. /\ drain \in [Workers -> Batch] /\ b \in Batch /\ Sound(b, R, M, A)
      /\ M \in [DOMAIN R -> Nat] /\ A \in [DOMAIN R -> Nat]
      /\ \A v \in Workers \ {w} : DOMAIN drain[v].mem \cap DOMAIN b.mem = {}
      /\ \A x \in DOMAIN R : M[x] <= 1 + A[x]
  BY DEF Invariant, DeliveryInv, Deliverable, Tables, Apart, Counted
<1>2. m \in DOMAIN b.mem /\ m \in DOMAIN R /\ M[m] <= A[m] /\ DOMAIN b.mem \subseteq DOMAIN R
  BY <1>1 DEF Sound
<1>3. /\ b.cur = {} /\ m \in b.todo
      /\ UNCHANGED <<on, changes, outbox, subs, dead, aborts>>
  BY DEF Send
<1>4. PICK contact \in Contacts(m) :
         \/ drain' = [drain EXCEPT ![w] = PutBack(b, m)] /\ N = M
         \/ /\ drain' = [drain EXCEPT ![w] = Pushing(b, m, Listed(w, PushOwner(m)))]
            /\ N = [M EXCEPT ![m] = Mailed(M[m], contact)]
  BY DEF Send
<1>5. CASE drain' = [drain EXCEPT ![w] = PutBack(b, m)] /\ N = M
  <2> PICK q : q = PutBack(b, m)
    OBVIOUS
  <2>1. q \in Batch /\ DOMAIN q.mem = DOMAIN b.mem /\ Sound(q, R, M, A) /\ q.gone = b.gone
    BY <1>1, <1>3, NoticePutBack
  <2>2. \A x \in DOMAIN q.mem : mails'[x] <= 1 + aborts[x]
    BY <1>1, <1>2, <1>5, <2>1
  <2>3. /\ mails' \in [DOMAIN outbox -> Nat] /\ Sound(q, outbox, mails', aborts)
        /\ \A x \in DOMAIN outbox \ DOMAIN q.mem : mails'[x] = mails[x]
        /\ drain' = [drain EXCEPT ![w] = q]
        /\ DOMAIN drain[w].mem \subseteq DOMAIN q.mem /\ q.gone \ drain[w].gone = {}
        /\ \A v \in Workers \ {w} : DOMAIN drain[v].mem \cap DOMAIN q.mem = {}
    BY <1>1, <1>5, <2>1
  <2> QED BY <1>3, <2>1, <2>2, <2>3, ReplacedKeeps
<1>6. CASE /\ drain' = [drain EXCEPT ![w] = Pushing(b, m, Listed(w, PushOwner(m)))]
           /\ N = [M EXCEPT ![m] = Mailed(M[m], contact)]
  <2>1. PICK devices \in SUBSET Devices : devices = Listed(w, PushOwner(m))
    BY DEF Listed, Invariant, DevicesInv
  <2>2. Mailed(M[m], contact) \in Nat /\ Mailed(M[m], contact) <= 1 + A[m]
    <3>1. M[m] \in Nat /\ A[m] \in Nat
      BY <1>1, <1>2
    <3> QED BY <1>2, <3>1 DEF Mailed
  <2>3. /\ N \in [DOMAIN R -> Nat] /\ N[m] <= 1 + A[m]
        /\ \A x \in DOMAIN R \ {m} : N[x] = M[x]
    BY <1>1, <1>2, <1>6, <2>2
  <2> PICK q : q = Pushing(b, m, devices)
    OBVIOUS
  <2>4. q \in Batch /\ DOMAIN q.mem = DOMAIN b.mem /\ Sound(q, R, N, A) /\ q.gone = b.gone
    BY <1>1, <1>3, <2>3, NoticePushed
  <2>5. \A x \in DOMAIN q.mem : mails'[x] <= 1 + aborts[x]
    BY <1>1, <1>2, <2>3, <2>4
  <2>6. /\ mails' \in [DOMAIN outbox -> Nat] /\ Sound(q, outbox, mails', aborts)
        /\ \A x \in DOMAIN outbox \ DOMAIN q.mem : mails'[x] = mails[x]
        /\ drain' = [drain EXCEPT ![w] = q]
        /\ DOMAIN drain[w].mem \subseteq DOMAIN q.mem /\ q.gone \ drain[w].gone = {}
        /\ \A v \in Workers \ {w} : DOMAIN drain[v].mem \cap DOMAIN q.mem = {}
    BY <1>1, <1>2, <1>6, <2>1, <2>3, <2>4
  <2> QED BY <1>3, <2>4, <2>5, <2>6, ReplacedKeeps
<1> QED BY <1>4, <1>5, <1>6

LEMMA PushKeeps ==
    ASSUME Invariant, NEW w \in Workers, NEW d \in drain[w].left, Push(w, d)
    PROVE  Invariant'
<1> PICK R, M, A, b : R = outbox /\ M = mails /\ A = aborts /\ b = drain[w]
  OBVIOUS
<1>1. /\ drain \in [Workers -> Batch] /\ b \in Batch /\ Sound(b, R, M, A)
      /\ M \in [DOMAIN R -> Nat] /\ A \in [DOMAIN R -> Nat]
      /\ \A v \in Workers \ {w} : DOMAIN drain[v].mem \cap DOMAIN b.mem = {}
      /\ \A x \in DOMAIN R : M[x] <= 1 + A[x]
  BY DEF Invariant, DeliveryInv, Deliverable, Tables, Apart, Counted
<1>2. PICK deleted \in BOOLEAN : deleted = (Expired(d) /\ d \in subs)
  OBVIOUS
<1>3. /\ drain' = [drain EXCEPT ![w] = Passed(b, d, deleted)]
      /\ UNCHANGED <<on, changes, outbox, subs, dead, mails, aborts>>
  BY <1>2 DEF Push
<1>4. d \in Devices
  BY <1>1 DEF Batch
<1> PICK q : q = Passed(b, d, deleted)
  OBVIOUS
<1>5. /\ q \in Batch /\ DOMAIN q.mem = DOMAIN b.mem /\ Sound(q, R, M, A)
      /\ q.gone \subseteq b.gone \cup (IF deleted THEN {d} ELSE {})
  BY <1>1, <1>4, DevicePassed
<1>6. \A x \in q.gone \ b.gone : x[2] \in dead
  BY <1>2, <1>5 DEF Expired
<1>7. \A x \in DOMAIN q.mem : M[x] <= 1 + A[x]
  BY <1>1, <1>5 DEF Sound
<1> QED BY <1>1, <1>3, <1>5, <1>6, <1>7, ReplacedKeeps

LEMMA FinishKeeps ==
    ASSUME Invariant, NEW w \in Workers, Finish(w)
    PROVE  Invariant'
<1> PICK R, M, A, D, S, E :
        /\ R = outbox /\ M = mails /\ A = aborts /\ D = drain
        /\ S = outbox' /\ E = drain'
  OBVIOUS
<1>1. Deliverable(R, M, A, D)
  BY DEF Invariant, DeliveryInv
<1>2. /\ D[w].todo = {} /\ D[w].cur = {} /\ E = [D EXCEPT ![w] = Batch0]
      /\ S = [m \in DOMAIN R |-> IF m \in DOMAIN D[w].mem THEN D[w].mem[m] ELSE R[m]]
      /\ subs' = subs \ D[w].gone /\ UNCHANGED <<on, changes, dead, mails, aborts>>
  BY DEF Finish
<1>3. Deliverable(S, M, A, E)
  <2>1. R \in [DOMAIN R -> Rows]
    BY <1>1, TableOpened DEF Deliverable, Tables
  <2>2. D[w].mem \in [DOMAIN D[w].mem -> Rows]
    <3>1. D[w].mem \in Table
      BY <1>1 DEF Deliverable, Tables, Batch
    <3> QED BY <3>1, TableOpened
  <2>3. /\ S \in [DOMAIN R -> Rows]
        /\ \A m \in DOMAIN R : S[m] = IF m \in DOMAIN D[w].mem THEN D[w].mem[m] ELSE R[m]
    BY <1>2, <2>1, <2>2
  <2> QED BY <1>1, <1>2, <2>3, BatchCommitted
<1>4. ChangesInv'
  BY <1>2, NothingAnnounced DEF Invariant
<1>5. DeliveryInv'
  BY <1>2, <1>3 DEF DeliveryInv
<1>6. \A v \in Workers : E[v].gone \subseteq D[v].gone
  BY <1>1, <1>2 DEF Deliverable, Tables, Batch0
<1>7. DevicesInv'
  BY <1>2, <1>6 DEF Invariant, DevicesInv
<1> QED BY <1>4, <1>5, <1>7 DEF Invariant

LEMMA AbortKeeps ==
    ASSUME Invariant, NEW w \in Workers, Abort(w)
    PROVE  Invariant'
<1> PICK R, M, A, D, U, E :
        /\ R = outbox /\ M = mails /\ A = aborts /\ D = drain
        /\ U = aborts' /\ E = drain'
  OBVIOUS
<1>1. Deliverable(R, M, A, D)
  BY DEF Invariant, DeliveryInv
<1>2. /\ E = [D EXCEPT ![w] = Batch0]
      /\ U = [m \in DOMAIN A |-> IF m \in DOMAIN D[w].mem THEN A[m] + 1 ELSE A[m]]
      /\ UNCHANGED <<on, changes, outbox, subs, dead, mails>>
  BY DEF Abort, RolledBack
<1>3. Deliverable(R, M, U, E)
  <2>1. A \in [DOMAIN R -> Nat]
    BY <1>1 DEF Deliverable, Tables
  <2>2. Undoes(R, A, D, w, U)
    BY <2>1, <1>2 DEF Undoes
  <2> QED BY <1>1, <1>2, <2>2, BatchUndone
<1>4. ChangesInv'
  BY <1>2, NothingAnnounced DEF Invariant
<1>5. DeliveryInv'
  BY <1>2, <1>3 DEF DeliveryInv
<1>6. \A v \in Workers : E[v].gone \subseteq D[v].gone
  BY <1>1, <1>2 DEF Deliverable, Tables, Batch0
<1>7. DevicesInv'
  BY <1>2, <1>6 DEF Invariant, DevicesInv
<1> QED BY <1>4, <1>5, <1>7 DEF Invariant

\* The batch that is not the victim gets the row it waited for.
Frees(D, w, e, E) == E = [D EXCEPT ![w] = Passed(D[w], e, TRUE)]

LEMMA RowFreed ==
    ASSUME NEW R, NEW M, NEW A, NEW D, Deliverable(R, M, A, D),
           NEW w \in Workers, NEW e \in D[w].left, NEW E, Frees(D, w, e, E)
    PROVE  Deliverable(R, M, A, E) /\ E[w].gone \subseteq D[w].gone \cup {e}
<1> PICK own : own = D[w]
  OBVIOUS
<1> DEFINE p == [own EXCEPT !.left = @ \ {e}, !.gone = @ \cup {e}]
           b == Resting(p)
<1>1. /\ D \in [Workers -> Batch] /\ own \in Batch /\ e \in Devices
      /\ M \in [DOMAIN R -> Nat] /\ Sound(own, R, M, A)
  BY DEF Deliverable, Tables, Batch
<1>2. E = [D EXCEPT ![w] = b]
  BY DEF Frees, Passed
<1>3. /\ p \in Batch /\ p.mem = own.mem /\ p.cur = own.cur /\ p.todo = own.todo
      /\ p.gone = own.gone \cup {e}
  BY <1>1 DEF Batch
<1> HIDE DEF p
<1>4. Sound(p, R, M, A)
  BY <1>1, <1>3 DEF Sound
<1>5. /\ b \in Batch /\ DOMAIN b.mem = DOMAIN own.mem /\ Sound(b, R, M, A)
      /\ b.gone = own.gone \cup {e}
  BY <1>1, <1>3, <1>4, Rested
<1> HIDE DEF b
<1>6. /\ DOMAIN D[w].mem \subseteq DOMAIN b.mem
      /\ \A v \in Workers \ {w} : DOMAIN D[v].mem \cap DOMAIN b.mem = {}
      /\ \A m \in DOMAIN b.mem : M[m] <= 1 + A[m]
  BY <1>1, <1>5 DEF Deliverable, Apart, Counted, Sound
<1>7. Deliverable(R, M, A, E)
  BY <1>1, <1>2, <1>5, <1>6, BatchReplaced
<1>8. E[w] = b
  BY <1>1, <1>2
<1> QED BY <1>5, <1>7, <1>8

LEMMA DeadlockKeeps ==
    ASSUME Invariant, NEW w \in Workers, DeadlockVictim(w)
    PROVE  Invariant'
<1> PICK R, M, A, D, U, E :
        /\ R = outbox /\ M = mails /\ A = aborts /\ D = drain
        /\ U = aborts' /\ E = drain'
  OBVIOUS
<1>1. Deliverable(R, M, A, D) /\ D \in [Workers -> Batch]
  BY DEF Invariant, DeliveryInv, Deliverable, Tables
<1>2. PICK v \in Workers \ {w} : \E e \in D[v].left :
         Expired(e) /\ E = [D EXCEPT ![w] = Batch0, ![v] = Passed(@, e, TRUE)]
  BY DEF DeadlockVictim
<1> PICK e \in D[v].left :
         Expired(e) /\ E = [D EXCEPT ![w] = Batch0, ![v] = Passed(@, e, TRUE)]
  BY <1>2
<1>3. /\ U = [m \in DOMAIN A |-> IF m \in DOMAIN D[w].mem THEN A[m] + 1 ELSE A[m]]
      /\ UNCHANGED <<on, changes, outbox, subs, dead, mails>>
  BY DEF DeadlockVictim, RolledBack
<1> PICK C : C = [D EXCEPT ![w] = Batch0]
  OBVIOUS
<1>4. Deliverable(R, M, U, C)
  <2>1. A \in [DOMAIN R -> Nat]
    BY <1>1 DEF Deliverable, Tables
  <2>2. Undoes(R, A, D, w, U)
    BY <2>1, <1>3 DEF Undoes
  <2> QED BY <1>1, <2>2, BatchUndone
<1>5. /\ C \in [Workers -> Batch] /\ C[v] = D[v]
      /\ \A x \in Workers \ {v, w} : C[x] = D[x]
      /\ C[w] = Batch0
  BY <1>1, NoBatch
<1>6. Frees(C, v, e, E)
  BY <1>1, <1>5 DEF Frees
<1>7. e \in C[v].left /\ v \in Workers
  BY <1>5
<1>8. Deliverable(R, M, U, E) /\ E[v].gone \subseteq C[v].gone \cup {e}
  BY <1>4, <1>6, <1>7, RowFreed
<1>9. ChangesInv'
  BY <1>3, NothingAnnounced DEF Invariant
<1>10. DeliveryInv'
  BY <1>3, <1>8 DEF DeliveryInv
<1>11. \A x \in Workers : E[x].gone \subseteq D[x].gone \cup (IF x = v THEN {e} ELSE {})
  <2>1. Batch0.gone = {}
    BY DEF Batch0
  <2> QED BY <1>5, <1>6, <1>8, <2>1 DEF Frees
<1>12. DevicesInv'
  BY <1>2, <1>3, <1>11 DEF Invariant, DevicesInv, Expired
<1> QED BY <1>9, <1>10, <1>12 DEF Invariant

LEMMA BrowsersKeep ==
    ASSUME Invariant, Browsers
    PROVE  Invariant'
<1>1. PICK d \in Devices : Subscribe(d) \/ Unsubscribe(d) \/ Expire(d[2])
  BY DEF Browsers
<1>2. /\ UNCHANGED <<on, changes, outbox, drain, mails, aborts>>
      /\ subs' \subseteq subs \cup {d} /\ dead \subseteq dead' /\ dead' \subseteq dead \cup {d[2]}
  BY <1>1 DEF Subscribe, Unsubscribe, Expire
<1>3. ChangesInv'
  BY <1>2, NothingAnnounced DEF Invariant
<1>4. DeliveryInv' /\ DevicesInv'
  BY <1>2 DEF Invariant, DeliveryInv, DevicesInv
<1> QED BY <1>3, <1>4 DEF Invariant

LEMMA Beginning == Init => Invariant
<1> SUFFICES ASSUME Init PROVE Invariant
  OBVIOUS
<1>1. request \in RequestRow
  BY FanoutAssumption DEF Init, RequestRow
<1>2. /\ NoTx \in [open : BOOLEAN, row : RequestRow, changes : Seq(Seen), emitted : SUBSET Messages]
      /\ Len(NoTx.changes) = 0 /\ NoTx.emitted = {} /\ DOMAIN NoTx.changes = {}
  BY DEF NoTx, RequestRow
<1>3. << >> \in Seq(Seen) /\ Len(<< >>) = 0 /\ DOMAIN << >> = {}
  OBVIOUS
<1>4. \A n \in Nat : AllNews(on, n, << >>) = {}
  BY <1>3 DEF AllNews
<1>5. tx = NoTx /\ log = << >> /\ outbox = << >> /\ on \in Deployments
  BY DEF Init
<1>6. NoTx.changes = << >>
  BY DEF NoTx
<1>7. 0 + 0 <= MaxEvents /\ 0 \in Nat
  BY FanoutAssumption
<1>8. ChangesInv
  BY <1>1, <1>2, <1>3, <1>4, <1>5, <1>6, <1>7 DEF ChangesInv
<1>9. outbox \in Table /\ DOMAIN outbox = {}
  <2>1. << >> \in [{} -> Rows]
    OBVIOUS
  <2> QED BY <1>3, <1>5, <2>1, TableMade
<1>10. mails \in [{} -> Nat] /\ aborts \in [{} -> Nat]
  BY DEF Init
<1>11. /\ drain \in [Workers -> Batch] /\ \A w \in Workers : drain[w] = Batch0
  BY NoBatch DEF Init
<1>12. DeliveryInv
  BY <1>9, <1>10, <1>11, NoBatch DEF DeliveryInv, Deliverable, Tables, Apart
<1>13. DevicesInv
  BY <1>11 DEF Init, DevicesInv, Batch0
<1> QED BY <1>8, <1>12, <1>13 DEF Invariant

LEMMA StepKeeps == Invariant /\ [Next]_vars => Invariant'
<1> SUFFICES ASSUME Invariant, [Next]_vars PROVE Invariant'
  OBVIOUS
<1>1. CASE Handlers
  BY <1>1, HandlersKeep
<1>2. ASSUME NEW m \in DOMAIN outbox, DrainWebhook(m) \/ DrainCallback(m) PROVE Invariant'
  <2>1. PICK ok \in BOOLEAN : Post(m, ok)
    BY <1>2 DEF DrainWebhook, DrainCallback, Heard
  <2>2. m.kind # "notification"
    BY <1>2 DEF DrainWebhook, DrainCallback
  <2> QED BY <2>1, <2>2, PostKeeps
<1>3. ASSUME NEW w \in Workers, Take(w) PROVE Invariant'
  BY <1>3, TakeKeeps DEF Take
<1>4. ASSUME NEW w \in Workers, Work(w) PROVE Invariant'
  BY <1>4, SendKeeps, PushKeeps, FinishKeeps, DeadlockKeeps DEF Work
<1>5. ASSUME NEW w \in Workers, Abort(w) PROVE Invariant'
  BY <1>5, AbortKeeps
<1>6. CASE Browsers
  BY <1>6, BrowsersKeep
<1>7. CASE UNCHANGED vars
  <2>1. ChangesInv'
    BY <1>7, NothingAnnounced DEF Invariant, vars
  <2>2. DeliveryInv' /\ DevicesInv'
    BY <1>7 DEF Invariant, DeliveryInv, DevicesInv, vars
  <2> QED BY <2>1, <2>2 DEF Invariant
<1> QED BY <1>1, <1>2, <1>3, <1>4, <1>5, <1>6, <1>7 DEF Next

LEMMA AlwaysInvariant == Spec => []Invariant
BY Beginning, StepKeeps, PTL DEF Spec

---------------------------------------------------------------------------
\* Rows, messages and batches keep their types, the log its bound and the counts of
\* mails and of roll-backs their messages; a drain has one notice at work.
THEOREM TypeCorrect == Spec => []TypeOK
<1>1. Invariant => TypeOK
  <2> SUFFICES ASSUME Invariant PROVE TypeOK
    OBVIOUS
  <2>1. /\ on \in Deployments /\ request \in RequestRow /\ tx.row \in RequestRow
        /\ Len(log) + Len(tx.changes) <= MaxEvents
    BY DEF Invariant, ChangesInv
  <2>2. /\ outbox \in Table /\ DOMAIN mails = DOMAIN outbox /\ DOMAIN aborts = DOMAIN outbox
        /\ drain \in [Workers -> Batch]
    BY DEF Invariant, DeliveryInv, Deliverable, Tables
  <2>3. \A m \in DOMAIN outbox : outbox[m] \in Rows
    BY <2>2, TableOpened
  <2>4. subs \subseteq Devices /\ dead \subseteq {d[2] : d \in Devices}
    BY DEF Invariant, DevicesInv
  <2>5. ASSUME NEW w \in Workers, NEW b, b = drain[w]
        PROVE  /\ DOMAIN b.mem \subseteq DOMAIN outbox
               /\ \A m \in DOMAIN b.mem : b.mem[m] \in Rows
               /\ b.todo \subseteq DOMAIN b.mem /\ b.cur \subseteq DOMAIN b.mem
               /\ Cardinality(b.cur) <= 1
               /\ b.left \cup b.gone \subseteq Devices
    <3>1. b \in Batch /\ Sound(b, outbox, mails, aborts)
      BY <2>2, <2>5 DEF Invariant, DeliveryInv, Deliverable
    <3>2. \A m \in DOMAIN b.mem : b.mem[m] \in Rows
      BY <3>1, TableOpened DEF Batch
    <3>3. Cardinality(b.cur) <= 1
      <4>1. b.cur = {} \/ \E m : b.cur = {m}
        BY <3>1 DEF Sound
      <4>2. CASE b.cur = {}
        BY <4>2, FS_EmptySet
      <4>3. ASSUME NEW m, b.cur = {m} PROVE Cardinality(b.cur) = 1
        BY <4>3, FS_Singleton
      <4> QED BY <4>1, <4>2, <4>3
    <3> QED BY <3>1, <3>2, <3>3 DEF Sound, Batch
  <2> QED BY <2>1, <2>2, <2>3, <2>4, <2>5 DEF TypeOK
<1> QED BY <1>1, AlwaysInvariant, PTL

\* The messages in the outbox are those of the committed changes, one per kind and
\* addressee: emit_event, emit_notifications and emit_concierge_status_update write in
\* the transaction of the change.
THEOREM AnnouncedOnceHolds == Spec => []AnnouncedOnce
<1>1. Invariant => AnnouncedOnce
  BY AnnouncedNews DEF Invariant, ChangesInv
<1> QED BY <1>1, AlwaysInvariant, PTL

\* A notice goes out by e-mail once, and once more for every batch with it that was
\* rolled back: what drain_notification_batch puts back was not mailed.
THEOREM MailNotRepeatedHolds == Spec => []MailNotRepeated
<1>1. Invariant => MailNotRepeated
  BY DEF Invariant, DeliveryInv, Deliverable, Tables, Counted, MailNotRepeated
<1> QED BY <1>1, AlwaysInvariant, PTL

\* A drain deletes devices that the push service has given up and no other; a live
\* one goes when its owner unsubscribes.
THEOREM LiveDevicesKeptHolds == Spec => LiveDevicesKept
<1> DEFINE Kept == \A d \in subs \ subs' : d[2] \in dead \/ drain' = drain
<1>1. Invariant /\ [Next]_vars => [Kept]_vars
  <2> SUFFICES ASSUME Invariant, [Next]_vars, NEW d \in subs \ subs'
               PROVE  d[2] \in dead \/ drain' = drain
    OBVIOUS
  <2>1. CASE subs' = subs
    BY <2>1
  <2>2. ASSUME NEW w \in Workers, Finish(w) PROVE d[2] \in dead
    BY <2>2 DEF Finish, Invariant, DevicesInv
  <2>3. CASE Browsers
    BY <2>3 DEF Browsers, Subscribe, Unsubscribe, Expire
  <2>4. CASE Handlers
    <3>1. subs' = subs
      BY <2>4 DEF Handlers, Create, Enter, Choose, Reschedule, Escalate, Changed, Rollback, Commit
    <3> QED BY <3>1
  <2>5. ASSUME NEW m \in DOMAIN outbox, DrainWebhook(m) \/ DrainCallback(m) PROVE subs' = subs
    BY <2>5 DEF DrainWebhook, DrainCallback, Post
  <2>6. ASSUME NEW w \in Workers, Take(w) \/ Abort(w) PROVE subs' = subs
    BY <2>6 DEF Take, Claim, Abort, RolledBack
  <2>7. ASSUME NEW w \in Workers, Work(w), ~Finish(w) PROVE subs' = subs
    BY <2>7 DEF Work, Send, Push, DeadlockVictim, RolledBack
  <2>8. CASE UNCHANGED vars
    BY <2>8 DEF vars
  <2> QED BY <2>1, <2>2, <2>3, <2>4, <2>5, <2>6, <2>7, <2>8 DEF Next, Work
<1>2. Spec => [][Kept]_vars
  BY <1>1, AlwaysInvariant, PTL DEF Spec
<1> QED BY <1>2 DEF LiveDevicesKept
====
