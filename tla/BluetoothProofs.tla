---------------------------- MODULE BluetoothProofs ----------------------------
(***************************************************************************)
(* Theorems about Bluetooth, for all nodes, sockets, pools and bounds: the *)
(* types, one connection and one job of a kind for each peer, and the      *)
(* order of the frames.                                                    *)
(*                                                                         *)
(* The pool of a node never holds a job twice, and the phase of a socket   *)
(* says which jobs there may be for it (JobsFit).  What one end wrote to a *)
(* socket is a line: what the other has read, what is in the stream and    *)
(* what waits to be written, with rising numbers and each head followed by *)
(* its body (Line); no frame is in the lines of two sockets (Numbered).    *)
(* Nothing but the hello is written or read before an end is open (Hellos),*)
(* and while no link fails no read loses its place (Calm).                 *)
(***************************************************************************)
EXTENDS Bluetooth, SequenceTheorems, FiniteSetTheorems, TLAPS

-----------------------------------------------------------------------------
\* The jobs of a pool.
Distinct(pool) == \A i, j \in DOMAIN pool : pool[i] = pool[j] => i = j
In(pool, job) == \E i \in DOMAIN pool : pool[i] = job

JobsFit ==
    \A n \in Nodes : \A s \in Sockets :
        /\ In(jobs[n], Job("connect", s)) => n = Dialer[s] /\ phase[s][n] = "connecting"
        /\ In(jobs[n], Job("recv", s)) => phase[s][n] \in {"greeting", "open", "closed"}
        /\ In(jobs[n], Job("send", s)) => phase[s][n] \in {"hello", "open", "closed"}
        /\ phase[s][n] = "open" =>
              /\ In(jobs[n], Job("recv", s))
              /\ In(jobs[n], Job("send", s)) <=> outbox[s][n] # <<>>

\* The acceptor comes in when the dialer is connected.
PhasesFit ==
    \A s \in Sockets : \A n \in Nodes :
        /\ phase[s][Dialer[s]] \in {"unused", "connecting"} /\ n # Dialer[s]
              => phase[s][n] = "unused"
        /\ n \notin Ends(s) => phase[s][n] \in {"unused", "closed"}

OneForEach ==
    \A n \in Nodes :
        /\ \A s, t \in connections[n] : Other(s, n) = Other(t, n) => s = t
        /\ \A s \in Sockets :
              /\ s \in connections[n] <=> phase[s][n] = "open"
              /\ outbox[s][n] # <<>> => phase[s][n] = "open"

PoolInvariant ==
    /\ TypeOK
    /\ \A n \in Nodes : Distinct(jobs[n])
    /\ JobsFit
    /\ PhasesFit
    /\ OneForEach

-----------------------------------------------------------------------------
\* What an end wrote: rec was read by the other, str is in the stream, and out
\* is to be written; top is the number of the last frame.
Rising(q) == \A i, j \in 1..Len(q) : i < j => q[i] < q[j]

Paired(str) ==
    \A i \in 1..Len(str) :
        /\ str[i].part = "head" =>
              i + 1 \in 1..Len(str) /\ str[i + 1] = [frame |-> str[i].frame, part |-> "body"]
        /\ str[i].part = "body" /\ i > 1 =>
              str[i - 1] = [frame |-> str[i].frame, part |-> "head"]

Line(rec, str, out, top) ==
    /\ Rising(rec) /\ Paired(str) /\ Rising(out)
    /\ \A i, j \in 1..Len(str) :
          i < j /\ str[j].part = "head" => str[i].frame < str[j].frame
    /\ \A i \in 1..Len(rec), j \in 1..Len(str) : rec[i] < str[j].frame
    /\ \A i \in 1..Len(rec), k \in 1..Len(out) : rec[i] < out[k]
    /\ \A j \in 1..Len(str), k \in 1..Len(out) : str[j].frame < out[k]
    /\ \A i \in 1..Len(rec) : rec[i] \in 1..top
    /\ \A j \in 1..Len(str) : str[j].frame \in 0..top
    /\ \A k \in 1..Len(out) : out[k] \in 1..top

Numbers(rec, str, out) ==
    ({rec[i] : i \in 1..Len(rec)} \cup {str[j].frame : j \in 1..Len(str)}
        \cup {out[k] : k \in 1..Len(out)}) \ {Hello}

NumbersOf(s, m) == Numbers(received[s][Other(s, m)], stream[s][m], outbox[s][m])

LineOf(s, m) ==
    Line(received[s][Other(s, m)], stream[s][m], outbox[s][m], sent[m][Other(s, m)])

Lines == \A s \in Sockets : \A m \in Ends(s) : LineOf(s, m)

Numbered ==
    \A s, t \in Sockets : \A m \in Ends(s) \cap Ends(t) :
        s # t /\ Other(s, m) = Other(t, m) => NumbersOf(s, m) \cap NumbersOf(t, m) = {}

\* What is written and read while a connection is made: the hellos.  The writer
\* is in phase pm, the reader in phase po and has read rec, str is in the stream.
HeadOfHello == [frame |-> Hello, part |-> "head"]

HelloAt(pm, po, rec, left, str) ==
    /\ pm \in {"unused", "connecting", "backlog", "hello"} => str = <<>>
    /\ po \notin {"open", "closed"} =>
          /\ rec = <<>> /\ left = 0
          /\ str # <<>> => Head(str) = HeadOfHello
          /\ pm \in {"greeting", "open"} => str # <<>>
    /\ po = "open" => \A j \in 1..Len(str) : str[j].frame # Hello
    /\ po = "open" \/ rec # <<>> => pm \in {"greeting", "open", "closed"}

HelloOf(s, m) ==
    HelloAt(phase[s][m], phase[s][Other(s, m)], received[s][Other(s, m)],
            want[s][Other(s, m)], stream[s][m])

Hellos == \A s \in Sockets : \A m \in Ends(s) : HelloOf(s, m)

\* Without failures only a handshake ends a connection.
CalmAt(pm, po, rec, left, str, numbers) ==
    /\ left = 0
    /\ str # <<>> => Head(str).part = "head"
    /\ rec # <<>> => po = "open"
    /\ numbers # {} => pm = "open" \/ po = "closed"

CalmOf(s, m) ==
    CalmAt(phase[s][m], phase[s][Other(s, m)], received[s][Other(s, m)],
           want[s][Other(s, m)], stream[s][m], NumbersOf(s, m))

Calm ==
    failures = 0 => cut = {} /\ \A s \in Sockets : \A m \in Ends(s) : CalmOf(s, m)

DataInvariant == Lines /\ Numbered /\ Hellos /\ Calm

BluetoothInvariant == PoolInvariant /\ DataInvariant

-----------------------------------------------------------------------------
(***************************************************************************)
(* Sockets and pools.                                                      *)
(***************************************************************************)

\* A socket has two ends.
LEMMA TwoEnds ==
    ASSUME NEW s \in Sockets, NEW n
    PROVE  /\ Ends(s) \subseteq Nodes /\ Dialer[s] \in Ends(s) /\ Acceptor[s] \in Ends(s)
           /\ Dialer[s] # Acceptor[s]
           /\ Other(s, n) \in Ends(s) /\ Other(s, n) # n
           /\ n \in Ends(s) => Other(s, Other(s, n)) = n
           /\ n \in Ends(s) => \A m \in Ends(s) : m = n \/ m = Other(s, n)
<1>1. /\ Ends(s) \subseteq Nodes /\ Dialer[s] \in Ends(s) /\ Acceptor[s] \in Ends(s)
      /\ Dialer[s] # Acceptor[s]
      /\ \A m \in Ends(s) : m = Dialer[s] \/ m = Acceptor[s]
  BY BluetoothAssumption DEF Ends
<1>2. ASSUME NEW q PROVE Other(s, q) \in Ends(s) /\ Other(s, q) # q
  <2>1. \E m \in Ends(s) : m # q
    BY <1>1
  <2>2. QED
    BY <2>1 DEF Other
<1>3. n \in Ends(s) => Other(s, Other(s, n)) = n
  BY <1>1, <1>2
<1>4. n \in Ends(s) => \A m \in Ends(s) : m = n \/ m = Other(s, n)
  BY <1>1, <1>2
<1>5. QED
  BY <1>1, <1>2, <1>3, <1>4

JobRecord == [kind : {"accept", "connect", "send", "recv"}, socket : Sockets \cup {None}]

\* Jobs are of one kind and for one socket.
LEMMA JobsDiffer ==
    /\ \A k, l, s, t : Job(k, s) = Job(l, t) <=> k = l /\ s = t
    /\ \A s \in Sockets : \A k \in {"connect", "send", "recv"} :
          Job(k, s) \in JobRecord /\ Job(k, s) # Accepting
    /\ Accepting \in JobRecord
  BY BluetoothAssumption DEF Job, Accepting, JobRecord

\* The pool of n loses the jobs old and gets the jobs new, none twice.
Pools(n, old, new) ==
    /\ jobs' \in [Nodes -> Seq(JobRecord)]
    /\ \A q \in Nodes : Distinct(jobs'[q])
    /\ \A q \in Nodes : q # n => jobs'[q] = jobs[q]
    /\ \A job : In(jobs'[n], job) <=> (In(jobs[n], job) /\ job \notin old) \/ job \in new

\* A job is taken out of a pool, wherever it is, and others come last.
LEMMA Replaced ==
    ASSUME NEW S, NEW pool \in Seq(S), Distinct(pool), NEW i \in DOMAIN pool,
           NEW next \in Seq(S), Distinct(next),
           \A x : In(next, x) => ~In(pool, x) \/ x = pool[i]
    PROVE  /\ RemoveAt(pool, i) \o next \in Seq(S)
           /\ Distinct(RemoveAt(pool, i) \o next)
           /\ \A x : In(RemoveAt(pool, i) \o next, x)
                       <=> (In(pool, x) /\ x # pool[i]) \/ In(next, x)
<1> DEFINE n == Len(pool)
           rest == RemoveAt(pool, i)
<1>1. n \in Nat /\ i \in 1..n /\ DOMAIN pool = 1..n
  OBVIOUS
<1> HIDE DEF n
<1>2. /\ rest \in Seq(S) /\ Len(rest) = n - 1
      /\ \A k \in 1..(n - 1) : rest[k] = IF k < i THEN pool[k] ELSE pool[k + 1]
  <2> DEFINE u == SubSeq(pool, 1, i - 1)
             v == SubSeq(pool, i + 1, n)
  <2>1. /\ u \in Seq(S) /\ Len(u) = i - 1
        /\ \A k \in 1..(i - 1) : u[k] = pool[k]
    BY <1>1, SubSeqProperties DEF n
  <2>2. /\ v \in Seq(S) /\ Len(v) = n - i
        /\ \A k \in 1..(n - i) : v[k] = pool[i + k]
    <3>1. /\ v \in Seq(S)
          /\ Len(v) = IF i + 1 <= n THEN n - (i + 1) + 1 ELSE 0
          /\ \A k \in 1..(n - (i + 1) + 1) : v[k] = pool[(i + 1) + k - 1]
      BY <1>1, SubSeqProperties DEF n
    <3> HIDE DEF v
    <3>2. Len(v) = n - i
      BY <3>1, <1>1
    <3>3. \A k \in 1..(n - i) : k \in 1..(n - (i + 1) + 1) /\ (i + 1) + k - 1 = i + k
      BY <1>1
    <3>4. QED
      BY <3>1, <3>2, <3>3
  <2>3. rest = u \o v
    BY DEF RemoveAt, n
  <2> HIDE DEF u, v, rest
  <2>4. /\ rest \in Seq(S) /\ Len(rest) = (i - 1) + (n - i)
        /\ \A k \in 1..((i - 1) + (n - i)) :
              rest[k] = IF k <= i - 1 THEN u[k] ELSE v[k - (i - 1)]
    <3>1. /\ u \o v \in Seq(S) /\ Len(u \o v) = Len(u) + Len(v)
          /\ \A k \in 1..(Len(u) + Len(v)) :
                (u \o v)[k] = IF k <= Len(u) THEN u[k] ELSE v[k - Len(u)]
      BY <2>1, <2>2, ConcatProperties
    <3>2. QED
      BY <3>1, <2>1, <2>2, <2>3
  <2>5. ASSUME NEW k \in 1..(n - 1)
        PROVE  rest[k] = IF k < i THEN pool[k] ELSE pool[k + 1]
    <3>0. k \in 1..((i - 1) + (n - i))
      BY <1>1
    <3>1. CASE k < i
      BY <3>0, <3>1, <1>1, <2>1, <2>4
    <3>2. CASE ~(k < i)
      <4>1. k - (i - 1) \in 1..(n - i) /\ i + (k - (i - 1)) = k + 1
        BY <3>2, <1>1
      <4>2. rest[k] = v[k - (i - 1)]
        BY <3>0, <3>2, <1>1, <2>4
      <4>3. QED
        BY <4>1, <4>2, <3>2, <2>2
    <3>3. QED
      BY <3>1, <3>2
  <2>6. (i - 1) + (n - i) = n - 1
    BY <1>1
  <2>7. QED
    BY <2>4, <2>5, <2>6
<1> DEFINE m == Len(next)
           t == rest \o next
<1>3. m \in Nat /\ DOMAIN next = 1..m
  OBVIOUS
<1> HIDE DEF rest, m
<1>4. /\ t \in Seq(S) /\ DOMAIN t = 1..((n - 1) + m)
      /\ \A k \in 1..((n - 1) + m) : t[k] = IF k <= n - 1 THEN rest[k] ELSE next[k - (n - 1)]
  BY <1>1, <1>2, ConcatProperties DEF m
<1> HIDE DEF t
<1>5. \A k \in 1..(n - 1) : \E j \in 1..n :
         rest[k] = pool[j] /\ j # i /\ j = IF k < i THEN k ELSE k + 1
  BY <1>1, <1>2
<1>6. \A j \in 1..n : j # i => \E k \in 1..(n - 1) : rest[k] = pool[j]
  <2> SUFFICES ASSUME NEW j \in 1..n, j # i
               PROVE  \E k \in 1..(n - 1) : rest[k] = pool[j]
    OBVIOUS
  <2>1. CASE j < i
    BY <2>1, <1>1, <1>2
  <2>2. CASE j > i
    <3>1. j - 1 \in 1..(n - 1) /\ ~(j - 1 < i) /\ (j - 1) + 1 = j
      BY <2>2, <1>1
    <3>2. QED
      BY <3>1, <1>2
  <2>3. QED
    BY <2>1, <2>2, <1>1
<1>7. ASSUME NEW k \in 1..(n - 1), NEW l \in 1..(n - 1), rest[k] = rest[l]
      PROVE  k = l
  <2>1. PICK jk \in 1..n : rest[k] = pool[jk] /\ jk = IF k < i THEN k ELSE k + 1
    BY <1>5
  <2>2. PICK jl \in 1..n : rest[l] = pool[jl] /\ jl = IF l < i THEN l ELSE l + 1
    BY <1>5
  <2>3. jk = jl
    BY <2>1, <2>2, <1>1, <1>7 DEF Distinct
  <2>4. QED
    BY <2>1, <2>2, <2>3, <1>1
<1>8. \A k \in 1..(n - 1) : In(pool, rest[k]) /\ rest[k] # pool[i]
  BY <1>1, <1>5 DEF Distinct, In
<1>9. \A x : In(t, x) <=> (\E k \in 1..(n - 1) : rest[k] = x) \/ In(next, x)
  <2> SUFFICES ASSUME NEW x
               PROVE  In(t, x) <=> (\E k \in 1..(n - 1) : rest[k] = x) \/ In(next, x)
    OBVIOUS
  <2>1. ASSUME In(t, x) PROVE (\E k \in 1..(n - 1) : rest[k] = x) \/ In(next, x)
    <3>1. PICK k \in 1..((n - 1) + m) : t[k] = x
      BY <2>1, <1>4 DEF In
    <3>2. CASE k <= n - 1
      BY <3>1, <3>2, <1>1, <1>4
    <3>3. CASE ~(k <= n - 1)
      <4>1. k - (n - 1) \in 1..m
        BY <3>3, <1>1, <1>3
      <4>2. QED
        BY <4>1, <3>1, <3>3, <1>3, <1>4 DEF In
    <3>4. QED
      BY <3>2, <3>3
  <2>2. ASSUME NEW k \in 1..(n - 1), rest[k] = x PROVE In(t, x)
    <3>1. k \in 1..((n - 1) + m) /\ k <= n - 1
      BY <1>1, <1>3
    <3>2. QED
      BY <3>1, <2>2, <1>4 DEF In
  <2>3. ASSUME In(next, x) PROVE In(t, x)
    <3>1. PICK k \in 1..m : next[k] = x
      BY <2>3, <1>3 DEF In
    <3>2. /\ k + (n - 1) \in 1..((n - 1) + m) /\ ~(k + (n - 1) <= n - 1)
          /\ (k + (n - 1)) - (n - 1) = k
      BY <1>1, <1>3
    <3>3. t[k + (n - 1)] = x
      BY <3>1, <3>2, <1>4
    <3>4. QED
      BY <3>2, <3>3, <1>4 DEF In
  <2>4. QED
    BY <2>1, <2>2, <2>3
<1>10. \A x : (\E k \in 1..(n - 1) : rest[k] = x) <=> In(pool, x) /\ x # pool[i]
  BY <1>1, <1>6, <1>8 DEF In
<1>11. ASSUME NEW k \in DOMAIN t, NEW l \in DOMAIN t, t[k] = t[l], k < l
       PROVE  FALSE
  <2>1. CASE l <= n - 1
    BY <2>1, <1>1, <1>3, <1>4, <1>7, <1>11
  <2>2. CASE k <= n - 1 /\ ~(l <= n - 1)
    <3>1. k \in 1..(n - 1) /\ l - (n - 1) \in 1..m
      BY <2>2, <1>1, <1>3, <1>4
    <3>2. rest[k] = next[l - (n - 1)]
      BY <2>2, <1>4, <1>11
    <3>3. In(next, rest[k])
      BY <3>1, <3>2, <1>3 DEF In
    <3>4. QED
      BY <3>1, <3>3, <1>8
  <2>3. CASE ~(k <= n - 1)
    <3>1. /\ k - (n - 1) \in 1..m /\ l - (n - 1) \in 1..m /\ ~(l <= n - 1)
          /\ k - (n - 1) # l - (n - 1)
      BY <2>3, <1>1, <1>3, <1>4, <1>11
    <3>2. next[k - (n - 1)] = next[l - (n - 1)]
      BY <3>1, <2>3, <1>4, <1>11
    <3>3. QED
      BY <3>1, <3>2, <1>3 DEF Distinct
  <2>4. QED
    BY <2>1, <2>2, <2>3
<1>12. Distinct(t)
  <2>1. \A k \in DOMAIN t : k \in Int
    BY <1>4
  <2>2. QED
    BY <2>1, <1>11 DEF Distinct
<1>13. QED
  BY <1>4, <1>9, <1>10, <1>12 DEF t, rest

\* What is in short sequences.
LEMMA ShortPools ==
    /\ Distinct(<<>>) /\ \A x : ~In(<<>>, x)
    /\ \A a : Distinct(<<a>>) /\ \A x : In(<<a>>, x) <=> x = a
    /\ \A a, b : a # b => Distinct(<<a, b>>)
    /\ \A a, b, x : In(<<a, b>>, x) <=> x = a \/ x = b
  BY DEF In, Distinct

\* A job that ends leaves the pool.
LEMMA Finishing ==
    ASSUME PoolInvariant, NEW n \in Nodes, NEW job, NEW next \in Seq(JobRecord), NEW new,
           Finish(n, job, next), Distinct(next),
           \A x : In(next, x) <=> x \in new,
           \A x \in new : ~In(jobs[n], x) \/ x = job
    PROVE  Pools(n, {job}, new)
<1>1. jobs \in [Nodes -> Seq(JobRecord)] /\ \A q \in Nodes : Distinct(jobs[q])
  BY DEF PoolInvariant, TypeOK, JobRecord
<1>2. PICK i \in DOMAIN jobs[n] :
         jobs[n][i] = job /\ jobs' = [jobs EXCEPT ![n] = RemoveAt(jobs[n], i) \o next]
  BY DEF Finish
<1> PICK pool : pool = jobs[n]
  OBVIOUS
<1>3. /\ RemoveAt(pool, i) \o next \in Seq(JobRecord)
      /\ Distinct(RemoveAt(pool, i) \o next)
      /\ \A x : In(RemoveAt(pool, i) \o next, x)
                  <=> (In(pool, x) /\ x # pool[i]) \/ In(next, x)
  <2>1. pool \in Seq(JobRecord) /\ Distinct(pool) /\ i \in DOMAIN pool
    BY <1>1, <1>2
  <2>2. \A x : In(next, x) => ~In(pool, x) \/ x = pool[i]
    BY <1>2
  <2>3. QED
    BY <2>1, <2>2, Replaced
<1>4. jobs'[n] = RemoveAt(pool, i) \o next /\ \A q \in Nodes : q # n => jobs'[q] = jobs[q]
  BY <1>1, <1>2
<1>5. jobs' \in [Nodes -> Seq(JobRecord)]
  BY <1>1, <1>2, <1>3
<1>6. \A q \in Nodes : Distinct(jobs'[q])
  BY <1>1, <1>3, <1>4
<1>7. QED
  BY <1>2, <1>3, <1>4, <1>5, <1>6 DEF Pools

\* A job ends, and none, one or two come after it.
LEMMA FinishNone ==
    ASSUME PoolInvariant, NEW n \in Nodes, NEW job, Finish(n, job, <<>>)
    PROVE  Pools(n, {job}, {})
<1>1. /\ <<>> \in Seq(JobRecord) /\ Distinct(<<>>)
      /\ \A x : In(<<>>, x) <=> x \in {}
      /\ \A x \in {} : ~In(jobs[n], x) \/ x = job
  BY ShortPools
<1>2. QED
  BY <1>1, Finishing

\* Another takes its place.
LEMMA FinishOne ==
    ASSUME PoolInvariant, NEW n \in Nodes, NEW job, NEW job2 \in JobRecord,
           Finish(n, job, <<job2>>), ~In(jobs[n], job2) \/ job2 = job
    PROVE  Pools(n, {job}, {job2})
<1>1. /\ <<job2>> \in Seq(JobRecord) /\ Distinct(<<job2>>)
      /\ \A x : In(<<job2>>, x) <=> x \in {job2}
      /\ \A x \in {job2} : ~In(jobs[n], x) \/ x = job
  BY ShortPools
<1>2. QED
  BY <1>1, Finishing

\* It is submitted again, before another.
LEMMA FinishTwo ==
    ASSUME PoolInvariant, NEW n \in Nodes, NEW job \in JobRecord, NEW job2 \in JobRecord,
           Finish(n, job, <<job, job2>>), ~In(jobs[n], job2), job # job2
    PROVE  Pools(n, {job}, {job, job2})
<1>1. /\ <<job, job2>> \in Seq(JobRecord) /\ Distinct(<<job, job2>>)
      /\ \A x : In(<<job, job2>>, x) <=> x \in {job, job2}
      /\ \A x \in {job, job2} : ~In(jobs[n], x) \/ x = job
  BY ShortPools
<1>2. QED
  BY <1>1, Finishing

\* A new job comes last.
LEMMA Submitting ==
    ASSUME PoolInvariant, NEW n \in Nodes, NEW job \in JobRecord, ~In(jobs[n], job),
           jobs' = [jobs EXCEPT ![n] = Append(@, job)]
    PROVE  Pools(n, {}, {job})
<1>1. jobs \in [Nodes -> Seq(JobRecord)] /\ \A q \in Nodes : Distinct(jobs[q])
  BY DEF PoolInvariant, TypeOK, JobRecord
<1> PICK pool : pool = jobs[n]
  OBVIOUS
<1> PICK t : t = Append(pool, job)
  OBVIOUS
<1>2. pool \in Seq(JobRecord) /\ Distinct(pool) /\ ~In(pool, job)
  BY <1>1
<1>3. /\ t \in Seq(JobRecord) /\ DOMAIN t = 1..(Len(pool) + 1) /\ Len(pool) \in Nat
      /\ DOMAIN pool = 1..Len(pool) /\ t[Len(pool) + 1] = job
      /\ \A i \in 1..Len(pool) : t[i] = pool[i]
      /\ \A i \in 1..(Len(pool) + 1) : i \in 1..Len(pool) \/ i = Len(pool) + 1
      /\ \A i \in 1..Len(pool) : i \in 1..(Len(pool) + 1)
      /\ Len(pool) + 1 \in 1..(Len(pool) + 1)
  BY <1>2
<1>4. Distinct(t)
  BY <1>2, <1>3 DEF Distinct, In
<1>5. \A x : In(t, x) <=> In(pool, x) \/ x = job
  BY <1>3 DEF In
<1>6. jobs'[n] = t /\ \A q \in Nodes : q # n => jobs'[q] = jobs[q]
  BY <1>1
<1>7. jobs' \in [Nodes -> Seq(JobRecord)]
  BY <1>1, <1>3
<1>8. \A q \in Nodes : Distinct(jobs'[q])
  BY <1>1, <1>4, <1>6
<1>9. QED
  BY <1>5, <1>6, <1>7, <1>8 DEF Pools

\* A job goes on as another one.
LEMMA Continuing ==
    ASSUME PoolInvariant, NEW n \in Nodes, NEW job, NEW job2 \in JobRecord,
           In(jobs[n], job), ~In(jobs[n], job2),
           jobs' = [jobs EXCEPT ![n] = [i \in DOMAIN @ |-> IF @[i] = job THEN job2 ELSE @[i]]]
    PROVE  Pools(n, {job}, {job2})
<1>1. jobs \in [Nodes -> Seq(JobRecord)] /\ \A q \in Nodes : Distinct(jobs[q])
  BY DEF PoolInvariant, TypeOK, JobRecord
<1> PICK pool : pool = jobs[n]
  OBVIOUS
<1> PICK t : t = [i \in DOMAIN pool |-> IF pool[i] = job THEN job2 ELSE pool[i]]
  OBVIOUS
<1>2. pool \in Seq(JobRecord) /\ Distinct(pool) /\ ~In(pool, job2) /\ In(pool, job)
  BY <1>1
<1>3. /\ DOMAIN t = DOMAIN pool /\ DOMAIN pool = 1..Len(pool) /\ Len(pool) \in Nat
      /\ \A i \in DOMAIN pool : t[i] = IF pool[i] = job THEN job2 ELSE pool[i]
      /\ \A i \in DOMAIN pool : pool[i] \in JobRecord
  BY <1>2
<1>4. t \in Seq(JobRecord)
  <2>1. t \in [1..Len(pool) -> JobRecord]
    BY <1>3
  <2>2. QED
    BY <2>1, <1>3
<1>5. Distinct(t)
  BY <1>2, <1>3 DEF Distinct, In
<1>6. \A x : In(t, x) <=> (In(pool, x) /\ x # job) \/ x = job2
  BY <1>2, <1>3 DEF In
<1>7. jobs'[n] = t /\ \A q \in Nodes : q # n => jobs'[q] = jobs[q]
  BY <1>1
<1>8. jobs' \in [Nodes -> Seq(JobRecord)]
  BY <1>1, <1>4
<1>9. \A q \in Nodes : Distinct(jobs'[q])
  BY <1>1, <1>5, <1>7
<1>10. QED
  BY <1>6, <1>7, <1>8, <1>9 DEF Pools

-----------------------------------------------------------------------------
(***************************************************************************)
(* Steps of one end of a socket.                                           *)
(***************************************************************************)

\* What JobsFit says of one end.
Fits(s, n) ==
    /\ In(jobs[n], Job("connect", s)) => n = Dialer[s] /\ phase[s][n] = "connecting"
    /\ In(jobs[n], Job("recv", s)) => phase[s][n] \in {"greeting", "open", "closed"}
    /\ In(jobs[n], Job("send", s)) => phase[s][n] \in {"hello", "open", "closed"}
    /\ phase[s][n] = "open" =>
          /\ In(jobs[n], Job("recv", s))
          /\ In(jobs[n], Job("send", s)) <=> outbox[s][n] # <<>>

\* Other ends keep phase and outbox.
OnlyAt(s, n) ==
    \A t \in Sockets : \A q \in Nodes : t # s \/ q # n =>
        phase'[t][q] = phase[t][q] /\ outbox'[t][q] = outbox[t][q]

\* The jobs of other ends stay as they are.
LEMMA FitsElsewhere ==
    ASSUME PoolInvariant, NEW s \in Sockets, NEW n \in Nodes, NEW old, NEW new,
           Pools(n, old, new), OnlyAt(s, n), Fits(s, n)',
           \A x \in old \cup new : x = Accepting \/ \E k : x = Job(k, s)
    PROVE  JobsFit' /\ \A q \in Nodes : Distinct(jobs'[q])
<1>1. \A t \in Sockets : \A q \in Nodes : Fits(t, q)
  BY DEF PoolInvariant, JobsFit, Fits
<1>2. ASSUME NEW t \in Sockets, NEW q \in Nodes, t # s \/ q # n
      PROVE  Fits(t, q)'
  <2>1. phase'[t][q] = phase[t][q] /\ outbox'[t][q] = outbox[t][q]
    BY <1>2 DEF OnlyAt
  <2>2. \A k \in {"connect", "send", "recv"} :
           In(jobs'[q], Job(k, t)) <=> In(jobs[q], Job(k, t))
    <3>1. CASE q # n
      BY <3>1 DEF Pools
    <3>2. CASE q = n
      <4>1. \A k \in {"connect", "send", "recv"} : Job(k, t) \notin old \cup new
        BY <3>2, <1>2, JobsDiffer
      <4>2. QED
        BY <3>2, <4>1 DEF Pools
    <3>3. QED
      BY <3>1, <3>2
  <2>3. Fits(t, q)
    BY <1>1
  <2>4. QED
    BY <2>1, <2>2, <2>3 DEF Fits
<1>3. \A t \in Sockets : \A q \in Nodes : Fits(t, q)'
  BY <1>2
<1>4. JobsFit'
  BY <1>3 DEF JobsFit, Fits
<1>5. QED
  BY <1>4 DEF Pools

\* An end that is there moves on, and is registered exactly if it is open.
LEMMA EndMoves ==
    ASSUME PoolInvariant, NEW s \in Sockets, NEW n \in Ends(s), NEW old, NEW new,
           Pools(n, old, new), OnlyAt(s, n), Fits(s, n)',
           \A x \in old \cup new : x = Accepting \/ \E k : x = Job(k, s),
           phase[s][n] \notin {"unused", "connecting"}, phase'[s][n] \notin {"unused", "connecting"},
           \A q \in Nodes : q # n => connections'[q] = connections[q],
           \A t \in Sockets : t # s => (t \in connections'[n] <=> t \in connections[n]),
           connections' \in [Nodes -> SUBSET Sockets],
           s \in connections'[n] <=> phase'[s][n] = "open",
           s \in connections'[n] => s \in connections[n] \/ ~Taken(s, n),
           outbox'[s][n] # <<>> => phase'[s][n] = "open",
           TypeOK'
    PROVE  PoolInvariant'
<1>1. /\ n \in Nodes /\ Dialer[s] \in Nodes
      /\ \A t \in Sockets : \A q : Other(t, q)' = Other(t, q) /\ Ends(t)' = Ends(t)
  BY TwoEnds DEF Other, Ends
<1>2. JobsFit' /\ \A q \in Nodes : Distinct(jobs'[q])
  BY <1>1, FitsElsewhere
<1>3. PhasesFit'
  <2> SUFFICES ASSUME NEW t \in Sockets, NEW q \in Nodes
               PROVE  /\ phase'[t][Dialer[t]] \in {"unused", "connecting"} /\ q # Dialer[t]
                            => phase'[t][q] = "unused"
                      /\ q \notin Ends(t) => phase'[t][q] \in {"unused", "closed"}
    BY <1>1 DEF PhasesFit
  <2>1. /\ phase[t][Dialer[t]] \in {"unused", "connecting"} /\ q # Dialer[t]
              => phase[t][q] = "unused"
        /\ q \notin Ends(t) => phase[t][q] \in {"unused", "closed"}
    BY DEF PoolInvariant, PhasesFit
  <2>2. Dialer[t] \in Nodes
    BY TwoEnds
  <2>3. CASE t # s
    BY <2>1, <2>2, <2>3 DEF OnlyAt
  <2>4. CASE t = s /\ q = n
    <3>1. n # Dialer[s] => phase[s][Dialer[s]] \notin {"unused", "connecting"}
      BY <2>1, <2>4
    <3>2. QED
      BY <2>4, <3>1, <1>1 DEF OnlyAt
  <2>5. CASE t = s /\ q # n
    <3>1. phase'[s][q] = phase[s][q]
      BY <2>5 DEF OnlyAt
    <3>2. CASE n = Dialer[s]
      BY <3>1, <3>2, <2>1, <2>5
    <3>3. CASE n # Dialer[s]
      BY <3>1, <3>3, <2>1, <2>2, <2>5 DEF OnlyAt
    <3>4. QED
      BY <3>2, <3>3
  <2>6. QED
    BY <2>3, <2>4, <2>5
<1>4. OneForEach'
  <2> SUFFICES ASSUME NEW q \in Nodes
               PROVE  /\ \A t, u \in connections'[q] : Other(t, q) = Other(u, q) => t = u
                      /\ \A t \in Sockets :
                            /\ t \in connections'[q] <=> phase'[t][q] = "open"
                            /\ outbox'[t][q] # <<>> => phase'[t][q] = "open"
    BY <1>1 DEF OneForEach, Other, Ends
  <2>1. /\ \A t, u \in connections[q] : Other(t, q) = Other(u, q) => t = u
        /\ \A t \in Sockets :
              /\ t \in connections[q] <=> phase[t][q] = "open"
              /\ outbox[t][q] # <<>> => phase[t][q] = "open"
        /\ connections[q] \subseteq Sockets
    BY DEF PoolInvariant, OneForEach, TypeOK
  <2>2. CASE q # n
    BY <2>1, <2>2 DEF OnlyAt
  <2>3. CASE q = n
    <3>1. \A t \in Sockets :
              /\ t \in connections'[n] <=> phase'[t][n] = "open"
              /\ outbox'[t][n] # <<>> => phase'[t][n] = "open"
      BY <2>1, <2>3 DEF OnlyAt
    <3>2. connections'[n] \subseteq Sockets
      BY <1>1
    <3>3. ~Taken(s, n) => \A t \in connections[n] : Other(t, n) # Other(s, n)
      BY DEF Taken, Registered
    <3>4. \A t, u \in connections'[n] : Other(t, n) = Other(u, n) => t = u
      BY <2>1, <2>3, <3>2, <3>3
    <3>5. QED
      BY <2>3, <3>1, <3>4
  <2>4. QED
    BY <2>2, <2>3
<1>5. QED
  BY <1>2, <1>3, <1>4 DEF PoolInvariant

\* What the invariant says of one end.
LEMMA EndFits ==
    ASSUME PoolInvariant, NEW s \in Sockets, NEW n \in Nodes
    PROVE  /\ Fits(s, n)
           /\ s \in connections[n] <=> phase[s][n] = "open"
           /\ outbox[s][n] # <<>> => phase[s][n] = "open"
           /\ TypeOK /\ jobs[n] \in Seq(JobRecord)
           /\ \A job : Runs(n, job) => In(jobs[n], job)
  BY DEF PoolInvariant, JobsFit, Fits, OneForEach, TypeOK, JobRecord, Runs, In

\* The types of the sockets' variables.
LEMMA Types ==
    TypeOK =>
      /\ phase \in [Sockets -> [Nodes -> Phase]]
      /\ stream \in [Sockets -> [Nodes -> Seq(Unit)]]
      /\ want \in [Sockets -> [Nodes -> Nat]]
      /\ outbox \in [Sockets -> [Nodes -> Seq(Nat)]]
      /\ connections \in [Nodes -> SUBSET Sockets]
      /\ jobs \in [Nodes -> Seq(JobRecord)]
      /\ sent \in [Nodes -> [Nodes -> Nat]]
      /\ received \in [Sockets -> [Nodes -> Seq(Nat)]]
  BY DEF TypeOK, JobRecord

\* Nothing is opened or closed.
LEMMA NothingOpens ==
    ASSUME PoolInvariant, UNCHANGED <<connections, outbox>>,
           \A t \in Sockets : \A q \in Nodes : phase'[t][q] = "open" <=> phase[t][q] = "open"
    PROVE  OneForEach'
<1>1. \A t \in Sockets : \A q : Other(t, q)' = Other(t, q)
  BY DEF Other, Ends
<1>2. \A n \in Nodes : connections[n] \subseteq Sockets
  BY DEF PoolInvariant, TypeOK
<1>3. OneForEach
  BY DEF PoolInvariant
<1>4. QED
  BY <1>1, <1>2, <1>3 DEF OneForEach

\* A connection is dialled.
LEMMA DialPool ==
    ASSUME PoolInvariant, NEW s \in Sockets, Dial(s)
    PROVE  PoolInvariant'
<1> PICK n : n = Dialer[s]
  OBVIOUS
<1>1. n \in Nodes /\ n \in Ends(s)
  BY TwoEnds
<1>2. /\ phase[s][n] = "unused" /\ phase' = [phase EXCEPT ![s][n] = "connecting"]
      /\ jobs' = [jobs EXCEPT ![n] = Append(@, Job("connect", s))]
      /\ UNCHANGED <<connections, stream, want, outbox, sent, received, cut, failures>>
  BY DEF Dial, data
<1>3. Fits(s, n) /\ TypeOK
  BY <1>1, EndFits
<1>4. Pools(n, {}, {Job("connect", s)})
  BY <1>1, <1>2, <1>3, JobsDiffer, Submitting DEF Fits
<1>5. phase \in [Sockets -> [Nodes -> Phase]]
  BY <1>3, Types
<1>6. /\ phase'[s][n] = "connecting" /\ OnlyAt(s, n)
      /\ phase' \in [Sockets -> [Nodes -> Phase]]
  BY <1>1, <1>2, <1>5 DEF OnlyAt, Phase
<1>7. Fits(s, n)'
  <2>1. \A k : In(jobs'[n], Job(k, s)) => In(jobs[n], Job(k, s)) \/ k = "connect"
    BY <1>4, JobsDiffer DEF Pools
  <2>2. QED
    BY <2>1, <1>2, <1>3, <1>6 DEF Fits
<1>8. JobsFit' /\ \A q \in Nodes : Distinct(jobs'[q])
  BY <1>1, <1>4, <1>6, <1>7, FitsElsewhere
<1>9. TypeOK'
  BY <1>2, <1>3, <1>4, <1>6 DEF TypeOK, Pools, JobRecord
<1>10. PhasesFit'
  BY <1>2, <1>6 DEF PoolInvariant, PhasesFit, OnlyAt, Ends
<1>11. OneForEach'
  <2>1. \A t \in Sockets : \A q \in Nodes : phase'[t][q] = "open" <=> phase[t][q] = "open"
    BY <1>1, <1>2, <1>6 DEF OnlyAt
  <2>2. QED
    BY <2>1, <1>2, NothingOpens
<1>12. QED
  BY <1>8, <1>9, <1>10, <1>11 DEF PoolInvariant

\* The jobs of s that there may be in a handshake.
Follow(s, p, new) ==
    \A x \in new : \/ x = Job("send", s) /\ p = "hello"
                   \/ x = Job("recv", s) /\ p = "greeting"

\* The dialer is connected, or is not.
LEMMA ConnectPool ==
    ASSUME PoolInvariant, NEW s \in Sockets, ConnectJob(s)
    PROVE  PoolInvariant'
<1> PICK n : n = Dialer[s]
  OBVIOUS
<1> PICK m : m = Acceptor[s]
  OBVIOUS
<1> PICK job : job = Job("connect", s)
  OBVIOUS
<1>1. n \in Nodes /\ m \in Nodes /\ n # m /\ Ends(s) = {n, m}
  BY TwoEnds DEF Ends
<1>2. /\ In(jobs[n], job) /\ UNCHANGED <<connections, want, outbox, sent, received, cut, failures>>
  BY <1>1, EndFits DEF ConnectJob, Connect, Probe, ConnectFails, data
<1>3. Fits(s, n) /\ Fits(s, m) /\ TypeOK
  BY <1>1, EndFits
<1>4. /\ phase \in [Sockets -> [Nodes -> Phase]] /\ stream \in [Sockets -> [Nodes -> Seq(Unit)]]
      /\ jobs \in [Nodes -> Seq(JobRecord)]
  BY <1>3, Types
<1>5. phase[s][n] = "connecting" /\ \A q \in Nodes : q # n => phase[s][q] = "unused"
  <2>1. phase[s][n] = "connecting"
    BY <1>2, <1>3 DEF Fits
  <2>2. QED
    BY <2>1 DEF PoolInvariant, PhasesFit
<1>6. /\ ~In(jobs[n], Job("send", s)) /\ ~In(jobs[n], Job("recv", s))
      /\ \A k \in {"connect", "send", "recv"} : \A q \in Nodes : q # n => ~In(jobs[q], Job(k, s))
  <2>1. \A q \in Nodes : Fits(s, q)
    BY EndFits
  <2>2. QED
    BY <2>1, <1>5, <1>1 DEF Fits
<1>7. ASSUME NEW p2 \in [Nodes -> Phase], phase' = [phase EXCEPT ![s] = p2],
             p2[n] \notin {"unused", "connecting"},
             \A q \in Nodes : p2[q] \notin {"open", "connecting"},
             \A q \in Nodes : q \notin Ends(s) => p2[q] \in {"unused", "closed"},
             stream' \in [Sockets -> [Nodes -> Seq(Unit)]],
             NEW new, Pools(n, {job}, new),
             Follow(s, p2[n], new)
      PROVE  PoolInvariant'
  <2>1. /\ phase' \in [Sockets -> [Nodes -> Phase]] /\ phase'[s] = p2
        /\ \A t \in Sockets : t # s => phase'[t] = phase[t]
    BY <1>4, <1>7
  <2>2. TypeOK'
    BY <1>2, <1>3, <1>7, <2>1 DEF TypeOK, Pools, JobRecord
  <2>3. OneForEach'
    <3>1. \A t \in Sockets : \A q \in Nodes : phase'[t][q] = "open" <=> phase[t][q] = "open"
      BY <2>1, <1>5, <1>7
    <3>2. QED
      BY <3>1, <1>2, NothingOpens
  <2>4. PhasesFit'
    <3>1. \A t \in Sockets : Ends(t)' = Ends(t) /\ Dialer[t] \in Nodes
      BY TwoEnds DEF Ends
    <3>2. PhasesFit
      BY DEF PoolInvariant
    <3>3. QED
      BY <2>1, <3>1, <3>2, <1>1, <1>7 DEF PhasesFit
  <2>5. \A t \in Sockets : \A q \in Nodes : Fits(t, q)'
    <3> SUFFICES ASSUME NEW t \in Sockets, NEW q \in Nodes PROVE Fits(t, q)'
      OBVIOUS
    <3>1. Fits(t, q)
      BY EndFits
    <3>2. CASE t # s
      <4>1. \A k \in {"connect", "send", "recv"} :
               In(jobs'[q], Job(k, t)) <=> In(jobs[q], Job(k, t))
        <5>1. \A k : Job(k, t) \notin {job} \cup new
          BY <3>2, <1>7, JobsDiffer DEF Follow
        <5>2. QED
          BY <5>1, <1>7 DEF Pools
      <4>2. phase'[t][q] = phase[t][q] /\ outbox' = outbox
        BY <3>2, <2>1, <1>2
      <4>3. QED
        BY <3>1, <4>1, <4>2 DEF Fits, Follow
    <3>3. CASE t = s /\ q # n
      <4>1. \A k \in {"connect", "send", "recv"} : ~In(jobs'[q], Job(k, s))
        BY <3>3, <1>6, <1>7 DEF Pools
      <4>2. phase'[s][q] # "open"
        BY <2>1, <1>7
      <4>3. QED
        BY <3>3, <4>1, <4>2 DEF Fits, Follow
    <3>4. CASE t = s /\ q = n
      <4>1. /\ ~In(jobs'[n], Job("connect", s))
            /\ In(jobs'[n], Job("send", s)) => p2[n] = "hello"
            /\ In(jobs'[n], Job("recv", s)) => p2[n] = "greeting"
        BY <1>6, <1>7, JobsDiffer DEF Pools, Follow
      <4>2. phase'[s][n] = p2[n] /\ p2[n] # "open"
        BY <2>1, <1>1, <1>7
      <4>3. QED
        BY <3>4, <4>1, <4>2 DEF Fits, Follow
    <3>5. QED
      BY <3>2, <3>3, <3>4
  <2>6. JobsFit'
    BY <2>5 DEF JobsFit, Fits
  <2>7. \A q \in Nodes : Distinct(jobs'[q])
    BY <1>7 DEF Pools
  <2>8. QED
    BY <2>2, <2>3, <2>4, <2>6, <2>7 DEF PoolInvariant
<1>8. CASE Connect(s)
  <2> PICK p2 : p2 = [phase[s] EXCEPT ![n] = "hello", ![m] = "backlog"]
    OBVIOUS
  <2>1. phase' = [phase EXCEPT ![s] = p2] /\ stream' = stream
        /\ Finish(n, job, <<Job("send", s)>>)
    BY <1>4, <1>8 DEF Connect, data
  <2>2. /\ p2 \in [Nodes -> Phase] /\ p2[n] = "hello" /\ p2[m] = "backlog"
        /\ \A q \in Nodes : q \notin Ends(s) => p2[q] = "unused"
        /\ \A q \in Nodes : q # n /\ q # m => p2[q] = "unused"
    BY <1>1, <1>4, <1>5 DEF Phase
  <2>3. Pools(n, {job}, {Job("send", s)})
    BY <2>1, <1>1, <1>6, JobsDiffer, FinishOne
  <2>4. \A q \in Nodes : p2[q] \notin {"open", "connecting"}
    BY <2>2
  <2>5. Follow(s, p2[n], {Job("send", s)})
    BY <2>2 DEF Follow
  <2>9. /\ p2[n] \notin {"unused", "connecting"}
        /\ \A q \in Nodes : p2[q] \notin {"open", "connecting"}
        /\ \A q \in Nodes : q \notin Ends(s) => p2[q] \in {"unused", "closed"}
        /\ stream' \in [Sockets -> [Nodes -> Seq(Unit)]]
    BY <2>1, <2>2, <2>4, <1>1, <1>4
  <2>6. QED
    BY <2>1, <2>2, <2>3, <2>5, <2>9, <1>7
<1>9. CASE Probe(s)
  <2> PICK p2 : p2 = [phase[s] EXCEPT ![n] = "greeting", ![m] = "backlog"]
    OBVIOUS
  <2>1. /\ phase' = [phase EXCEPT ![s] = p2]
        /\ stream' = [stream EXCEPT ![s][n] = Framed(Hello)]
        /\ jobs' = [jobs EXCEPT ![n] = [i \in DOMAIN @ |->
                       IF @[i] = job THEN Job("recv", s) ELSE @[i]]]
    BY <1>4, <1>9 DEF Probe
  <2>2. /\ p2 \in [Nodes -> Phase] /\ p2[n] = "greeting" /\ p2[m] = "backlog"
        /\ \A q \in Nodes : q \notin Ends(s) => p2[q] = "unused"
        /\ \A q \in Nodes : q # n /\ q # m => p2[q] = "unused"
    BY <1>1, <1>4, <1>5 DEF Phase
  <2>3. Pools(n, {job}, {Job("recv", s)})
    <3> PICK job2 : job2 = Job("recv", s)
      OBVIOUS
    <3>1. job2 \in JobRecord /\ ~In(jobs[n], job2)
      BY <1>6, JobsDiffer
    <3>2. QED
      BY <2>1, <3>1, <1>1, <1>2, Continuing
  <2>4. \A q \in Nodes : p2[q] \notin {"open", "connecting"}
    BY <2>2
  <2>5. Follow(s, p2[n], {Job("recv", s)})
    BY <2>2 DEF Follow
  <2>6. Framed(Hello) \in Seq(Unit)
    BY DEF Framed, Hello, Unit
  <2>7. stream' \in [Sockets -> [Nodes -> Seq(Unit)]]
    BY <2>1, <2>6, <1>4
  <2>9. /\ p2[n] \notin {"unused", "connecting"}
        /\ \A q \in Nodes : p2[q] \notin {"open", "connecting"}
        /\ \A q \in Nodes : q \notin Ends(s) => p2[q] \in {"unused", "closed"}
        /\ stream' \in [Sockets -> [Nodes -> Seq(Unit)]]
    BY <2>2, <2>4, <2>7, <1>1
  <2>8. QED
    BY <2>1, <2>2, <2>3, <2>5, <2>9, <1>7
<1>10. CASE ConnectFails(s)
  <2> PICK p2 : p2 = [q \in Nodes |-> "closed"]
    OBVIOUS
  <2>1. phase' = [phase EXCEPT ![s] = p2] /\ stream' = stream /\ Finish(n, job, <<>>)
    BY <1>10 DEF ConnectFails, data
  <2>2. p2 \in [Nodes -> Phase] /\ \A q \in Nodes : p2[q] = "closed"
    BY DEF Phase
  <2>3. Pools(n, {job}, {})
    BY <2>1, <1>1, FinishNone
  <2>4. Follow(s, p2[n], {})
    BY DEF Follow
  <2>9. /\ p2[n] \notin {"unused", "connecting"}
        /\ \A q \in Nodes : p2[q] \notin {"open", "connecting"}
        /\ \A q \in Nodes : q \notin Ends(s) => p2[q] \in {"unused", "closed"}
        /\ stream' \in [Sockets -> [Nodes -> Seq(Unit)]]
    BY <2>1, <2>2, <1>1, <1>4
  <2>5. QED
    BY <2>1, <2>2, <2>3, <2>4, <2>9, <1>7
<1>11. QED
  BY <1>8, <1>9, <1>10 DEF ConnectJob

\* A job is done again, or one of a closed end ends: nothing else changes.
LEMMA SameEnds ==
    ASSUME PoolInvariant, NEW n \in Nodes, UNCHANGED <<phase, connections, outbox>>, TypeOK',
           NEW job, NEW new, Pools(n, {job}, new), new \in {{}, {job}}, In(jobs[n], job),
           new = {} => \E s \in Sockets, k \in {"send", "recv"} :
                          job = Job(k, s) /\ phase[s][n] = "closed"
    PROVE  PoolInvariant'
<1>1. \A t \in Sockets : \A q \in Nodes : Fits(t, q)'
  <2> SUFFICES ASSUME NEW t \in Sockets, NEW q \in Nodes PROVE Fits(t, q)'
    OBVIOUS
  <2>1. Fits(t, q)
    BY EndFits
  <2>2. \A x : In(jobs'[q], x) => In(jobs[q], x)
    BY DEF Pools
  <2>3. phase[t][q] = "open" => \A k : In(jobs[q], Job(k, t)) => In(jobs'[q], Job(k, t))
    <3>1. CASE q # n
      BY <3>1 DEF Pools
    <3>2. CASE q = n /\ new = {job}
      BY <3>2 DEF Pools
    <3>3. CASE q = n /\ new = {}
      <4>1. PICK s \in Sockets, k \in {"send", "recv"} :
               job = Job(k, s) /\ phase[s][n] = "closed"
        BY <3>3
      <4>2. QED
        BY <4>1, <3>3, JobsDiffer DEF Pools
    <3>4. QED
      BY <3>1, <3>2, <3>3
  <2>4. phase' = phase /\ outbox' = outbox
    OBVIOUS
  <2>5. QED
    BY <2>1, <2>2, <2>3, <2>4 DEF Fits
<1>2. JobsFit' /\ \A q \in Nodes : Distinct(jobs'[q])
  BY <1>1 DEF JobsFit, Fits, Pools
<1>3. PhasesFit'
  <2>1. \A t \in Sockets : Ends(t)' = Ends(t)
    BY DEF Ends
  <2>2. QED
    BY <2>1 DEF PoolInvariant, PhasesFit
<1>4. OneForEach'
  BY NothingOpens
<1>5. QED
  BY <1>2, <1>3, <1>4 DEF PoolInvariant

\* Nothing about ends and jobs changes.
LEMMA SamePools ==
    ASSUME PoolInvariant, UNCHANGED <<phase, connections, outbox, jobs>>, TypeOK'
    PROVE  PoolInvariant'
<1>1. \A t \in Sockets : Ends(t)' = Ends(t)
  BY DEF Ends
<1>2. JobsFit' /\ \A q \in Nodes : Distinct(jobs'[q])
  BY DEF PoolInvariant, JobsFit
<1>3. PhasesFit'
  BY <1>1 DEF PoolInvariant, PhasesFit
<1>4. OneForEach'
  BY NothingOpens
<1>5. QED
  BY <1>2, <1>3, <1>4 DEF PoolInvariant

\* What is read from a stream leaves a stream.
LEMMA ConsumeTypes ==
    ASSUME TypeOK, NEW s \in Sockets, NEW n \in Nodes, NEW units \in Nat, Consume(s, n, units)
    PROVE  stream' \in [Sockets -> [Nodes -> Seq(Unit)]]
<1> PICK m : m = Other(s, n)
  OBVIOUS
<1> PICK str : str = stream[s][m]
  OBVIOUS
<1>0. m \in Nodes
  BY TwoEnds
<1>1. m \in Nodes /\ stream \in [Sockets -> [Nodes -> Seq(Unit)]] /\ str \in Seq(Unit)
  BY <1>0, Types
<1>2. SubSeq(str, units + 1, Len(str)) \in Seq(Unit)
  BY <1>1
<1>3. stream' = [stream EXCEPT ![s][m] = SubSeq(str, units + 1, Len(str))]
  BY <1>1 DEF Consume
<1>4. QED
  BY <1>1, <1>2, <1>3

\* An end is closed, with the job that found it.
LEMMA Closing ==
    ASSUME PoolInvariant, NEW s \in Sockets, NEW n \in Ends(s), NEW kind \in {"send", "recv"},
           phase[s][n] \notin {"unused", "connecting"}, Close(s, n),
           Finish(n, Job(kind, s), <<>>), cut' \subseteq Sockets, failures' \in Nat
    PROVE  PoolInvariant'
<1> PICK m : m = Other(s, n)
  OBVIOUS
<1>1. n \in Nodes /\ m \in Nodes
  BY TwoEnds
<1>2. Fits(s, n) /\ TypeOK
  BY <1>1, EndFits
<1>3. Pools(n, {Job(kind, s)}, {})
  BY <1>1, FinishNone
<1>4. /\ phase' = [phase EXCEPT ![s][n] = "closed"]
      /\ connections' = [connections EXCEPT ![n] = @ \ {s}]
      /\ stream' = [stream EXCEPT ![s][m] = <<>>]
      /\ want' = [want EXCEPT ![s][n] = 0]
      /\ outbox' = [outbox EXCEPT ![s][n] = <<>>]
      /\ UNCHANGED <<sent, received>>
  BY DEF Close
<1>5. /\ phase \in [Sockets -> [Nodes -> Phase]]
      /\ stream \in [Sockets -> [Nodes -> Seq(Unit)]]
      /\ want \in [Sockets -> [Nodes -> Nat]]
      /\ outbox \in [Sockets -> [Nodes -> Seq(Nat)]]
      /\ connections \in [Nodes -> SUBSET Sockets]
  BY <1>2, Types
<1>6. /\ phase' \in [Sockets -> [Nodes -> Phase]] /\ phase'[s][n] = "closed"
      /\ outbox' \in [Sockets -> [Nodes -> Seq(Nat)]] /\ outbox'[s][n] = <<>>
      /\ connections' \in [Nodes -> SUBSET Sockets] /\ s \notin connections'[n]
      /\ OnlyAt(s, n)
      /\ \A q \in Nodes : q # n => connections'[q] = connections[q]
      /\ \A t \in Sockets : t # s => (t \in connections'[n] <=> t \in connections[n])
  <2>1. phase' \in [Sockets -> [Nodes -> Phase]] /\ phase'[s][n] = "closed"
    BY <1>1, <1>4, <1>5 DEF Phase
  <2>2. outbox' \in [Sockets -> [Nodes -> Seq(Nat)]] /\ outbox'[s][n] = <<>>
    BY <1>1, <1>4, <1>5
  <2>3. OnlyAt(s, n)
    BY <1>1, <1>4, <1>5 DEF OnlyAt
  <2>4. /\ connections' \in [Nodes -> SUBSET Sockets] /\ s \notin connections'[n]
        /\ \A q \in Nodes : q # n => connections'[q] = connections[q]
        /\ \A t \in Sockets : t # s => (t \in connections'[n] <=> t \in connections[n])
    BY <1>1, <1>4, <1>5
  <2>5. QED
    BY <2>1, <2>2, <2>3, <2>4
<1>7. TypeOK'
  <2>1. stream' \in [Sockets -> [Nodes -> Seq(Unit)]]
    BY <1>1, <1>4, <1>5
  <2>2. want' \in [Sockets -> [Nodes -> Nat]]
    BY <1>1, <1>4, <1>5
  <2>3. QED
    BY <2>1, <2>2, <1>2, <1>3, <1>4, <1>6 DEF TypeOK, Pools, JobRecord
<1>8. Fits(s, n)'
  <2>1. \A x : In(jobs'[n], x) => In(jobs[n], x)
    BY <1>3 DEF Pools
  <2>2. QED
    BY <2>1, <1>2, <1>6 DEF Fits
<1>9. \A x \in {Job(kind, s)} \cup {} : x = Accepting \/ \E k : x = Job(k, s)
  OBVIOUS
<1>10. QED
  BY <1>3, <1>6, <1>7, <1>8, <1>9, EndMoves

\* The two ways a job of accepting ends.
LEMMA AcceptPool ==
    ASSUME PoolInvariant, NEW n \in Nodes, AcceptJob(n)
    PROVE  PoolInvariant'
<1>1. TypeOK /\ In(jobs[n], Accepting)
  <2>1. Runs(n, Accepting) /\ TypeOK
    BY DEF AcceptJob, Accept, AcceptTimesOut, PoolInvariant
  <2>2. QED
    BY <2>1 DEF Runs, In
<1>2. CASE AcceptTimesOut(n)
  <2>1. Pools(n, {Accepting}, {Accepting})
    BY <1>2, JobsDiffer, FinishOne DEF AcceptTimesOut
  <2>2. UNCHANGED <<phase, connections, stream, want, outbox, sent, received, cut, failures>>
    BY <1>2 DEF AcceptTimesOut, ends, data
  <2>3. TypeOK'
    BY <2>1, <2>2, <1>1 DEF TypeOK, Pools, JobRecord
  <2>4. QED
    BY <2>1, <2>2, <2>3, <1>1, SameEnds
<1>3. CASE Accept(n)
  <2>1. PICK s \in Sockets :
            /\ phase[s][n] = "backlog"
            /\ phase' = [phase EXCEPT ![s][n] = "hello"]
            /\ Finish(n, Accepting, <<Accepting, Job("send", s)>>)
    BY <1>3 DEF Accept
  <2>2. UNCHANGED <<connections, stream, want, outbox, sent, received, cut, failures>>
    BY <1>3 DEF Accept, data
  <2> PICK job : job = Job("send", s)
    OBVIOUS
  <2>3. /\ Fits(s, n) /\ s \notin connections[n] /\ outbox[s][n] = <<>>
        /\ phase \in [Sockets -> [Nodes -> Phase]] /\ connections \in [Nodes -> SUBSET Sockets]
    BY <2>1, <1>1, EndFits, Types
  <2>4. n \in Ends(s)
    BY <2>1 DEF PoolInvariant, PhasesFit
  <2>5. /\ phase' \in [Sockets -> [Nodes -> Phase]] /\ phase'[s][n] = "hello"
        /\ OnlyAt(s, n)
    BY <2>1, <2>2, <2>3 DEF OnlyAt, Phase
  <2>6. Pools(n, {Accepting}, {Accepting, job})
    <3>1. job \in JobRecord /\ Accepting \in JobRecord /\ Accepting # job /\ ~In(jobs[n], job)
      BY <2>1, <2>3, JobsDiffer DEF Fits
    <3>2. QED
      BY <3>1, <2>1, FinishTwo
  <2>7. TypeOK'
    BY <2>2, <2>5, <2>6, <1>1 DEF TypeOK, Pools, JobRecord
  <2>8. Fits(s, n)'
    <3>1. \A k \in {"connect", "recv"} : In(jobs'[n], Job(k, s)) => In(jobs[n], Job(k, s))
      BY <2>6, JobsDiffer DEF Pools
    <3>2. QED
      BY <3>1, <2>1, <2>3, <2>5 DEF Fits
  <2>9. \A x \in {Accepting} \cup {Accepting, job} : x = Accepting \/ \E k : x = Job(k, s)
    OBVIOUS
  <2>10. QED
    BY <2>1, <2>2, <2>3, <2>4, <2>5, <2>6, <2>7, <2>8, <2>9, EndMoves
<1>4. QED
  BY <1>2, <1>3 DEF AcceptJob

\* The link is lost, or a job finds its socket closed.
LEMMA AbandonPool ==
    ASSUME PoolInvariant, NEW s \in Sockets, NEW n \in Nodes, NEW kind \in {"send", "recv"},
           Abandon(s, n, kind)
    PROVE  PoolInvariant'
<1> PICK job : job = Job(kind, s)
  OBVIOUS
<1>1. /\ phase[s][n] = "closed" /\ In(jobs[n], job) /\ Finish(n, job, <<>>) /\ TypeOK
      /\ UNCHANGED <<phase, connections, stream, want, outbox, sent, received, cut, failures>>
  BY EndFits DEF Abandon, ends, data
<1>2. Pools(n, {job}, {})
  BY <1>1, FinishNone
<1>3. TypeOK'
  BY <1>1, <1>2 DEF TypeOK, Pools, JobRecord
<1>4. QED
  BY <1>1, <1>2, <1>3, SameEnds

\* Writes of one end: its hello, a frame, or one that fails.
LEMMA SendPool ==
    ASSUME PoolInvariant, NEW s \in Sockets, NEW n \in Ends(s),
           SendHello(s, n) \/ WriteFrame(s, n) \/ SendFails(s, n)
    PROVE  PoolInvariant'
<1> PICK job : job = Job("send", s)
  OBVIOUS
<1>1. n \in Nodes /\ job \in JobRecord
  BY TwoEnds, JobsDiffer
<1>2. Fits(s, n) /\ TypeOK
  BY <1>1, EndFits
<1>3. /\ In(jobs[n], job) /\ phase[s][n] # "closed" /\ phase[s][n] \in {"hello", "open"}
      /\ phase[s][n] = "open" => outbox[s][n] # <<>>
  <2>1. Sending(s, n)
    BY DEF SendHello, WriteFrame, SendFails
  <2>2. In(jobs[n], job) /\ phase[s][n] # "closed"
    BY <2>1, <1>1, EndFits DEF Sending
  <2>3. QED
    BY <2>2, <1>2 DEF Fits
<1>4. /\ phase \in [Sockets -> [Nodes -> Phase]]
      /\ stream \in [Sockets -> [Nodes -> Seq(Unit)]]
      /\ outbox \in [Sockets -> [Nodes -> Seq(Nat)]]
      /\ connections \in [Nodes -> SUBSET Sockets]
  BY <1>2, Types
<1>5. s \in connections[n] <=> phase[s][n] = "open"
  BY <1>1, EndFits
<1>6. CASE SendHello(s, n)
  <2> PICK job2 : job2 = Job("recv", s)
    OBVIOUS
  <2>1. /\ phase[s][n] = "hello" /\ phase' = [phase EXCEPT ![s][n] = "greeting"]
        /\ stream' = [stream EXCEPT ![s][n] = Framed(Hello)]
        /\ Finish(n, job, <<job2>>)
        /\ UNCHANGED <<connections, want, outbox, sent, received, cut, failures>>
    BY <1>6 DEF SendHello
  <2>2. /\ phase' \in [Sockets -> [Nodes -> Phase]] /\ phase'[s][n] = "greeting"
        /\ OnlyAt(s, n)
    BY <2>1, <1>1, <1>4 DEF OnlyAt, Phase
  <2>3. Pools(n, {job}, {job2})
    <3>1. job2 \in JobRecord /\ ~In(jobs[n], job2)
      BY <2>1, <1>2, JobsDiffer DEF Fits
    <3>2. QED
      BY <3>1, <2>1, <1>1, FinishOne
  <2>4. TypeOK'
    <3>1. Framed(Hello) \in Seq(Unit)
      BY DEF Framed, Hello, Unit
    <3>2. stream' \in [Sockets -> [Nodes -> Seq(Unit)]]
      BY <3>1, <2>1, <1>1, <1>4
    <3>3. QED
      BY <3>2, <2>1, <2>2, <2>3, <1>2 DEF TypeOK, Pools, JobRecord
  <2>5. Fits(s, n)'
    <3>1. /\ ~In(jobs'[n], job)
          /\ In(jobs'[n], Job("connect", s)) => In(jobs[n], Job("connect", s))
      BY <2>3, JobsDiffer DEF Pools
    <3>2. QED
      BY <3>1, <2>1, <2>2, <1>2 DEF Fits
  <2>6. \A x \in {job} \cup {job2} : x = Accepting \/ \E k : x = Job(k, s)
    OBVIOUS
  <2>7. outbox'[s][n] = <<>> /\ s \notin connections'[n]
    BY <2>1, <1>1, <1>5, EndFits
  <2>8. QED
    BY <2>1, <2>2, <2>3, <2>4, <2>5, <2>6, <2>7, <1>4, EndMoves
<1>7. CASE WriteFrame(s, n)
  <2> PICK next : next = IF Tail(outbox[s][n]) = <<>> THEN <<>> ELSE <<job>>
    OBVIOUS
  <2> PICK new : new = IF Tail(outbox[s][n]) = <<>> THEN {} ELSE {job}
    OBVIOUS
  <2>1. /\ phase[s][n] = "open" /\ outbox' = [outbox EXCEPT ![s][n] = Tail(@)]
        /\ stream' = [stream EXCEPT ![s][n] = @ \o Framed(Head(outbox[s][n]))]
        /\ Finish(n, job, next)
        /\ UNCHANGED <<phase, connections, want, sent, received, cut, failures>>
    BY <1>7 DEF WriteFrame, ends
  <2>2. /\ outbox[s][n] \in Seq(Nat) /\ outbox[s][n] # <<>>
        /\ Head(outbox[s][n]) \in Nat /\ Tail(outbox[s][n]) \in Seq(Nat)
    BY <2>1, <1>1, <1>3, <1>4
  <2>3. Pools(n, {job}, new)
    <3>1. CASE Tail(outbox[s][n]) = <<>>
      BY <3>1, <2>1, <1>1, FinishNone
    <3>2. CASE Tail(outbox[s][n]) # <<>>
      BY <3>2, <2>1, <1>1, FinishOne
    <3>3. QED
      BY <3>1, <3>2
  <2>4. /\ outbox' \in [Sockets -> [Nodes -> Seq(Nat)]] /\ outbox'[s][n] = Tail(outbox[s][n])
        /\ OnlyAt(s, n)
    BY <2>1, <2>2, <1>1, <1>4 DEF OnlyAt
  <2>5. TypeOK'
    <3>1. Framed(Head(outbox[s][n])) \in Seq(Unit)
      BY <2>2 DEF Framed, Unit
    <3>2. stream[s][n] \o Framed(Head(outbox[s][n])) \in Seq(Unit)
      BY <3>1, <1>1, <1>4
    <3>3. stream' \in [Sockets -> [Nodes -> Seq(Unit)]]
      BY <3>2, <2>1, <1>1, <1>4
    <3>4. QED
      BY <3>3, <2>1, <2>3, <2>4, <1>2 DEF TypeOK, Pools, JobRecord
  <2>6. Fits(s, n)'
    <3>1. /\ In(jobs'[n], job) <=> Tail(outbox[s][n]) # <<>>
          /\ \A k \in {"connect", "recv"} : In(jobs'[n], Job(k, s)) <=> In(jobs[n], Job(k, s))
      BY <2>3, JobsDiffer DEF Pools
    <3>2. QED
      BY <3>1, <2>1, <2>4, <1>2 DEF Fits
  <2>7. \A x \in {job} \cup new : x = Accepting \/ \E k : x = Job(k, s)
    OBVIOUS
  <2>8. QED
    BY <2>1, <2>3, <2>4, <2>5, <2>6, <2>7, <1>4, <1>5, EndMoves
<1>8. CASE SendFails(s, n)
  <2>1. /\ Close(s, n) /\ Finish(n, job, <<>>) /\ cut' = cut
        /\ failures' \in {failures, failures + 1}
    BY <1>8 DEF SendFails, Fails
  <2>2. cut' \subseteq Sockets /\ failures' \in Nat
    BY <2>1, <1>2 DEF TypeOK
  <2>3. QED
    BY <2>1, <2>2, <1>3, Closing
<1>9. QED
  BY <1>6, <1>7, <1>8

\* A frame is to be sent.
LEMMA SubmitPool ==
    ASSUME PoolInvariant, NEW n \in Nodes, NEW m \in Nodes, SendFrame(n, m)
    PROVE  PoolInvariant'
<1>1. PICK s \in connections[n] :
          /\ Other(s, n) = m
          /\ outbox' = [outbox EXCEPT ![s][n] = Append(@, sent[n][m] + 1)]
          /\ jobs' = IF outbox[s][n] # <<>> THEN jobs
                     ELSE [jobs EXCEPT ![n] = Append(@, Job("send", s))]
  BY DEF SendFrame
<1>2. /\ sent' = [sent EXCEPT ![n][m] = @ + 1]
      /\ UNCHANGED <<phase, connections, stream, want, received, cut, failures>>
  BY DEF SendFrame, ends
<1>3. TypeOK /\ s \in Sockets
  BY DEF PoolInvariant, TypeOK
<1>4. Fits(s, n) /\ phase[s][n] = "open" /\ s \in connections[n]
  BY <1>3, EndFits
<1>5. n \in Ends(s)
  BY <1>3, <1>4 DEF PoolInvariant, PhasesFit
<1>6. /\ phase \in [Sockets -> [Nodes -> Phase]]
      /\ outbox \in [Sockets -> [Nodes -> Seq(Nat)]]
      /\ connections \in [Nodes -> SUBSET Sockets]
      /\ jobs \in [Nodes -> Seq(JobRecord)]
      /\ sent \in [Nodes -> [Nodes -> Nat]]
  BY <1>3, Types
<1> PICK out : out = outbox[s][n]
  OBVIOUS
<1>7. /\ out \in Seq(Nat) /\ sent[n][m] + 1 \in Nat /\ Append(out, sent[n][m] + 1) \in Seq(Nat)
      /\ Append(out, sent[n][m] + 1) # <<>>
  <2>1. out \in Seq(Nat) /\ sent[n][m] \in Nat
    BY <1>3, <1>6
  <2>2. \A x \in Nat : Append(out, x + 1) \in Seq(Nat) /\ Append(out, x + 1) # <<>>
    BY <2>1
  <2>3. QED
    BY <2>1, <2>2
<1>8. /\ outbox' \in [Sockets -> [Nodes -> Seq(Nat)]]
      /\ outbox'[s][n] = Append(out, sent[n][m] + 1) /\ OnlyAt(s, n)
  BY <1>1, <1>2, <1>3, <1>6, <1>7 DEF OnlyAt
<1> PICK job : job = Job("send", s)
  OBVIOUS
<1> PICK new : new = IF out = <<>> THEN {job} ELSE {}
  OBVIOUS
<1>9. Pools(n, {}, new)
  <2>1. CASE out = <<>>
    <3>1. job \in JobRecord /\ ~In(jobs[n], job)
      BY <2>1, <1>3, <1>4, JobsDiffer DEF Fits
    <3>2. jobs' = [jobs EXCEPT ![n] = Append(@, job)] /\ new = {job}
      BY <2>1, <1>1
    <3>3. QED
      BY <3>1, <3>2, Submitting
  <2>2. CASE out # <<>>
    <3>1. jobs' = jobs /\ new = {}
      BY <2>2, <1>1
    <3>2. QED
      BY <3>1, <1>6 DEF Pools, PoolInvariant
  <2>3. QED
    BY <2>1, <2>2
<1>10. TypeOK'
  <2>1. sent' \in [Nodes -> [Nodes -> Nat]]
    BY <1>2, <1>6, <1>7
  <2>2. QED
    BY <2>1, <1>2, <1>3, <1>8, <1>9 DEF TypeOK, Pools, JobRecord
<1>11. Fits(s, n)'
  <2>1. /\ In(jobs'[n], job)
        /\ \A k \in {"connect", "recv"} : In(jobs'[n], Job(k, s)) <=> In(jobs[n], Job(k, s))
    BY <1>4, <1>9, JobsDiffer DEF Pools, Fits
  <2>2. QED
    BY <2>1, <1>2, <1>4, <1>7, <1>8 DEF Fits
<1>12. \A x \in {} \cup new : x = Accepting \/ \E k : x = Job(k, s)
  OBVIOUS
<1>13. QED
  BY <1>2, <1>3, <1>4, <1>5, <1>6, <1>8, <1>9, <1>10, <1>11, <1>12, EndMoves

\* A read goes on, or ends with the connection.
LEMMA ReadPool ==
    ASSUME PoolInvariant, NEW s \in Sockets, NEW n \in Ends(s),
           \/ ReadHello(s, n) \/ ReadFrame(s, n) \/ Misread(s, n) \/ Skip(s, n)
           \/ ReadEnd(s, n) \/ ReadTimesOut(s, n) \/ LinkIsSilent(s, n)
    PROVE  PoolInvariant'
<1> PICK job : job = Job("recv", s)
  OBVIOUS
<1>1. n \in Nodes /\ job \in JobRecord /\ Other(s, n) \in Nodes
  BY TwoEnds, JobsDiffer
<1>2. Fits(s, n) /\ TypeOK
  BY <1>1, EndFits
<1>3. In(jobs[n], job) /\ phase[s][n] \in {"greeting", "open"}
  <2>1. Reading(s, n)
    BY DEF ReadHello, ReadFrame, Misread, Skip, ReadEnd, ReadTimesOut, LinkIsSilent, TimeOut
  <2>2. In(jobs[n], job) /\ phase[s][n] # "closed"
    BY <2>1, <1>1, EndFits DEF Reading
  <2>3. QED
    BY <2>2, <1>2 DEF Fits
<1>4. /\ phase \in [Sockets -> [Nodes -> Phase]]
      /\ stream \in [Sockets -> [Nodes -> Seq(Unit)]]
      /\ want \in [Sockets -> [Nodes -> Nat]]
      /\ connections \in [Nodes -> SUBSET Sockets]
      /\ received \in [Sockets -> [Nodes -> Seq(Nat)]]
  BY <1>2, Types
<1>5. Incoming(s, n) \in Seq(Unit)
  BY <1>1, <1>4 DEF Incoming
\* Reads that leave the ends as they are.
<1>6. ASSUME UNCHANGED <<phase, connections, outbox, sent, cut>>,
             jobs' = jobs \/ Finish(n, job, <<job>>),
             NEW units \in Nat, Consume(s, n, units),
             want' \in [Sockets -> [Nodes -> Nat]],
             received' \in [Sockets -> [Nodes -> Seq(Nat)]],
             failures' \in Nat
      PROVE  PoolInvariant'
  <2>1. stream' \in [Sockets -> [Nodes -> Seq(Unit)]]
    BY <1>1, <1>2, <1>6, ConsumeTypes
  <2>2. CASE jobs' = jobs
    <3>1. TypeOK'
      BY <2>1, <2>2, <1>2, <1>6 DEF TypeOK
    <3>2. QED
      BY <3>1, <2>2, <1>6, SamePools
  <2>3. CASE Finish(n, job, <<job>>)
    <3>1. Pools(n, {job}, {job})
      BY <2>3, <1>1, FinishOne
    <3>2. TypeOK'
      BY <2>1, <3>1, <1>2, <1>6 DEF TypeOK, Pools, JobRecord
    <3>3. QED
      BY <3>1, <3>2, <1>1, <1>3, <1>6, SameEnds
  <2>4. QED
    BY <2>2, <2>3, <1>6
\* Reads that end it.
<1>7. ASSUME Close(s, n), Finish(n, job, <<>>), cut' = cut, failures' \in Nat
      PROVE  PoolInvariant'
  <2>1. cut' \subseteq Sockets /\ phase[s][n] \notin {"unused", "connecting"}
    BY <1>2, <1>3, <1>7 DEF TypeOK
  <2>2. QED
    BY <2>1, <1>7, Closing
<1>8. CASE ReadFrame(s, n)
  <2>1. /\ UNCHANGED <<phase, connections, outbox, sent, cut, want, failures>>
        /\ Finish(n, job, <<job>>) /\ Consume(s, n, FrameSize)
        /\ received' = [received EXCEPT ![s][n] = Append(@, Head(Incoming(s, n)).frame)]
        /\ Incoming(s, n) # <<>>
    BY <1>8 DEF ReadFrame, InPlace, ends
  <2>2. Head(Incoming(s, n)).frame \in Nat
    <3>1. Head(Incoming(s, n)) \in Unit
      <4> HIDE DEF Incoming, Unit
      <4> QED
        BY <2>1, <1>5
    <3>2. QED
      BY <3>1 DEF Unit
  <2>3. received' \in [Sockets -> [Nodes -> Seq(Nat)]]
    BY <2>1, <2>2, <1>1, <1>4
  <2>4. FrameSize \in Nat /\ failures' \in Nat /\ want' \in [Sockets -> [Nodes -> Nat]]
    BY <2>1, <1>2, <1>4 DEF FrameSize, TypeOK
  <2>5. QED
    BY <2>1, <2>3, <2>4, <1>6
<1>9. CASE Misread(s, n)
  <2>1. PICK length \in Lengths : want' = [want EXCEPT ![s][n] = length]
    BY <1>9 DEF Misread
  <2>2. /\ UNCHANGED <<phase, connections, outbox, sent, cut, received, failures>>
        /\ jobs' = jobs /\ Consume(s, n, 1)
    BY <1>9 DEF Misread, ends
  <2>3. want' \in [Sockets -> [Nodes -> Nat]]
    BY <2>1, <1>1, <1>4, BluetoothAssumption
  <2>4. failures' \in Nat /\ received' \in [Sockets -> [Nodes -> Seq(Nat)]]
    BY <2>2, <1>2, <1>4 DEF TypeOK
  <2>5. QED
    BY <2>2, <2>3, <2>4, <1>6
<1>10. CASE Skip(s, n)
  <2>1. /\ want[s][n] > 0 /\ want' = [want EXCEPT ![s][n] = Unread(@)]
        /\ UNCHANGED <<phase, connections, outbox, sent, cut, received, failures>>
        /\ jobs' = jobs \/ Finish(n, job, <<job>>)
        /\ Consume(s, n, 1)
    BY <1>10 DEF Skip, ends
  <2>2. want[s][n] \in Nat /\ Unread(want[s][n]) \in Nat
    BY <2>1, <1>1, <1>4 DEF Unread
  <2>3. want' \in [Sockets -> [Nodes -> Nat]]
    BY <2>1, <2>2, <1>1, <1>4
  <2>4. failures' \in Nat /\ received' \in [Sockets -> [Nodes -> Seq(Nat)]]
    BY <2>1, <1>2, <1>4 DEF TypeOK
  <2>5. QED
    BY <2>1, <2>3, <2>4, <1>6
<1>11. CASE ReadEnd(s, n)
  <2>1. Close(s, n) /\ Finish(n, job, <<>>) /\ cut' = cut /\ failures' = failures
    BY <1>11 DEF ReadEnd
  <2>2. QED
    BY <2>1, <1>2, <1>7 DEF TypeOK
<1>12. CASE ReadTimesOut(s, n) \/ LinkIsSilent(s, n)
  <2>1. PICK had \in {0, 1} : TimeOut(s, n, had)
    BY <1>12 DEF ReadTimesOut, LinkIsSilent
  <2>2. cut' = cut /\ failures' \in Nat
    BY <1>2, <1>12 DEF ReadTimesOut, LinkIsSilent, Fails, TypeOK
  <2>3. CASE phase[s][n] = "greeting"
    <3>1. Close(s, n) /\ Finish(n, job, <<>>)
      BY <2>1, <2>3 DEF TimeOut
    <3>2. QED
      BY <3>1, <2>2, <1>7
  <2>4. CASE phase[s][n] # "greeting"
    <3>1. /\ UNCHANGED <<phase, connections, outbox, sent, received>>
          /\ want' = [want EXCEPT ![s][n] = 0]
          /\ Consume(s, n, had) /\ Finish(n, job, <<job>>)
      BY <2>1, <2>4 DEF TimeOut, ends
    <3>2. want' \in [Sockets -> [Nodes -> Nat]] /\ had \in Nat
      BY <3>1, <1>1, <1>4
    <3>3. received' \in [Sockets -> [Nodes -> Seq(Nat)]]
      BY <3>1, <1>4
    <3>4. QED
      BY <3>1, <3>2, <3>3, <2>2, <1>6
  <2>5. QED
    BY <2>3, <2>4
<1>13. CASE ReadHello(s, n)
  <2>1. cut' = cut /\ failures' \in Nat
    BY <1>2, <1>13 DEF ReadHello, TypeOK
  <2>2. CASE Taken(s, n)
    <3>1. Close(s, n) /\ Finish(n, job, <<>>)
      BY <2>2, <1>13 DEF ReadHello
    <3>2. QED
      BY <3>1, <2>1, <1>7
  <2>3. CASE ~Taken(s, n)
    <3>1. /\ phase[s][n] = "greeting" /\ phase' = [phase EXCEPT ![s][n] = "open"]
          /\ connections' = [connections EXCEPT ![n] = @ \cup {s}]
          /\ Consume(s, n, FrameSize) /\ Finish(n, job, <<job>>)
          /\ UNCHANGED <<want, outbox, sent, received, cut, failures>>
      BY <2>3, <1>13 DEF ReadHello
    <3>2. /\ phase' \in [Sockets -> [Nodes -> Phase]] /\ phase'[s][n] = "open"
          /\ OnlyAt(s, n)
      BY <3>1, <1>1, <1>4 DEF OnlyAt, Phase
    <3>3. /\ connections' \in [Nodes -> SUBSET Sockets] /\ s \in connections'[n]
          /\ \A q \in Nodes : q # n => connections'[q] = connections[q]
          /\ \A t \in Sockets : t # s => (t \in connections'[n] <=> t \in connections[n])
      BY <3>1, <1>1, <1>4
    <3>4. Pools(n, {job}, {job})
      BY <3>1, <1>1, FinishOne
    <3>5. TypeOK'
      <4>1. stream' \in [Sockets -> [Nodes -> Seq(Unit)]]
        <5>1. FrameSize \in Nat
          BY DEF FrameSize
        <5>2. QED
          BY <5>1, <3>1, <1>1, <1>2, ConsumeTypes
      <4>2. QED
        BY <4>1, <3>1, <3>2, <3>3, <3>4, <1>2 DEF TypeOK, Pools, JobRecord
    <3>6. outbox[s][n] = <<>>
      BY <3>1, <1>1, EndFits
    <3>7. Fits(s, n)'
      <4>1. In(jobs'[n], job) /\ \A x : In(jobs'[n], x) <=> In(jobs[n], x)
        BY <3>4, <1>3 DEF Pools
      <4>2. QED
        BY <4>1, <3>1, <3>2, <3>6, <1>2 DEF Fits
    <3>8. \A x \in {job} \cup {job} : x = Accepting \/ \E k : x = Job(k, s)
      OBVIOUS
    <3>9. QED
      BY <2>3, <3>1, <3>2, <3>3, <3>4, <3>5, <3>7, <3>8, EndMoves
  <2>4. QED
    BY <2>2, <2>3
<1>14. QED
  BY <1>8, <1>9, <1>10, <1>11, <1>12, <1>13

\* The invariant holds when every node begins to accept.
LEMMA PoolInit == Init => PoolInvariant
<1> SUFFICES ASSUME Init PROVE PoolInvariant
  OBVIOUS
<1>1. TypeOK
  <2>1. <<Accepting>> \in Seq(JobRecord)
    BY JobsDiffer
  <2>2. jobs \in [Nodes -> Seq(JobRecord)]
    BY <2>1 DEF Init
  <2>3. QED
    BY <2>2 DEF Init, TypeOK, Phase, JobRecord
<1>2. /\ \A n \in Nodes : jobs[n] = <<Accepting>> /\ connections[n] = {}
      /\ \A s \in Sockets, n \in Nodes : phase[s][n] = "unused" /\ outbox[s][n] = <<>>
  BY DEF Init
<1>3. \A n \in Nodes : Distinct(jobs[n]) /\ \A x : In(jobs[n], x) <=> x = Accepting
  <2>1. Distinct(<<Accepting>>) /\ \A x : In(<<Accepting>>, x) <=> x = Accepting
    BY DEF Distinct, In
  <2>2. QED
    BY <2>1, <1>2
<1>4. \A s \in Sockets : \A k \in {"connect", "send", "recv"} : Job(k, s) # Accepting
  BY JobsDiffer
<1>5. JobsFit
  BY <1>2, <1>3, <1>4 DEF JobsFit
<1>6. PhasesFit /\ OneForEach
  BY <1>2, BluetoothAssumption DEF PhasesFit, OneForEach
<1>7. QED
  BY <1>1, <1>3, <1>5, <1>6 DEF PoolInvariant

\* No step of the transport, its pool or the radio breaks the pool's invariant.
LEMMA PoolStep == PoolInvariant /\ [Next]_vars => PoolInvariant'
<1> SUFFICES ASSUME PoolInvariant, [Next]_vars PROVE PoolInvariant'
  OBVIOUS
<1>1. CASE \E n \in Nodes : AcceptJob(n)
  BY <1>1, AcceptPool
<1>2. CASE \E n, m \in Nodes : SendFrame(n, m)
  BY <1>2, SubmitPool
<1>3. CASE \E s \in Sockets : Dial(s) \/ ConnectJob(s)
  BY <1>3, DialPool, ConnectPool
<1>4. CASE \E s \in Sockets : LoseLink(s)
  <2>1. PICK s \in Sockets : LoseLink(s)
    BY <1>4
  <2>2. /\ UNCHANGED <<phase, connections, stream, want, outbox, sent, received, jobs>>
        /\ cut' = cut \cup {s} /\ failures' = failures + 1
    BY <2>1 DEF LoseLink, Fails, ends, data
  <2>3. TypeOK'
    <3>1. TypeOK
      BY DEF PoolInvariant
    <3>2. cut' \subseteq Sockets /\ failures' \in Nat
      BY <3>1, <2>2 DEF TypeOK
    <3>3. QED
      BY <3>1, <3>2, <2>2 DEF TypeOK
  <2>4. QED
    BY <2>2, <2>3, SamePools
<1>5. CASE \E s \in Sockets : \E n \in Ends(s) :
              SendJob(s, n) \/ SendFails(s, n) \/ RecvJob(s, n) \/ LinkIsSilent(s, n)
  <2>0. PICK s \in Sockets : \E n \in Ends(s) :
              SendJob(s, n) \/ SendFails(s, n) \/ RecvJob(s, n) \/ LinkIsSilent(s, n)
    BY <1>5
  <2>1. PICK n \in Ends(s) :
              SendJob(s, n) \/ SendFails(s, n) \/ RecvJob(s, n) \/ LinkIsSilent(s, n)
    BY <2>0
  <2>2. n \in Nodes
    BY TwoEnds
  <2>3. CASE Abandon(s, n, "send") \/ Abandon(s, n, "recv")
    BY <2>2, <2>3, AbandonPool
  <2>4. CASE SendHello(s, n) \/ WriteFrame(s, n) \/ SendFails(s, n)
    BY <2>4, SendPool
  <2>5. CASE \/ ReadHello(s, n) \/ ReadFrame(s, n) \/ Misread(s, n) \/ Skip(s, n)
             \/ ReadEnd(s, n) \/ ReadTimesOut(s, n) \/ LinkIsSilent(s, n)
    BY <2>5, ReadPool
  <2>6. QED
    BY <2>1, <2>3, <2>4, <2>5 DEF SendJob, RecvJob
<1>6. CASE UNCHANGED vars
  <2>1. UNCHANGED <<phase, connections, stream, want, outbox, sent, received, jobs, cut, failures>>
    BY <1>6 DEF vars, ends, data
  <2>2. TypeOK'
    BY <2>1 DEF PoolInvariant, TypeOK
  <2>3. QED
    BY <2>1, <2>2, SamePools
<1>7. QED
  BY <1>1, <1>2, <1>3, <1>4, <1>5, <1>6 DEF Next

\* Every variable of the transport keeps its type.
THEOREM BluetoothTyping == Spec => []TypeOK
<1>1. PoolInvariant => TypeOK
  BY DEF PoolInvariant
<1>2. QED
  BY <1>1, PoolInit, PoolStep, PTL DEF Spec

\* The number of times a job is in a pool.
LEMMA JobCount ==
    ASSUME PoolInvariant, NEW n \in Nodes, NEW job
    PROVE  Cardinality(JobsOf(n, job)) = IF In(jobs[n], job) THEN 1 ELSE 0
<1>1. CASE In(jobs[n], job)
  <2>1. PICK i \in DOMAIN jobs[n] : jobs[n][i] = job
    BY <1>1 DEF In
  <2>2. JobsOf(n, job) = {i}
    BY <2>1 DEF JobsOf, PoolInvariant, Distinct
  <2>3. QED
    BY <2>2, <1>1, FS_Singleton
<1>2. CASE ~In(jobs[n], job)
  <2>1. JobsOf(n, job) = {}
    BY <1>2 DEF JobsOf, In
  <2>2. QED
    BY <2>1, <1>2, FS_EmptySet
<1>3. QED
  BY <1>1, <1>2

\* A node has one connection for each peer, with one read in its pool and,
\* while frames wait to be written, one write.
THEOREM OneJob == Spec => []OneJobForEach
<1>1. PoolInvariant => OneJobForEach
  <2> SUFFICES ASSUME PoolInvariant PROVE OneJobForEach
    OBVIOUS
  <2>1. ASSUME NEW n \in Nodes, NEW s \in Sockets, phase[s][n] = "open"
        PROVE  /\ Cardinality(JobsOf(n, Job("recv", s))) = 1
               /\ Cardinality(JobsOf(n, Job("send", s)))
                     = (IF outbox[s][n] = <<>> THEN 0 ELSE 1)
    <3>1. /\ In(jobs[n], Job("recv", s))
          /\ In(jobs[n], Job("send", s)) <=> outbox[s][n] # <<>>
      BY <2>1 DEF PoolInvariant, JobsFit
    <3>2. QED
      BY <3>1, JobCount
  <2>2. QED
    BY <2>1 DEF OneJobForEach, PoolInvariant, OneForEach
<1>2. QED
  BY <1>1, PoolInit, PoolStep, PTL DEF Spec

-----------------------------------------------------------------------------
(***************************************************************************)
(* Lines.                                                                  *)
(***************************************************************************)

\* What a line says of its three parts.
LEMMA LineFacts ==
    ASSUME NEW rec \in Seq(Nat), NEW str \in Seq(Unit), NEW out \in Seq(Nat), NEW top \in Nat,
           Line(rec, str, out, top)
    PROVE  /\ \A i \in 1..Len(rec) : rec[i] \in Nat /\ rec[i] \in 1..top
           /\ \A j \in 1..Len(str) :
                 /\ str[j] \in Unit /\ str[j].frame \in Nat /\ str[j].part \in {"head", "body"}
                 /\ str[j].frame \in 0..top
           /\ \A k \in 1..Len(out) : out[k] \in Nat /\ out[k] \in 1..top
           /\ \A i, j \in 1..Len(rec) : i < j => rec[i] < rec[j]
           /\ \A i, j \in 1..Len(out) : i < j => out[i] < out[j]
           /\ \A i, j \in 1..Len(str) :
                 i < j /\ str[j].part = "head" => str[i].frame < str[j].frame
           /\ \A i \in 1..Len(str) :
                 /\ str[i].part = "head" =>
                       /\ i + 1 \in 1..Len(str)
                       /\ str[i + 1] = [frame |-> str[i].frame, part |-> "body"]
                 /\ str[i].part = "body" /\ i > 1 =>
                       str[i - 1] = [frame |-> str[i].frame, part |-> "head"]
           /\ \A i \in 1..Len(rec), j \in 1..Len(str) : rec[i] < str[j].frame
           /\ \A i \in 1..Len(rec), k \in 1..Len(out) : rec[i] < out[k]
           /\ \A j \in 1..Len(str), k \in 1..Len(out) : str[j].frame < out[k]
<1>1. \A j \in 1..Len(str) : str[j] \in Unit
  OBVIOUS
<1>2. \A j \in 1..Len(str) : str[j].frame \in Nat /\ str[j].part \in {"head", "body"}
  BY <1>1 DEF Unit
<1>3. /\ \A i \in 1..Len(rec) : rec[i] \in Nat
      /\ \A k \in 1..Len(out) : out[k] \in Nat
  OBVIOUS
<1>4. Rising(rec) /\ Rising(out) /\ Paired(str)
  BY DEF Line
<1>5. /\ \A i, j \in 1..Len(rec) : i < j => rec[i] < rec[j]
      /\ \A i, j \in 1..Len(out) : i < j => out[i] < out[j]
  BY <1>4 DEF Rising
<1>6. \A i \in 1..Len(str) :
         /\ str[i].part = "head" =>
               /\ i + 1 \in 1..Len(str)
               /\ str[i + 1] = [frame |-> str[i].frame, part |-> "body"]
         /\ str[i].part = "body" /\ i > 1 =>
               str[i - 1] = [frame |-> str[i].frame, part |-> "head"]
  BY <1>4 DEF Paired
<1>7. /\ \A i, j \in 1..Len(str) :
            i < j /\ str[j].part = "head" => str[i].frame < str[j].frame
      /\ \A i \in 1..Len(rec), j \in 1..Len(str) : rec[i] < str[j].frame
      /\ \A i \in 1..Len(rec), k \in 1..Len(out) : rec[i] < out[k]
      /\ \A j \in 1..Len(str), k \in 1..Len(out) : str[j].frame < out[k]
      /\ \A i \in 1..Len(rec) : rec[i] \in 1..top
      /\ \A j \in 1..Len(str) : str[j].frame \in 0..top
      /\ \A k \in 1..Len(out) : out[k] \in 1..top
  BY DEF Line
<1>8. QED
  BY <1>1, <1>2, <1>3, <1>5, <1>6, <1>7

\* A stream to which the first frame of a queue is written.
Written(str, out) == str \o Framed(Head(out))

\* A frame behind str leaves its head as it is, and is no hello.
Joined(str, str2) ==
    /\ str2 # <<>>
    /\ str # <<>> => Head(str2) = Head(str)
    /\ str = <<>> => Head(str2).part = "head"
    /\ (\A j \in 1..Len(str) : str[j].frame # Hello) =>
          \A j \in 1..Len(str2) : str2[j].frame # Hello

\* A frame is written: it leaves the queue and is last in the stream.
LEMMA LineWrite ==
    ASSUME NEW rec \in Seq(Nat), NEW str \in Seq(Unit), NEW out \in Seq(Nat), NEW top \in Nat,
           Line(rec, str, out, top), out # <<>>
    PROVE  /\ Written(str, out) \in Seq(Unit) /\ Tail(out) \in Seq(Nat)
           /\ Line(rec, Written(str, out), Tail(out), top)
           /\ Numbers(rec, Written(str, out), Tail(out)) \subseteq Numbers(rec, str, out)
           /\ Joined(str, Written(str, out))
<1> PICK f : f = Head(out)
  OBVIOUS
<1> PICK n \in Nat : n = Len(str)
  OBVIOUS
<1>F. /\ \A i \in 1..Len(rec) : rec[i] \in Nat /\ rec[i] \in 1..top
      /\ \A j \in 1..n :
            /\ str[j] \in Unit /\ str[j].frame \in Nat /\ str[j].part \in {"head", "body"}
            /\ str[j].frame \in 0..top
      /\ \A k \in 1..Len(out) : out[k] \in Nat /\ out[k] \in 1..top
  BY LineFacts
<1>R. /\ \A i, j \in 1..Len(rec) : i < j => rec[i] < rec[j]
      /\ \A i, j \in 1..Len(out) : i < j => out[i] < out[j]
      /\ \A i, j \in 1..n : i < j /\ str[j].part = "head" => str[i].frame < str[j].frame
  BY LineFacts
<1>P. \A i \in 1..n :
         /\ str[i].part = "head" =>
               i + 1 \in 1..n /\ str[i + 1] = [frame |-> str[i].frame, part |-> "body"]
         /\ str[i].part = "body" /\ i > 1 =>
               str[i - 1] = [frame |-> str[i].frame, part |-> "head"]
  BY LineFacts
<1>B. /\ \A i \in 1..Len(rec), j \in 1..n : rec[i] < str[j].frame
      /\ \A i \in 1..Len(rec), k \in 1..Len(out) : rec[i] < out[k]
      /\ \A j \in 1..n, k \in 1..Len(out) : str[j].frame < out[k]
  BY LineFacts
<1>1. f \in Nat /\ f = out[1] /\ Len(out) > 0 /\ f \in 1..top
  <2>1. f = out[1]
    OBVIOUS
  <2>2. Len(out) \in Nat /\ Len(out) > 0
    BY LenProperties, EmptySeq
  <2>3. 1 \in 1..Len(out)
    BY <2>2
  <2> QED BY <1>F, <2>1, <2>2, <2>3
<1>2. PICK tail : tail = Tail(out)
  OBVIOUS
<1>3. /\ tail \in Seq(Nat) /\ Len(tail) = Len(out) - 1
      /\ \A k \in 1..Len(tail) : k + 1 \in 1..Len(out) /\ tail[k] = out[k + 1]
  BY <1>2
<1> PICK pair : pair = Framed(f)
  OBVIOUS
<1>4. /\ pair \in Seq(Unit) /\ Len(pair) = 2
      /\ pair[1] = [frame |-> f, part |-> "head"] /\ pair[2] = [frame |-> f, part |-> "body"]
  BY <1>1 DEF Framed, Unit
<1> PICK s2 : s2 = str \o pair
  OBVIOUS
<1>5. /\ s2 \in Seq(Unit) /\ Len(s2) = n + 2
      /\ \A j \in 1..n : j \in 1..Len(s2) /\ s2[j] = str[j]
      /\ n + 1 \in 1..Len(s2) /\ s2[n + 1] = pair[1]
      /\ n + 2 \in 1..Len(s2) /\ s2[n + 2] = pair[2]
  <2>1. s2 \in Seq(Unit) /\ Len(s2) = Len(str) + Len(pair)
    BY <1>4, ConcatProperties
  <2>2. \A j \in 1..(Len(str) + Len(pair)) :
           s2[j] = IF j <= Len(str) THEN str[j] ELSE pair[j - Len(str)]
    BY <1>4, ConcatProperties
  <2>3. Len(s2) = n + 2 /\ \A j \in 1..(n + 2) : s2[j] = IF j <= n THEN str[j] ELSE pair[j - n]
    BY <2>1, <2>2, <1>4
  <2>4. /\ n + 1 \in 1..(n + 2) /\ ~(n + 1 <= n) /\ (n + 1) - n = 1
        /\ n + 2 \in 1..(n + 2) /\ ~(n + 2 <= n) /\ (n + 2) - n = 2
        /\ \A j \in 1..n : j \in 1..(n + 2) /\ j <= n
    OBVIOUS
  <2>5. s2[n + 1] = pair[1] /\ s2[n + 2] = pair[2]
    BY <2>3, <2>4
  <2>6. \A j \in 1..n : s2[j] = str[j]
    BY <2>3, <2>4
  <2>7. QED
    BY <2>1, <2>3, <2>4, <2>5, <2>6
<1>6. \A j \in 1..Len(s2) : j \in 1..n \/ (j > n /\ s2[j].frame = f)
  BY <1>4, <1>5
<1>7. \A j \in 1..Len(s2) : j \in 1..n \/ j = n + 1 \/ j = n + 2
  <2>1. Len(s2) = n + 2
    BY <1>5
  <2>2. \A j \in 1..(n + 2) : j \in 1..n \/ j = n + 1 \/ j = n + 2
    OBVIOUS
  <2>3. QED
    BY <2>1, <2>2
<1>8. /\ s2[n + 1].part = "head" /\ s2[n + 1].frame = f
      /\ s2[n + 2].part = "body" /\ s2[n + 2].frame = f
  BY <1>4, <1>5
<1>9. Paired(s2)
  <2>1. ASSUME NEW i \in 1..Len(s2), s2[i].part = "head"
        PROVE  i + 1 \in 1..Len(s2) /\ s2[i + 1] = [frame |-> s2[i].frame, part |-> "body"]
    <3>1. CASE i \in 1..n
      <4>1. i + 1 \in 1..n /\ str[i + 1] = [frame |-> str[i].frame, part |-> "body"]
        BY <3>1, <2>1, <1>P, <1>5
      <4>2. s2[i + 1] = str[i + 1] /\ s2[i] = str[i] /\ i + 1 \in 1..Len(s2)
        BY <4>1, <3>1, <1>5
      <4>3. QED
        BY <4>1, <4>2
    <3>2. CASE i = n + 1
      <4>1. i + 1 = n + 2
        BY <3>2
      <4>2. QED
        BY <3>2, <4>1, <1>4, <1>5
    <3>3. CASE i = n + 2
      BY <3>3, <2>1, <1>8
    <3>4. QED
      BY <3>1, <3>2, <3>3, <1>7
  <2>2. ASSUME NEW i \in 1..Len(s2), s2[i].part = "body", i > 1
        PROVE  s2[i - 1] = [frame |-> s2[i].frame, part |-> "head"]
    <3>1. CASE i \in 1..n
      <4>1. i - 1 \in 1..n
        BY <3>1, <2>2
      <4>2. str[i - 1] = [frame |-> str[i].frame, part |-> "head"]
        BY <3>1, <2>2, <1>P, <1>5
      <4>3. s2[i - 1] = str[i - 1] /\ s2[i] = str[i]
        BY <4>1, <3>1, <1>5
      <4>4. QED
        BY <4>2, <4>3
    <3>2. CASE i = n + 1
      BY <3>2, <2>2, <1>8
    <3>3. CASE i = n + 2
      <4>1. i - 1 = n + 1
        BY <3>3
      <4>2. QED
        BY <3>3, <4>1, <1>4, <1>5
    <3>4. QED
      BY <3>1, <3>2, <3>3, <1>7
  <2>3. QED
    BY <2>1, <2>2 DEF Paired
<1>10. Rising(tail)
  <2>1. Rising(out) /\ DOMAIN out = 1..Len(out) /\ DOMAIN tail = 1..Len(tail)
    BY <1>3 DEF Line
  <2>2. ASSUME NEW k \in 1..Len(tail), NEW l \in 1..Len(tail), k < l
        PROVE  tail[k] < tail[l]
    BY <2>1, <2>2, <1>3 DEF Rising
  <2>3. QED
    BY <2>1, <2>2 DEF Rising
<1>11. ASSUME NEW i \in 1..Len(s2), NEW j \in 1..Len(s2), i < j, s2[j].part = "head"
       PROVE  s2[i].frame < s2[j].frame
  <2>1. CASE j \in 1..n
    <3>1. i \in 1..n
      BY <2>1, <1>11
    <3>2. QED
      BY <2>1, <3>1, <1>5, <1>11 DEF Line
  <2>2. CASE j = n + 1
    <3>1. i \in 1..n /\ s2[j].frame = f
      BY <2>2, <1>8, <1>11
    <3>2. 1 \in 1..Len(out)
      BY <1>1
    <3>3. str[i].frame < out[1]
      BY <3>1, <3>2 DEF Line
    <3>4. QED
      BY <3>1, <3>3, <1>1, <1>5
  <2>3. CASE j = n + 2
    BY <2>3, <1>8, <1>11
  <2>4. QED
    BY <2>1, <2>2, <2>3, <1>7
<1>12. /\ \A i \in 1..Len(rec), j \in 1..Len(s2) : rec[i] < s2[j].frame
       /\ \A j \in 1..Len(s2) : s2[j].frame \in 0..top
  <2>1. 1 \in 1..Len(out)
    BY <1>1
  <2>2. \A i \in 1..Len(rec) : rec[i] < f
    BY <2>1, <1>1, <1>B
  <2>3. f \in 0..top
    BY <1>1
  <2>4. ASSUME NEW j \in 1..Len(s2)
        PROVE  s2[j].frame \in 0..top /\ \A i \in 1..Len(rec) : rec[i] < s2[j].frame
    <3>1. CASE j \in 1..n
      BY <3>1, <1>5, <1>F, <1>B
    <3>2. CASE s2[j].frame = f
      BY <3>2, <2>2, <2>3
    <3>3. QED
      BY <3>1, <3>2, <1>6
  <2>5. QED
    BY <2>4
<1>13. \A j \in 1..Len(s2), k \in 1..Len(tail) : s2[j].frame < tail[k]
  <2> SUFFICES ASSUME NEW j \in 1..Len(s2), NEW k \in 1..Len(tail)
               PROVE  s2[j].frame < tail[k]
    OBVIOUS
  <2>1. CASE j \in 1..n
    BY <2>1, <1>3, <1>5 DEF Line
  <2>2. CASE s2[j].frame = f
    <3>1. /\ 1 \in 1..Len(out) /\ k + 1 \in 1..Len(out) /\ 1 < k + 1
      BY <1>1, <1>3
    <3>2. out[1] < out[k + 1]
      BY <3>1, <1>R
    <3>3. QED
      BY <3>2, <2>2, <1>1, <1>3
  <2>3. QED
    BY <2>1, <2>2, <1>6
<1>14. Line(rec, s2, tail, top)
  <2>1. \A k \in 1..Len(tail) : tail[k] \in 1..top /\ \A i \in 1..Len(rec) : rec[i] < tail[k]
    BY <1>3, <1>F, <1>B
  <2>2. Rising(rec) /\ \A i \in 1..Len(rec) : rec[i] \in 1..top
    BY DEF Line
  <2>3. \A i, j \in 1..Len(s2) :
           i < j /\ s2[j].part = "head" => s2[i].frame < s2[j].frame
    BY <1>11
  <2>4. \A k \in 1..Len(tail) : tail[k] \in 1..top
    BY <2>1
  <2>5. \A i \in 1..Len(rec), k \in 1..Len(tail) : rec[i] < tail[k]
    BY <2>1
  <2>6. QED
    BY <2>2, <2>3, <2>4, <2>5, <1>9, <1>10, <1>12, <1>13 DEF Line
<1>15. Numbers(rec, s2, tail) \subseteq Numbers(rec, str, out)
  <2> SUFFICES ASSUME NEW x \in Numbers(rec, s2, tail) PROVE x \in Numbers(rec, str, out)
    OBVIOUS
  <2>1. x # Hello /\ 1 \in 1..Len(out)
    BY <1>1 DEF Numbers
  <2>2. CASE \E i \in 1..Len(rec) : rec[i] = x
    BY <2>1, <2>2 DEF Numbers
  <2>3. CASE \E j \in 1..Len(s2) : s2[j].frame = x
    <3>1. PICK j \in 1..Len(s2) : s2[j].frame = x
      BY <2>3
    <3>2. CASE j \in 1..n
      <4>1. str[j].frame = x
        BY <3>1, <3>2, <1>5
      <4>2. QED
        BY <2>1, <3>2, <4>1 DEF Numbers
    <3>3. CASE x = f
      BY <2>1, <3>3, <1>1 DEF Numbers
    <3>4. QED
      BY <3>1, <3>2, <3>3, <1>6
  <2>4. CASE \E k \in 1..Len(tail) : tail[k] = x
    BY <2>1, <2>4, <1>3 DEF Numbers
  <2>5. QED
    BY <2>2, <2>3, <2>4 DEF Numbers
<1>16. s2 # <<>> /\ Head(s2) = s2[1]
  BY <1>5
<1>17. (str # <<>> => Head(s2) = Head(str)) /\ (str = <<>> => Head(s2).part = "head")
  BY <1>5, <1>8, <1>16
<1>18. (\A j \in 1..Len(str) : str[j].frame # Hello) => \A j \in 1..Len(s2) : s2[j].frame # Hello
  <2>1. f # Hello
    BY <1>1 DEF Hello
  <2>2. \A j \in 1..Len(s2) : (j \in 1..n /\ s2[j] = str[j]) \/ s2[j].frame = f
    BY <1>5, <1>6
  <2>3. QED
    BY <2>1, <2>2
<1>19. Written(str, out) = s2
  BY DEF Written
<1>20. Joined(str, s2)
  BY <1>16, <1>17, <1>18 DEF Joined
<1>21. QED
  BY <1>2, <1>5, <1>3, <1>14, <1>15, <1>19, <1>20

\* What is left of a stream when k units were read.
Rest(str, k) == SubSeq(str, k + 1, Len(str))

\* str2 is str without its first k units.
Shortened(rec, str, out, top, k, str2) ==
    /\ str2 \in Seq(Unit)
    /\ \A j \in 1..Len(str2) : k + j \in 1..Len(str) /\ str2[j] = str[k + j]
    /\ Line(rec, str2, out, top)
    /\ Numbers(rec, str2, out) \subseteq Numbers(rec, str, out)

\* A line stays one when its reader takes units out of the stream.
LEMMA LineConsume ==
    ASSUME NEW rec \in Seq(Nat), NEW str \in Seq(Unit), NEW out \in Seq(Nat), NEW top \in Nat,
           Line(rec, str, out, top), NEW k \in Nat
    PROVE  Shortened(rec, str, out, top, k, Rest(str, k))
<1> PICK s2 : s2 = Rest(str, k)
  OBVIOUS
<1> PICK n \in Nat : n = Len(str)
  OBVIOUS
<1>F. /\ \A i \in 1..Len(rec) : rec[i] \in Nat /\ rec[i] \in 1..top
      /\ \A j \in 1..n :
            /\ str[j] \in Unit /\ str[j].frame \in Nat /\ str[j].part \in {"head", "body"}
            /\ str[j].frame \in 0..top
      /\ \A m \in 1..Len(out) : out[m] \in Nat /\ out[m] \in 1..top
  BY LineFacts
<1>R. /\ \A i, j \in 1..Len(rec) : i < j => rec[i] < rec[j]
      /\ \A i, j \in 1..Len(out) : i < j => out[i] < out[j]
      /\ \A i, j \in 1..n : i < j /\ str[j].part = "head" => str[i].frame < str[j].frame
  BY LineFacts
<1>P. \A i \in 1..n :
         /\ str[i].part = "head" =>
               i + 1 \in 1..n /\ str[i + 1] = [frame |-> str[i].frame, part |-> "body"]
         /\ str[i].part = "body" /\ i > 1 =>
               str[i - 1] = [frame |-> str[i].frame, part |-> "head"]
  BY LineFacts
<1>B. /\ \A i \in 1..Len(rec), j \in 1..n : rec[i] < str[j].frame
      /\ \A i \in 1..Len(rec), m \in 1..Len(out) : rec[i] < out[m]
      /\ \A j \in 1..n, m \in 1..Len(out) : str[j].frame < out[m]
  BY LineFacts
<1>1. /\ s2 \in Seq(Unit)
      /\ Len(s2) = IF k + 1 <= n THEN n - (k + 1) + 1 ELSE 0
      /\ \A j \in 1..(n - (k + 1) + 1) : s2[j] = str[(k + 1) + j - 1]
  <2>1. \A j \in (k + 1)..n : j \in 1..n
    OBVIOUS
  <2>2. QED
    BY <2>1, SubSeqProperties DEF Rest
<1>2. Len(s2) = IF k <= n THEN n - k ELSE 0
  <2>1. Len(s2) = IF k + 1 <= n THEN n - (k + 1) + 1 ELSE 0
    BY <1>1
  <2>2. CASE k < n
    BY <2>1, <2>2
  <2>3. CASE k = n
    BY <2>1, <2>3
  <2>4. CASE k > n
    BY <2>1, <2>4
  <2>5. QED
    BY <2>2, <2>3, <2>4
<1>3. ASSUME NEW j \in 1..Len(s2) PROVE k + j \in 1..n /\ s2[j] = str[k + j]
  <2>1. k + j \in 1..n /\ j \in 1..(n - (k + 1) + 1) /\ (k + 1) + j - 1 = k + j
    BY <1>2
  <2>2. QED
    BY <2>1, <1>1
<1>4. Paired(s2)
  <2>1. Paired(str)
    BY DEF Line
  <2>2. ASSUME NEW i \in 1..Len(s2), s2[i].part = "head"
        PROVE  i + 1 \in 1..Len(s2) /\ s2[i + 1] = [frame |-> s2[i].frame, part |-> "body"]
    <3>1. /\ (k + i) + 1 \in 1..n
          /\ str[(k + i) + 1] = [frame |-> str[k + i].frame, part |-> "body"]
      BY <2>1, <2>2, <1>3 DEF Paired
    <3>2. i + 1 \in 1..Len(s2) /\ k + (i + 1) = (k + i) + 1
      <4>1. (k + i) + 1 \in 1..n
        BY <3>1
      <4>2. QED
        BY <4>1, <1>2
    <3>3. QED
      BY <3>1, <3>2, <1>3
  <2>3. ASSUME NEW i \in 1..Len(s2), s2[i].part = "body", i > 1
        PROVE  s2[i - 1] = [frame |-> s2[i].frame, part |-> "head"]
    <3>1. i - 1 \in 1..Len(s2) /\ k + (i - 1) = (k + i) - 1 /\ k + i > 1
      BY <2>3, <1>2
    <3>2. str[(k + i) - 1] = [frame |-> str[k + i].frame, part |-> "head"]
      BY <3>1, <2>1, <2>3, <1>3 DEF Paired
    <3>3. QED
      BY <3>1, <3>2, <1>3
  <2>4. QED
    BY <2>2, <2>3 DEF Paired
<1>5. ASSUME NEW i \in 1..Len(s2), NEW j \in 1..Len(s2), i < j, s2[j].part = "head"
      PROVE  s2[i].frame < s2[j].frame
  <2>1. k + i < k + j
    BY <1>2, <1>5
  <2>2. QED
    BY <2>1, <1>3, <1>5 DEF Line
<1>6. Line(rec, s2, out, top)
  BY <1>3, <1>4, <1>5 DEF Line
<1>7. Numbers(rec, s2, out) \subseteq Numbers(rec, str, out)
  <2>1. \A j \in 1..Len(s2) : \E i \in 1..Len(str) : s2[j].frame = str[i].frame
    BY <1>3
  <2>2. QED
    BY <2>1 DEF Numbers
<1>8. QED
  BY <1>1, <1>3, <1>6, <1>7 DEF Shortened

\* What follows frame f in a stream is greater and begins with a head, and the
\* frame joins what was read.
Follows(rec, str, out, top, f, str2) ==
    /\ str2 \in Seq(Unit) /\ Line(rec, str2, out, top)
    /\ Numbers(rec, str2, out) \subseteq Numbers(rec, str, out)
    /\ str2 # <<>> => Head(str2).part = "head"
    /\ \A j \in 1..Len(str2) : f < str2[j].frame
    /\ f # Hello =>
          /\ Line(Append(rec, f), str2, out, top)
          /\ Numbers(Append(rec, f), str2, out) \subseteq Numbers(rec, str, out)

\* A frame is read in place.
LEMMA LineRead ==
    ASSUME NEW rec \in Seq(Nat), NEW str \in Seq(Unit), NEW out \in Seq(Nat), NEW top \in Nat,
           Line(rec, str, out, top), str # <<>>, Head(str).part = "head"
    PROVE  Follows(rec, str, out, top, Head(str).frame, Rest(str, FrameSize))
<1> PICK s2 : s2 = Rest(str, FrameSize)
  OBVIOUS
<1>C. /\ s2 \in Seq(Unit) /\ Line(rec, s2, out, top)
      /\ \A j \in 1..Len(s2) : FrameSize + j \in 1..Len(str) /\ s2[j] = str[FrameSize + j]
      /\ Numbers(rec, s2, out) \subseteq Numbers(rec, str, out)
  <2>1. FrameSize \in Nat
    BY DEF FrameSize
  <2>2. Shortened(rec, str, out, top, FrameSize, Rest(str, FrameSize))
    BY <2>1, LineConsume
  <2>3. QED
    BY <2>2 DEF Shortened
<1> PICK n \in Nat : n = Len(str)
  OBVIOUS
<1>F. /\ \A i \in 1..Len(rec) : rec[i] \in Nat /\ rec[i] \in 1..top
      /\ \A j \in 1..n :
            /\ str[j] \in Unit /\ str[j].frame \in Nat /\ str[j].part \in {"head", "body"}
            /\ str[j].frame \in 0..top
      /\ \A k \in 1..Len(out) : out[k] \in Nat /\ out[k] \in 1..top
  BY LineFacts
<1>R. /\ \A i, j \in 1..Len(rec) : i < j => rec[i] < rec[j]
      /\ \A i, j \in 1..Len(out) : i < j => out[i] < out[j]
      /\ \A i, j \in 1..n : i < j /\ str[j].part = "head" => str[i].frame < str[j].frame
  BY LineFacts
<1>P. \A i \in 1..n :
         /\ str[i].part = "head" =>
               i + 1 \in 1..n /\ str[i + 1] = [frame |-> str[i].frame, part |-> "body"]
         /\ str[i].part = "body" /\ i > 1 =>
               str[i - 1] = [frame |-> str[i].frame, part |-> "head"]
  BY LineFacts
<1>B. /\ \A i \in 1..Len(rec), j \in 1..n : rec[i] < str[j].frame
      /\ \A i \in 1..Len(rec), k \in 1..Len(out) : rec[i] < out[k]
      /\ \A j \in 1..n, k \in 1..Len(out) : str[j].frame < out[k]
  BY LineFacts
<1> PICK f : f = Head(str).frame
  OBVIOUS
<1>1. /\ s2 \in Seq(Unit) /\ Line(rec, s2, out, top)
      /\ \A j \in 1..Len(s2) : 2 + j \in 1..n /\ s2[j] = str[2 + j]
      /\ Numbers(rec, s2, out) \subseteq Numbers(rec, str, out)
  <2>1. FrameSize = 2
    BY DEF FrameSize
  <2>2. QED
    BY <2>1, <1>C
<1>2. /\ 1 \in 1..n /\ str[1].part = "head" /\ str[1].frame = f /\ str[1] \in Unit /\ f \in Nat
  <2>1. 1 \in 1..n /\ Head(str) = str[1] /\ str[1] \in Unit
    OBVIOUS
  <2>2. QED
    BY <2>1 DEF Unit
<1>3. 2 \in 1..n /\ str[2].part = "body"
  <2>1. 1 + 1 \in 1..n /\ str[1 + 1] = [frame |-> str[1].frame, part |-> "body"]
    BY <1>2 DEF Line, Paired
  <2>2. 1 + 1 = 2
    OBVIOUS
  <2>3. QED
    BY <2>1, <2>2
<1>4. \A j \in 1..n : str[j].part \in {"head", "body"} /\ str[j].frame \in Nat
  BY <1>F
<1>5. \A j \in 3..n : j \in 1..n /\ j > 1 /\ j - 1 \in 1..n /\ j - 1 >= 2
  OBVIOUS
<1>6. ASSUME 3 \in 1..n PROVE str[3].part = "head"
  <2>1. PICK i \in 1..n : i = 3
    BY <1>6
  <2>2. str[i].part = "body" => str[i - 1].part = "head"
    <3>1. i \in 1..n /\ i > 1
      BY <2>1
    <3>2. str[i].part = "body" => str[i - 1] = [frame |-> str[i].frame, part |-> "head"]
      BY <3>1, <1>P
    <3>3. QED
      BY <3>2
  <2>3. i - 1 = 2
    BY <2>1
  <2>4. QED
    BY <2>1, <2>2, <2>3, <1>3, <1>4, <1>6
<1>7. ASSUME NEW j \in 3..n PROVE f < str[j].frame
  <2>1. CASE str[j].part = "head"
    BY <2>1, <1>2, <1>5 DEF Line
  <2>2. CASE str[j].part = "body"
    <3>1. /\ str[j - 1].part = "head" /\ str[j - 1].frame = str[j].frame
      <4>1. str[j - 1] = [frame |-> str[j].frame, part |-> "head"]
        BY <2>2, <1>5, <1>P
      <4>2. QED
        BY <4>1
    <3>2. 1 < j - 1
      BY <1>5
    <3>3. str[1].frame < str[j - 1].frame
      BY <3>1, <3>2, <1>2, <1>5 DEF Line
    <3>4. QED
      BY <3>1, <3>3, <1>2
  <2>3. QED
    BY <2>1, <2>2, <1>4, <1>5
<1>8. \A j \in 1..Len(s2) : f < s2[j].frame
  <2>1. \A j \in 1..Len(s2) : 2 + j \in 3..n
    BY <1>1
  <2>2. QED
    BY <2>1, <1>1, <1>7
<1>9. s2 # <<>> => Head(s2).part = "head"
  <2> SUFFICES ASSUME s2 # <<>> PROVE Head(s2).part = "head"
    OBVIOUS
  <2>1. 1 \in 1..Len(s2) /\ Head(s2) = s2[1]
    BY <1>1
  <2>2. 2 + 1 = 3
    OBVIOUS
  <2>3. QED
    BY <2>1, <2>2, <1>1, <1>6
<1>10. ASSUME f # Hello
       PROVE  /\ Append(rec, f) \in Seq(Nat)
              /\ Line(Append(rec, f), s2, out, top)
              /\ Numbers(Append(rec, f), s2, out) \subseteq Numbers(rec, str, out)
  <2> PICK r \in Nat : r = Len(rec)
    OBVIOUS
  <2> PICK r2 : r2 = Append(rec, f)
    OBVIOUS
  <2>1. /\ r2 \in Seq(Nat) /\ Len(r2) = r + 1 /\ r2[r + 1] = f
        /\ \A i \in 1..r : i \in 1..Len(r2) /\ r2[i] = rec[i]
    BY <1>2
  <2>2. \A i \in 1..Len(r2) : i \in 1..r \/ i = r + 1
    BY <2>1
  <2>3. \A i \in 1..r : rec[i] < f
    BY <1>2 DEF Line
  <2>4. f \in 1..top
    BY <1>2, <1>10 DEF Line, Hello
  <2>5. \A k \in 1..Len(out) : f < out[k]
    BY <1>2 DEF Line
  <2>6. Rising(r2)
    <3>1. \A i, j \in 1..r : i < j => rec[i] < rec[j]
      BY DEF Line, Rising
    <3>2. ASSUME NEW i \in 1..Len(r2), NEW j \in 1..Len(r2), i < j PROVE r2[i] < r2[j]
      <4>1. i \in 1..r
        BY <2>1, <3>2
      <4>2. QED
        BY <4>1, <3>1, <3>2, <2>1, <2>2, <2>3
    <3>3. QED
      BY <3>2, <2>1 DEF Rising
  <2>7. Line(r2, s2, out, top)
    <3>1. \A i \in 1..Len(r2), j \in 1..Len(s2) : r2[i] < s2[j].frame
      BY <1>1, <1>8, <2>1, <2>2 DEF Line
    <3>2. \A i \in 1..Len(r2), k \in 1..Len(out) : r2[i] < out[k]
      BY <2>1, <2>2, <2>5 DEF Line
    <3>3. \A i \in 1..Len(r2) : r2[i] \in 1..top
      BY <2>1, <2>2, <2>4 DEF Line
    <3>4. QED
      BY <3>1, <3>2, <3>3, <2>6, <1>1 DEF Line
  <2>8. Numbers(r2, s2, out) \subseteq Numbers(rec, str, out)
    <3> SUFFICES ASSUME NEW x \in Numbers(r2, s2, out) PROVE x \in Numbers(rec, str, out)
      OBVIOUS
    <3>1. x # Hello
      BY DEF Numbers
    <3>2. CASE \E i \in 1..Len(r2) : r2[i] = x
      <4>1. (\E i \in 1..Len(rec) : rec[i] = x) \/ x = str[1].frame
        BY <3>2, <1>2, <2>1, <2>2
      <4>2. QED
        BY <4>1, <3>1, <1>2 DEF Numbers
    <3>3. CASE \E j \in 1..Len(s2) : s2[j].frame = x
      BY <3>1, <3>3, <1>1 DEF Numbers
    <3>4. CASE \E k \in 1..Len(out) : out[k] = x
      BY <3>1, <3>4 DEF Numbers
    <3>5. QED
      BY <3>2, <3>3, <3>4 DEF Numbers
  <2>9. QED
    BY <2>1, <2>7, <2>8
<1>11. QED
  BY <1>1, <1>8, <1>9, <1>10 DEF Follows

\* A frame is queued under the next number.
LEMMA LineSend ==
    ASSUME NEW rec \in Seq(Nat), NEW str \in Seq(Unit), NEW out \in Seq(Nat), NEW top \in Nat,
           Line(rec, str, out, top)
    PROVE  /\ Line(rec, str, Append(out, top + 1), top + 1)
           /\ Line(rec, str, out, top + 1)
           /\ Numbers(rec, str, Append(out, top + 1))
                 \subseteq Numbers(rec, str, out) \cup {top + 1}
           /\ top + 1 \notin Numbers(rec, str, out)
<1>F. /\ \A i \in 1..Len(rec) : rec[i] \in Nat /\ rec[i] \in 1..top
      /\ \A j \in 1..Len(str) : str[j].frame \in Nat /\ str[j].frame \in 0..top
      /\ \A k \in 1..Len(out) : out[k] \in Nat /\ out[k] \in 1..top
      /\ \A i, j \in 1..Len(out) : i < j => out[i] < out[j]
  BY LineFacts
<1>B. /\ \A i, j \in 1..Len(str) :
            i < j /\ str[j].part = "head" => str[i].frame < str[j].frame
      /\ \A i \in 1..Len(rec), j \in 1..Len(str) : rec[i] < str[j].frame
      /\ \A i \in 1..Len(rec), k \in 1..Len(out) : rec[i] < out[k]
      /\ \A j \in 1..Len(str), k \in 1..Len(out) : str[j].frame < out[k]
  BY LineFacts
<1>L. Rising(rec) /\ Rising(out) /\ Paired(str)
  BY DEF Line
<1> PICK n \in Nat : n = Len(out)
  OBVIOUS
<1> PICK new \in Nat : new = top + 1
  OBVIOUS
<1>1. \A x \in Nat : x \in 1..top => x \in 1..new /\ x < new
  OBVIOUS
<1>2. \A x \in Nat : x \in 0..top => x \in 0..new /\ x < new
  OBVIOUS
<1> PICK out2 : out2 = Append(out, new)
  OBVIOUS
<1>3. /\ Len(out2) = n + 1 /\ out2[n + 1] = new
      /\ \A k \in 1..n : k \in 1..Len(out) /\ out2[k] = out[k]
  OBVIOUS
<1>4. \A k \in 1..Len(out2) : k \in 1..n \/ k = n + 1
  BY <1>3
<1>5. /\ \A i \in 1..Len(rec) : rec[i] \in 1..new /\ rec[i] < new
      /\ \A j \in 1..Len(str) : str[j].frame \in 0..new /\ str[j].frame < new
      /\ \A k \in 1..Len(out) : out[k] \in 1..new /\ out[k] < new
  BY <1>1, <1>2, <1>F
<1>6. \A k \in 1..Len(out2) : out2[k] \in 1..new
  BY <1>3, <1>4, <1>5
<1>7. \A i \in 1..Len(rec), k \in 1..Len(out2) : rec[i] < out2[k]
  BY <1>3, <1>4, <1>5, <1>B
<1>8. \A j \in 1..Len(str), k \in 1..Len(out2) : str[j].frame < out2[k]
  BY <1>3, <1>4, <1>5, <1>B
<1>9. Rising(out2)
  <2> SUFFICES ASSUME NEW i \in 1..Len(out2), NEW j \in 1..Len(out2), i < j
               PROVE  out2[i] < out2[j]
    BY DEF Rising
  <2>1. i \in 1..n
    BY <1>3
  <2>2. CASE j \in 1..n
    BY <2>1, <2>2, <1>3, <1>F
  <2>3. CASE j = n + 1
    BY <2>1, <2>3, <1>3, <1>5
  <2>4. QED
    BY <2>2, <2>3, <1>4
<1>10. Line(rec, str, out2, new)
  BY <1>5, <1>6, <1>7, <1>8, <1>9, <1>B, <1>L DEF Line
<1>11. Line(rec, str, out, new)
  BY <1>5, <1>B, <1>L DEF Line
<1>12. Numbers(rec, str, out2) \subseteq Numbers(rec, str, out) \cup {new}
  BY <1>3, <1>4 DEF Numbers
<1>13. new \notin Numbers(rec, str, out)
  <2>1. ~(new < new)
    OBVIOUS
  <2>2. QED
    BY <2>1, <1>5 DEF Numbers
<1>14. QED
  BY <1>10, <1>11, <1>12, <1>13

\* What is lost with a connection leaves a line.
LEMMA LineClear ==
    ASSUME NEW rec \in Seq(Nat), NEW str \in Seq(Unit), NEW out \in Seq(Nat), NEW top \in Nat,
           Line(rec, str, out, top)
    PROVE  /\ Line(rec, <<>>, out, top) /\ Line(rec, str, <<>>, top)
           /\ Numbers(rec, <<>>, out) \subseteq Numbers(rec, str, out)
           /\ Numbers(rec, str, <<>>) \subseteq Numbers(rec, str, out)
<1>1. Len(<<>>) = 0 /\ \A i : i \notin 1..0
  OBVIOUS
<1>2. Rising(<<>>) /\ Paired(<<>>)
  BY <1>1 DEF Rising, Paired
<1>3. Line(rec, <<>>, out, top)
  BY <1>1, <1>2 DEF Line
<1>4. Line(rec, str, <<>>, top)
  BY <1>1, <1>2 DEF Line
<1>5. QED
  BY <1>1, <1>3, <1>4 DEF Numbers

\* A line begins with nothing, or with the hello.
LEMMA LineHello ==
    ASSUME NEW top \in Nat
    PROVE  /\ Line(<<>>, <<>>, <<>>, top) /\ Numbers(<<>>, <<>>, <<>>) = {}
           /\ Framed(Hello) \in Seq(Unit) /\ Line(<<>>, Framed(Hello), <<>>, top)
           /\ Numbers(<<>>, Framed(Hello), <<>>) = {}
           /\ Framed(Hello) # <<>> /\ Head(Framed(Hello)) = HeadOfHello
<1>1. Len(<<>>) = 0 /\ \A i : i \notin 1..0
  OBVIOUS
<1>2. Rising(<<>>) /\ Paired(<<>>)
  BY <1>1 DEF Rising, Paired
<1>3. Line(<<>>, <<>>, <<>>, top) /\ Numbers(<<>>, <<>>, <<>>) = {}
  BY <1>1, <1>2 DEF Line, Numbers
<1> PICK str : str = Framed(Hello)
  OBVIOUS
<1>4. /\ Hello \in Nat /\ str \in Seq(Unit) /\ Len(str) = 2 /\ str # <<>> /\ Head(str) = str[1]
      /\ str[1] = [frame |-> Hello, part |-> "head"]
      /\ str[2] = [frame |-> Hello, part |-> "body"]
  BY DEF Framed, Unit, Hello
<1>5. /\ str[1].part = "head" /\ str[1].frame = Hello
      /\ str[2].part = "body" /\ str[2].frame = Hello
  BY <1>4
<1>6. \A j \in 1..2 : j = 1 \/ j = 2
  OBVIOUS
<1>7. 1 + 1 = 2 /\ 2 - 1 = 1 /\ 1 \in 1..2 /\ 2 \in 1..2
  OBVIOUS
<1>8. Paired(str)
  <2>1. \A i \in 1..2 : str[i].part = "head" =>
            i + 1 \in 1..2 /\ str[i + 1] = [frame |-> str[i].frame, part |-> "body"]
    BY <1>4, <1>5, <1>6, <1>7
  <2>2. \A i \in 1..2 : str[i].part = "body" /\ i > 1 =>
            str[i - 1] = [frame |-> str[i].frame, part |-> "head"]
    BY <1>4, <1>5, <1>6, <1>7
  <2>3. QED
    BY <2>1, <2>2, <1>4 DEF Paired
<1>9. /\ \A i, j \in 1..Len(str) : i < j /\ str[j].part = "head" => str[i].frame < str[j].frame
      /\ \A j \in 1..Len(str) : str[j].frame \in 0..top /\ str[j].frame = Hello
  <2>1. \A i, j \in 1..2 : i < j => j = 2
    OBVIOUS
  <2>2. Hello \in 0..top
    BY DEF Hello
  <2>3. QED
    BY <2>1, <2>2, <1>4, <1>5, <1>6
<1>10. Line(<<>>, str, <<>>, top)
  BY <1>1, <1>2, <1>8, <1>9 DEF Line
<1>11. Numbers(<<>>, str, <<>>) = {}
  BY <1>1, <1>9 DEF Numbers
<1>12. QED
  BY <1>3, <1>4, <1>10, <1>11 DEF HeadOfHello

\* The phases before an end has written its hello.
Early == {"unused", "connecting", "backlog", "hello"}

\* A step leaves every other socket as it is.
Elsewhere(s) ==
    \A t \in Sockets : t # s =>
        /\ phase'[t] = phase[t] /\ received'[t] = received[t]
        /\ stream'[t] = stream[t] /\ want'[t] = want[t] /\ outbox'[t] = outbox[t]

\* A step keeps what the invariant says of the line from m to o, and gives it
\* no new number.
LineMoves(s, m, o) ==
    /\ Line(received'[s][o], stream'[s][m], outbox'[s][m], sent[m][o])
    /\ Numbers(received'[s][o], stream'[s][m], outbox'[s][m])
          \subseteq Numbers(received[s][o], stream[s][m], outbox[s][m])
    /\ HelloAt(phase'[s][m], phase'[s][o], received'[s][o], want'[s][o], stream'[s][m])
    /\ failures' = 0 =>
          CalmAt(phase'[s][m], phase'[s][o], received'[s][o], want'[s][o], stream'[s][m],
                 Numbers(received'[s][o], stream'[s][m], outbox'[s][m]))

\* What the invariant says of the line from m to o.
LineStands(s, m, o) ==
    /\ received[s][o] \in Seq(Nat) /\ stream[s][m] \in Seq(Unit)
    /\ outbox[s][m] \in Seq(Nat) /\ sent[m][o] \in Nat
    /\ Line(received[s][o], stream[s][m], outbox[s][m], sent[m][o])
    /\ HelloAt(phase[s][m], phase[s][o], received[s][o], want[s][o], stream[s][m])
    /\ failures = 0 =>
          CalmAt(phase[s][m], phase[s][o], received[s][o], want[s][o], stream[s][m],
                 Numbers(received[s][o], stream[s][m], outbox[s][m]))

\* The invariant holds of the lines between the ends of a socket.
LEMMA LinesStand ==
    ASSUME BluetoothInvariant, NEW s \in Sockets, NEW n \in Ends(s)
    PROVE  /\ Other(s, n) \in Ends(s) /\ n \in Nodes /\ Other(s, n) \in Nodes /\ Other(s, n) # n
           /\ LineStands(s, n, Other(s, n)) /\ LineStands(s, Other(s, n), n)
<1>1. /\ Other(s, n) \in Ends(s) /\ n \in Nodes /\ Other(s, n) \in Nodes /\ Other(s, n) # n
      /\ Other(s, Other(s, n)) = n
  BY TwoEnds
<1>2. ASSUME NEW m \in Ends(s) PROVE LineStands(s, m, Other(s, m))
  <2>1. m \in Nodes /\ Other(s, m) \in Nodes
    BY TwoEnds
  <2>2. /\ received[s][Other(s, m)] \in Seq(Nat) /\ stream[s][m] \in Seq(Unit)
        /\ outbox[s][m] \in Seq(Nat) /\ sent[m][Other(s, m)] \in Nat
    BY <2>1, Types DEF BluetoothInvariant, PoolInvariant
  <2>3. LineOf(s, m) /\ HelloOf(s, m) /\ (failures = 0 => CalmOf(s, m))
    BY DEF BluetoothInvariant, DataInvariant, Lines, Hellos, Calm
  <2>4. QED
    BY <2>2, <2>3 DEF LineOf, HelloOf, CalmOf, NumbersOf, LineStands
<1>3. QED
  BY <1>1, <1>2

\* A step at one socket keeps the invariant when its lines keep it.
LEMMA DataMoves ==
    ASSUME DataInvariant, NEW s \in Sockets, NEW n \in Ends(s), Elsewhere(s), sent' = sent,
           failures' = 0 => failures = 0 /\ cut' = cut,
           LineMoves(s, n, Other(s, n)), LineMoves(s, Other(s, n), n)
    PROVE  DataInvariant'
<1>1. \A m \in Ends(s) : LineMoves(s, m, Other(s, m))
  BY TwoEnds
<1>2. \A t, m : Other(t, m)' = Other(t, m) /\ Ends(t)' = Ends(t)
  BY DEF Other, Ends
<1>3. ASSUME NEW t \in Sockets, NEW m \in Ends(t)
      PROVE  /\ LineOf(t, m)' /\ HelloOf(t, m)' /\ (failures' = 0 => CalmOf(t, m)')
             /\ NumbersOf(t, m)' \subseteq NumbersOf(t, m)
  <2>1. CASE t = s
    BY <2>1, <1>1, <1>2 DEF LineMoves, LineOf, HelloOf, CalmOf, NumbersOf
  <2>2. CASE t # s
    <3>1. /\ phase'[t] = phase[t] /\ received'[t] = received[t]
          /\ stream'[t] = stream[t] /\ want'[t] = want[t] /\ outbox'[t] = outbox[t]
      BY <2>2 DEF Elsewhere
    <3>2. LineOf(t, m) /\ HelloOf(t, m) /\ (failures = 0 => CalmOf(t, m))
      BY DEF DataInvariant, Lines, Hellos, Calm
    <3>3. QED
      BY <3>1, <3>2, <1>2 DEF LineOf, HelloOf, CalmOf, NumbersOf
  <2>3. QED
    BY <2>1, <2>2
<1>4. (Lines /\ Hellos /\ Calm)'
  BY <1>2, <1>3 DEF Lines, Hellos, Calm, DataInvariant
<1>5. Numbered'
  <2> SUFFICES ASSUME NEW t \in Sockets, NEW u \in Sockets, NEW m \in Ends(t) \cap Ends(u),
                      t # u, Other(t, m) = Other(u, m)
               PROVE  NumbersOf(t, m)' \cap NumbersOf(u, m)' = {}
    BY <1>2 DEF Numbered
  <2>1. NumbersOf(t, m) \cap NumbersOf(u, m) = {}
    BY DEF DataInvariant, Numbered
  <2>2. QED
    BY <2>1, <1>3
<1>6. QED
  BY <1>4, <1>5 DEF DataInvariant

\* A step that leaves what was written and read as it is.
LEMMA SameData ==
    ASSUME DataInvariant, UNCHANGED <<phase, data>>,
           failures' = 0 => failures = 0 /\ cut' = cut
    PROVE  DataInvariant'
<1>1. \A t, m : Other(t, m)' = Other(t, m) /\ Ends(t)' = Ends(t)
  BY DEF Other, Ends
<1>2. \A t \in Sockets : \A m \in Ends(t) :
         /\ LineOf(t, m)' = LineOf(t, m) /\ HelloOf(t, m)' = HelloOf(t, m)
         /\ CalmOf(t, m)' = CalmOf(t, m) /\ NumbersOf(t, m)' = NumbersOf(t, m)
  BY <1>1 DEF LineOf, HelloOf, CalmOf, NumbersOf, data
<1>3. (Lines /\ Hellos /\ Calm)'
  BY <1>1, <1>2 DEF Lines, Hellos, Calm, DataInvariant
<1>4. Numbered'
  BY <1>1, <1>2 DEF Numbered, DataInvariant
<1>5. QED
  BY <1>3, <1>4 DEF DataInvariant

\* The writer or the reader goes on to make the connection.
LEMMA LineWaits ==
    ASSUME NEW s, NEW m, NEW o, LineStands(s, m, o), failures' = failures,
           received'[s][o] = received[s][o], stream'[s][m] = stream[s][m],
           outbox'[s][m] = outbox[s][m], want'[s][o] = want[s][o],
           \/ phase'[s][m] = phase[s][m]
           \/ phase[s][m] \in Early /\ phase'[s][m] \in Early,
           \/ phase'[s][o] = phase[s][o]
           \/ phase[s][o] \notin {"open", "closed"} /\ phase'[s][o] \notin {"open", "closed"}
    PROVE  LineMoves(s, m, o)
<1>1. HelloAt(phase'[s][m], phase'[s][o], received[s][o], want[s][o], stream[s][m])
  BY DEF LineStands, HelloAt, Early
<1>2. failures = 0 =>
          CalmAt(phase'[s][m], phase'[s][o], received[s][o], want[s][o], stream[s][m],
                 Numbers(received[s][o], stream[s][m], outbox[s][m]))
  BY DEF LineStands, HelloAt, CalmAt, Early
<1>3. QED
  BY <1>1, <1>2 DEF LineStands, LineMoves

\* A step at one end of a socket that leaves what was written and read.
LEMMA EndWaits ==
    ASSUME BluetoothInvariant, NEW s \in Sockets, NEW n \in Ends(s), UNCHANGED data,
           failures' = failures, cut' = cut, NEW p \in Phase,
           phase' = [phase EXCEPT ![s][n] = p],
           phase[s][n] \in Early, p \in Early
    PROVE  DataInvariant'
<1> PICK o : o = Other(s, n)
  OBVIOUS
<1>1. /\ n \in Nodes /\ o \in Nodes /\ o # n /\ o \in Ends(s)
      /\ LineStands(s, n, o) /\ LineStands(s, o, n)
  BY LinesStand
<1>2. phase \in [Sockets -> [Nodes -> Phase]]
  BY Types DEF BluetoothInvariant, PoolInvariant
<1>3. /\ phase'[s][n] = p /\ phase'[s][o] = phase[s][o]
      /\ \A t \in Sockets : t # s => phase'[t] = phase[t]
  BY <1>1, <1>2
<1>4. LineMoves(s, n, o)
  BY <1>1, <1>3, LineWaits DEF data
<1>5. LineMoves(s, o, n)
  <2>1. phase[s][n] \notin {"open", "closed"} /\ phase'[s][n] \notin {"open", "closed"}
    BY <1>3 DEF Early
  <2>2. QED
    BY <2>1, <1>1, <1>3, LineWaits DEF data
<1>6. Elsewhere(s)
  BY <1>3 DEF Elsewhere, data
<1>7. QED
  BY <1>4, <1>5, <1>6, DataMoves DEF BluetoothInvariant, data

\* A socket is dialed, or its connection is accepted.
LEMMA DialData ==
    ASSUME BluetoothInvariant, NEW s \in Sockets, NEW n \in Nodes,
           Dial(s) \/ AcceptJob(n)
    PROVE  DataInvariant'
<1>1. CASE Dial(s)
  <2>1. /\ Dialer[s] \in Ends(s) /\ phase[s][Dialer[s]] = "unused"
        /\ phase' = [phase EXCEPT ![s][Dialer[s]] = "connecting"]
        /\ UNCHANGED <<data, cut, failures>>
    BY <1>1, TwoEnds DEF Dial
  <2>2. "unused" \in Early /\ "connecting" \in Early /\ "connecting" \in Phase
    BY DEF Early, Phase
  <2>3. QED
    BY <2>1, <2>2, EndWaits
<1>2. CASE Accept(n)
  <2>1. PICK t \in Sockets :
            phase[t][n] = "backlog" /\ phase' = [phase EXCEPT ![t][n] = "hello"]
    BY <1>2 DEF Accept
  <2>2. UNCHANGED <<data, cut, failures>>
    BY <1>2 DEF Accept
  <2>3. n \in Ends(t)
    BY <2>1 DEF BluetoothInvariant, PoolInvariant, PhasesFit
  <2>4. "backlog" \in Early /\ "hello" \in Early /\ "hello" \in Phase
    BY DEF Early, Phase
  <2>5. QED
    BY <2>1, <2>2, <2>3, <2>4, EndWaits
<1>3. CASE AcceptTimesOut(n)
  <2>1. UNCHANGED <<phase, data, cut, failures>>
    BY <1>3 DEF AcceptTimesOut, ends
  <2>2. QED
    BY <2>1, SameData DEF BluetoothInvariant
<1>4. QED
  BY <1>1, <1>2, <1>3 DEF AcceptJob

\* A connection is made, with or without a probe, or fails.
LEMMA ConnectData ==
    ASSUME BluetoothInvariant, NEW s \in Sockets, ConnectJob(s)
    PROVE  DataInvariant'
<1> PICK n : n = Dialer[s]
  OBVIOUS
<1> PICK o : o = Acceptor[s]
  OBVIOUS
<1>1. /\ n \in Ends(s) /\ n \in Nodes /\ o \in Nodes /\ o # n /\ o = Other(s, n)
      /\ LineStands(s, n, o) /\ LineStands(s, o, n)
  <2>1. n \in Ends(s) /\ o = Other(s, n)
    BY TwoEnds
  <2>2. QED
    BY <2>1, LinesStand
<1>2. phase[s][n] = "connecting" /\ phase[s][o] = "unused"
  <2>1. In(jobs[n], Job("connect", s))
    BY DEF ConnectJob, Connect, Probe, ConnectFails, Runs, In
  <2>2. phase[s][n] = "connecting"
    BY <2>1, <1>1 DEF BluetoothInvariant, PoolInvariant, JobsFit
  <2>3. QED
    BY <2>2, <1>1 DEF BluetoothInvariant, PoolInvariant, PhasesFit
<1>3. /\ phase \in [Sockets -> [Nodes -> Phase]]
      /\ stream \in [Sockets -> [Nodes -> Seq(Unit)]]
  BY Types DEF BluetoothInvariant, PoolInvariant
<1>4. /\ outbox[s][n] = <<>> /\ outbox[s][o] = <<>>
      /\ stream[s][n] = <<>> /\ stream[s][o] = <<>>
      /\ received[s][n] = <<>> /\ received[s][o] = <<>>
  <2>1. outbox[s][n] = <<>> /\ outbox[s][o] = <<>>
    BY <1>1, <1>2 DEF BluetoothInvariant, PoolInvariant, OneForEach
  <2>2. QED
    BY <2>1, <1>1, <1>2 DEF LineStands, HelloAt
<1>5. CASE Connect(s)
  <2>1. /\ phase' = [phase EXCEPT ![s][n] = "hello", ![s][o] = "backlog"]
        /\ UNCHANGED <<data, cut, failures>>
    BY <1>5 DEF Connect
  <2>2. /\ phase'[s][n] = "hello" /\ phase'[s][o] = "backlog"
        /\ \A t \in Sockets : t # s => phase'[t] = phase[t]
    BY <2>1, <1>1, <1>3
  <2>3. LineMoves(s, n, o) /\ LineMoves(s, o, n)
    <3>1. /\ phase[s][n] \in Early /\ phase'[s][n] \in Early
          /\ phase[s][o] \in Early /\ phase'[s][o] \in Early
          /\ phase[s][n] \notin {"open", "closed"} /\ phase'[s][n] \notin {"open", "closed"}
          /\ phase[s][o] \notin {"open", "closed"} /\ phase'[s][o] \notin {"open", "closed"}
      BY <2>2, <1>2 DEF Early
    <3>2. QED
      BY <3>1, <2>1, <1>1, LineWaits DEF data
  <2>4. Elsewhere(s)
    BY <2>1, <2>2 DEF Elsewhere, data
  <2>5. QED
    BY <2>1, <2>3, <2>4, <1>1, DataMoves DEF BluetoothInvariant, data
<1>6. CASE Probe(s)
  <2>1. /\ phase' = [phase EXCEPT ![s][n] = "greeting", ![s][o] = "backlog"]
        /\ stream' = [stream EXCEPT ![s][n] = Framed(Hello)]
        /\ UNCHANGED <<want, outbox, sent, received, cut, failures>>
    BY <1>6 DEF Probe
  <2>2. /\ phase'[s][n] = "greeting" /\ phase'[s][o] = "backlog"
        /\ \A t \in Sockets : t # s => phase'[t] = phase[t]
    BY <2>1, <1>1, <1>3
  <2>3. /\ stream'[s][n] = Framed(Hello) /\ stream'[s][o] = <<>>
        /\ \A t \in Sockets : t # s => stream'[t] = stream[t]
    BY <2>1, <1>1, <1>3, <1>4
  <2>4. LineMoves(s, n, o)
    <3>1. sent[n][o] \in Nat /\ want[s][o] = 0
      BY <1>1, <1>2 DEF LineStands, HelloAt
    <3>2. HelloAt("greeting", "backlog", <<>>, 0, Framed(Hello))
      BY <3>1, LineHello DEF HelloAt
    <3>3. CalmAt("greeting", "backlog", <<>>, 0, Framed(Hello), {})
      BY <3>1, LineHello DEF CalmAt, HeadOfHello
    <3>4. QED
      BY <3>1, <3>2, <3>3, <2>1, <2>2, <2>3, <1>4, LineHello DEF LineMoves
  <2>5. LineMoves(s, o, n)
    <3>1. sent[o][n] \in Nat /\ want[s][n] = 0
      BY <1>1, <1>2 DEF LineStands, HelloAt
    <3>2. HelloAt("backlog", "greeting", <<>>, 0, <<>>)
      BY DEF HelloAt
    <3>3. CalmAt("backlog", "greeting", <<>>, 0, <<>>, {})
      BY DEF CalmAt
    <3>4. QED
      BY <3>1, <3>2, <3>3, <2>1, <2>2, <2>3, <1>4, LineHello DEF LineMoves
  <2>6. Elsewhere(s)
    BY <2>1, <2>2, <2>3 DEF Elsewhere
  <2>7. QED
    BY <2>1, <2>4, <2>5, <2>6, <1>1, DataMoves DEF BluetoothInvariant
<1>7. CASE ConnectFails(s)
  <2>1. /\ phase' = [phase EXCEPT ![s] = [m \in Nodes |-> "closed"]]
        /\ UNCHANGED <<data, cut, failures>>
    BY <1>7 DEF ConnectFails
  <2>2. /\ phase'[s][n] = "closed" /\ phase'[s][o] = "closed"
        /\ \A t \in Sockets : t # s => phase'[t] = phase[t]
    BY <2>1, <1>1, <1>3
  <2>3. ASSUME NEW left, NEW numbers
        PROVE  /\ HelloAt("closed", "closed", <<>>, left, <<>>)
               /\ left = 0 => CalmAt("closed", "closed", <<>>, left, <<>>, numbers)
    BY DEF HelloAt, CalmAt
  <2>4. want[s][n] = 0 /\ want[s][o] = 0
    BY <1>1, <1>2 DEF LineStands, HelloAt
  <2>5. LineMoves(s, n, o) /\ LineMoves(s, o, n)
    BY <2>1, <2>2, <2>3, <2>4, <1>1, <1>4 DEF LineMoves, LineStands, data
  <2>6. Elsewhere(s)
    BY <2>1, <2>2 DEF Elsewhere, data
  <2>7. QED
    BY <2>1, <2>5, <2>6, <1>1, DataMoves DEF BluetoothInvariant, data
<1>8. QED
  BY <1>5, <1>6, <1>7 DEF ConnectJob

\* An end is closed; without failures, only before its connection is open or
\* when the other end is closed.
LEMMA CloseData ==
    ASSUME BluetoothInvariant, NEW s \in Sockets, NEW n \in Ends(s), Close(s, n),
           phase[s][n] # "closed", phase[s][n] # "open" => phase[s][n] \in {"hello", "greeting"},
           failures' = 0 => failures = 0 /\ cut' = cut,
           failures' = 0 => phase[s][n] # "open" \/ phase[s][Other(s, n)] = "closed"
    PROVE  DataInvariant'
<1> PICK o : o = Other(s, n)
  OBVIOUS
<1>1. /\ n \in Nodes /\ o \in Nodes /\ o # n /\ o \in Ends(s)
      /\ LineStands(s, n, o) /\ LineStands(s, o, n)
  BY LinesStand
<1>2. /\ phase \in [Sockets -> [Nodes -> Phase]]
      /\ stream \in [Sockets -> [Nodes -> Seq(Unit)]]
      /\ want \in [Sockets -> [Nodes -> Nat]]
      /\ outbox \in [Sockets -> [Nodes -> Seq(Nat)]]
  BY Types DEF BluetoothInvariant, PoolInvariant
<1>3. /\ phase' = [phase EXCEPT ![s][n] = "closed"]
      /\ stream' = [stream EXCEPT ![s][o] = <<>>]
      /\ want' = [want EXCEPT ![s][n] = 0]
      /\ outbox' = [outbox EXCEPT ![s][n] = <<>>]
      /\ UNCHANGED <<sent, received>>
  BY DEF Close
<1>4. /\ phase'[s][n] = "closed" /\ phase'[s][o] = phase[s][o]
      /\ stream'[s][o] = <<>> /\ stream'[s][n] = stream[s][n]
      /\ want'[s][n] = 0 /\ want'[s][o] = want[s][o]
      /\ outbox'[s][n] = <<>> /\ outbox'[s][o] = outbox[s][o]
      /\ \A t \in Sockets : t # s =>
            /\ phase'[t] = phase[t] /\ stream'[t] = stream[t]
            /\ want'[t] = want[t] /\ outbox'[t] = outbox[t]
  BY <1>1, <1>2, <1>3
<1>5. Elsewhere(s)
  BY <1>3, <1>4 DEF Elsewhere
<1>6. LineMoves(s, n, o)
  <2>1. /\ Line(received[s][o], stream[s][n], <<>>, sent[n][o])
        /\ Numbers(received[s][o], stream[s][n], <<>>)
              \subseteq Numbers(received[s][o], stream[s][n], outbox[s][n])
    BY <1>1, LineClear DEF LineStands
  <2>2. HelloAt("closed", phase[s][o], received[s][o], want[s][o], stream[s][n])
    BY <1>1 DEF LineStands, HelloAt
  <2>3. ASSUME failures' = 0
        PROVE  CalmAt("closed", phase[s][o], received[s][o], want[s][o], stream[s][n],
                      Numbers(received[s][o], stream[s][n], <<>>))
    <3>1. CalmAt(phase[s][n], phase[s][o], received[s][o], want[s][o], stream[s][n],
                 Numbers(received[s][o], stream[s][n], outbox[s][n]))
      BY <2>3, <1>1 DEF LineStands
    <3>2. phase[s][n] # "open" \/ phase[s][o] = "closed"
      BY <2>3
    <3>3. QED
      BY <3>1, <3>2, <2>1 DEF CalmAt
  <2>4. QED
    BY <2>1, <2>2, <2>3, <1>3, <1>4 DEF LineMoves
<1>7. LineMoves(s, o, n)
  <2>1. /\ Line(received[s][n], <<>>, outbox[s][o], sent[o][n])
        /\ Numbers(received[s][n], <<>>, outbox[s][o])
              \subseteq Numbers(received[s][n], stream[s][o], outbox[s][o])
    BY <1>1, LineClear DEF LineStands
  <2>2. Len(<<>>) = 0 /\ \A i : i \notin 1..0
    OBVIOUS
  <2>3. HelloAt(phase[s][o], "closed", received[s][n], 0, <<>>)
    BY <2>2, <1>1 DEF LineStands, HelloAt
  <2>4. ASSUME failures' = 0
        PROVE  CalmAt(phase[s][o], "closed", received[s][n], 0, <<>>,
                      Numbers(received[s][n], <<>>, outbox[s][o]))
    <3>1. CalmAt(phase[s][o], phase[s][n], received[s][n], want[s][n], stream[s][o],
                 Numbers(received[s][n], stream[s][o], outbox[s][o]))
      BY <2>4, <1>1 DEF LineStands
    <3>2. received[s][n] = <<>>
      <4>1. CASE phase[s][n] # "open"
        BY <4>1, <1>1 DEF LineStands, HelloAt
      <4>2. CASE phase[s][n] = "open"
        <5>1. phase[s][o] = "closed"
          BY <4>2, <2>4
        <5>2. Numbers(received[s][n], stream[s][o], outbox[s][o]) = {}
          BY <3>1, <4>2, <5>1 DEF CalmAt
        <5>3. received[s][n] \in Seq(Nat) /\ \A i \in 1..Len(received[s][n]) : received[s][n][i] # 0
          <6>1. \A i \in 1..Len(received[s][n]) : received[s][n][i] \in 1..sent[o][n]
            BY <1>1 DEF LineStands, Line
          <6>2. \A x \in Nat : \A i \in 1..x : i # 0
            OBVIOUS
          <6>3. QED
            BY <6>1, <6>2, <1>1 DEF LineStands
        <5>4. \A i \in 1..Len(received[s][n]) :
                 received[s][n][i] \in Numbers(received[s][n], stream[s][o], outbox[s][o])
          BY <5>3 DEF Numbers, Hello
        <5>5. \A i : i \notin 1..Len(received[s][n])
          BY <5>2, <5>4
        <5>6. \A q \in Seq(Nat) : q # <<>> => 1 \in 1..Len(q)
          OBVIOUS
        <5>7. QED
          BY <5>3, <5>5, <5>6
      <4>3. QED
        BY <4>1, <4>2
    <3>3. QED
      BY <3>2 DEF CalmAt
  <2>5. QED
    BY <2>1, <2>3, <2>4, <1>3, <1>4 DEF LineMoves
<1>8. QED
  BY <1>3, <1>5, <1>6, <1>7, DataMoves DEF BluetoothInvariant

\* The hello or a frame is written, or writing fails.
LEMMA SendData ==
    ASSUME BluetoothInvariant, NEW s \in Sockets, NEW n \in Ends(s),
           SendHello(s, n) \/ WriteFrame(s, n) \/ SendFails(s, n)
    PROVE  DataInvariant'
<1> PICK o : o = Other(s, n)
  OBVIOUS
<1>1. /\ n \in Nodes /\ o \in Nodes /\ o # n /\ o \in Ends(s)
      /\ LineStands(s, n, o) /\ LineStands(s, o, n)
  BY LinesStand
<1>2. /\ phase \in [Sockets -> [Nodes -> Phase]]
      /\ stream \in [Sockets -> [Nodes -> Seq(Unit)]]
      /\ want \in [Sockets -> [Nodes -> Nat]]
      /\ outbox \in [Sockets -> [Nodes -> Seq(Nat)]]
      /\ failures \in Nat
  BY Types DEF BluetoothInvariant, PoolInvariant, TypeOK
<1>3. In(jobs[n], Job("send", s)) /\ phase[s][n] \in {"hello", "open"}
  <2>1. Sending(s, n)
    BY DEF SendHello, WriteFrame, SendFails
  <2>2. In(jobs[n], Job("send", s)) /\ phase[s][n] # "closed"
    BY <2>1 DEF Sending, Runs, In
  <2>3. QED
    BY <2>2, <1>1 DEF BluetoothInvariant, PoolInvariant, JobsFit
<1>4. CASE SendHello(s, n)
  <2>1. /\ phase[s][n] = "hello" /\ phase' = [phase EXCEPT ![s][n] = "greeting"]
        /\ stream' = [stream EXCEPT ![s][n] = Framed(Hello)]
        /\ UNCHANGED <<connections, want, outbox, sent, received, cut, failures>>
    BY <1>4 DEF SendHello
  <2>2. /\ phase'[s][n] = "greeting" /\ phase'[s][o] = phase[s][o]
        /\ stream'[s][n] = Framed(Hello) /\ stream'[s][o] = stream[s][o]
        /\ \A t \in Sockets : t # s => phase'[t] = phase[t] /\ stream'[t] = stream[t]
    BY <2>1, <1>1, <1>2
  <2>3. outbox[s][n] = <<>>
    BY <2>1, <1>1 DEF BluetoothInvariant, PoolInvariant, OneForEach
  <2>4. /\ received[s][o] = <<>> /\ phase[s][o] # "open"
        /\ phase[s][o] # "closed" => want[s][o] = 0
    BY <2>1, <1>1 DEF LineStands, HelloAt
  <2>5. LineMoves(s, n, o)
    <3>1. HelloAt("greeting", phase[s][o], <<>>, want[s][o], Framed(Hello))
      BY <2>4, LineHello DEF HelloAt
    <3>2. want[s][o] = 0 => CalmAt("greeting", phase[s][o], <<>>, want[s][o], Framed(Hello), {})
      BY LineHello DEF CalmAt, HeadOfHello
    <3>3. failures = 0 => want[s][o] = 0
      BY <1>1 DEF LineStands, CalmAt
    <3>4. sent[n][o] \in Nat
      BY <1>1 DEF LineStands
    <3>5. QED
      BY <3>1, <3>2, <3>3, <3>4, <2>1, <2>2, <2>3, <2>4, LineHello DEF LineMoves
  <2>6. LineMoves(s, o, n)
    <3>1. phase[s][n] \notin {"open", "closed"} /\ phase'[s][n] \notin {"open", "closed"}
      BY <2>1, <2>2
    <3>2. QED
      BY <3>1, <2>1, <2>2, <1>1, LineWaits
  <2>7. Elsewhere(s)
    BY <2>1, <2>2 DEF Elsewhere
  <2>8. QED
    BY <2>1, <2>5, <2>6, <2>7, DataMoves DEF BluetoothInvariant
<1>5. CASE WriteFrame(s, n)
  <2>1. /\ phase[s][n] = "open"
        /\ stream' = [stream EXCEPT ![s][n] = @ \o Framed(Head(outbox[s][n]))]
        /\ outbox' = [outbox EXCEPT ![s][n] = Tail(@)]
        /\ UNCHANGED <<phase, connections, want, sent, received, cut, failures>>
    BY <1>5 DEF WriteFrame, ends
  <2>2. outbox[s][n] # <<>>
    BY <2>1, <1>1, <1>3 DEF BluetoothInvariant, PoolInvariant, JobsFit
  <2> PICK str : str = stream[s][n]
    OBVIOUS
  <2> PICK str2 : str2 = str \o Framed(Head(outbox[s][n]))
    OBVIOUS
  <2>3. /\ stream'[s][n] = str2 /\ stream'[s][o] = stream[s][o]
        /\ outbox'[s][n] = Tail(outbox[s][n]) /\ outbox'[s][o] = outbox[s][o]
        /\ \A t \in Sockets : t # s => outbox'[t] = outbox[t] /\ stream'[t] = stream[t]
    BY <2>1, <1>1, <1>2
  <2>4. /\ Line(received[s][o], str2, Tail(outbox[s][n]), sent[n][o])
        /\ Numbers(received[s][o], str2, Tail(outbox[s][n]))
              \subseteq Numbers(received[s][o], str, outbox[s][n])
        /\ str2 # <<>> /\ (str # <<>> => Head(str2) = Head(str))
        /\ str = <<>> => Head(str2).part = "head"
        /\ (\A j \in 1..Len(str) : str[j].frame # Hello) =>
              \A j \in 1..Len(str2) : str2[j].frame # Hello
    <3> PICK rec : rec = received[s][o]
      OBVIOUS
    <3> PICK out : out = outbox[s][n]
      OBVIOUS
    <3> PICK top : top = sent[n][o]
      OBVIOUS
    <3>1. /\ rec \in Seq(Nat) /\ str \in Seq(Unit) /\ out \in Seq(Nat) /\ top \in Nat
          /\ Line(rec, str, out, top) /\ out # <<>>
      BY <2>2, <1>1 DEF LineStands
    <3>2. /\ Line(rec, Written(str, out), Tail(out), top)
          /\ Numbers(rec, Written(str, out), Tail(out)) \subseteq Numbers(rec, str, out)
          /\ Joined(str, Written(str, out))
      BY <3>1, LineWrite
    <3>3. str2 = Written(str, out)
      BY DEF Written
    <3>4. QED
      BY <3>2, <3>3 DEF Joined
  <2>5. LineMoves(s, n, o)
    <3>1. HelloAt("open", phase[s][o], received[s][o], want[s][o], str)
      BY <2>1, <1>1 DEF LineStands
    <3>2. HelloAt("open", phase[s][o], received[s][o], want[s][o], str2)
      BY <2>4, <3>1 DEF HelloAt
    <3>3. ASSUME failures = 0
          PROVE  CalmAt("open", phase[s][o], received[s][o], want[s][o], str2,
                        Numbers(received[s][o], str2, Tail(outbox[s][n])))
      <4>1. CalmAt("open", phase[s][o], received[s][o], want[s][o], str,
                   Numbers(received[s][o], str, outbox[s][n]))
        BY <3>3, <2>1, <1>1 DEF LineStands
      <4>2. QED
        BY <4>1, <2>4 DEF CalmAt
    <3>4. QED
      BY <3>2, <3>3, <2>1, <2>3, <2>4 DEF LineMoves
  <2>6. LineMoves(s, o, n)
    BY <2>1, <2>3, <1>1, LineWaits
  <2>7. Elsewhere(s)
    BY <2>1, <2>3 DEF Elsewhere
  <2>8. QED
    BY <2>1, <2>5, <2>6, <2>7, DataMoves DEF BluetoothInvariant
<1>6. CASE SendFails(s, n)
  <2>1. /\ Close(s, n) /\ cut' = cut
        /\ \/ Ended(s, n) /\ failures' = failures
           \/ failures' = failures + 1
    BY <1>6 DEF SendFails, Fails
  <2>2. failures' = 0 => failures = 0 /\ Ended(s, n)
    BY <2>1, <1>2
  <2>3. failures = 0 => cut = {}
    BY DEF BluetoothInvariant, DataInvariant, Calm
  <2>4. failures' = 0 => phase[s][o] = "closed"
    BY <2>2, <2>3 DEF Ended
  <2>5. QED
    BY <2>1, <2>2, <2>4, <1>3, CloseData
<1>7. QED
  BY <1>4, <1>5, <1>6

\* A frame is queued under a number that no line from n to m has.
LEMMA SubmitData ==
    ASSUME BluetoothInvariant, NEW n \in Nodes, NEW m \in Nodes, SendFrame(n, m)
    PROVE  DataInvariant'
<1>1. PICK s \in connections[n] :
          /\ Other(s, n) = m
          /\ outbox' = [outbox EXCEPT ![s][n] = Append(@, sent[n][m] + 1)]
  BY DEF SendFrame
<1>2. /\ sent' = [sent EXCEPT ![n][m] = @ + 1]
      /\ UNCHANGED <<phase, stream, want, received, cut, failures>>
  BY DEF SendFrame, ends
<1>3. /\ outbox \in [Sockets -> [Nodes -> Seq(Nat)]]
      /\ sent \in [Nodes -> [Nodes -> Nat]]
      /\ connections \in [Nodes -> SUBSET Sockets]
  BY Types DEF BluetoothInvariant, PoolInvariant
<1>4. s \in Sockets /\ phase[s][n] = "open"
  BY <1>3 DEF BluetoothInvariant, PoolInvariant, OneForEach
<1>5. n \in Ends(s)
  BY <1>4 DEF BluetoothInvariant, PoolInvariant, PhasesFit
<1>6. \A t, q : Other(t, q)' = Other(t, q) /\ Ends(t)' = Ends(t)
  BY DEF Other, Ends
<1> PICK top : top = sent[n][m]
  OBVIOUS
<1>7. /\ top \in Nat /\ sent'[n][m] = top + 1
      /\ \A q, r \in Nodes : q # n \/ r # m => sent'[q][r] = sent[q][r]
  BY <1>2, <1>3
<1>8. /\ outbox'[s][n] = Append(outbox[s][n], top + 1)
      /\ \A t \in Sockets : \A q \in Nodes : t # s \/ q # n => outbox'[t][q] = outbox[t][q]
  BY <1>1, <1>3, <1>4
\* The line that the frame joins.
<1>9. /\ LineOf(s, n)' /\ top + 1 \notin NumbersOf(s, n)
      /\ NumbersOf(s, n)' \subseteq NumbersOf(s, n) \cup {top + 1}
  <2>1. LineStands(s, n, m)
    BY <1>1, <1>4, <1>5, LinesStand
  <2> PICK rec : rec = received[s][m]
    OBVIOUS
  <2> PICK str : str = stream[s][n]
    OBVIOUS
  <2> PICK out : out = outbox[s][n]
    OBVIOUS
  <2>2. /\ rec \in Seq(Nat) /\ str \in Seq(Unit) /\ out \in Seq(Nat) /\ top \in Nat
        /\ Line(rec, str, out, top)
    BY <2>1 DEF LineStands
  <2>3. /\ Line(rec, str, Append(out, top + 1), top + 1)
        /\ Numbers(rec, str, Append(out, top + 1)) \subseteq Numbers(rec, str, out) \cup {top + 1}
        /\ top + 1 \notin Numbers(rec, str, out)
    BY <2>2, LineSend
  <2>4. QED
    BY <2>3, <1>1, <1>2, <1>6, <1>7, <1>8 DEF LineOf, NumbersOf
\* Every other line.
<1>10. ASSUME NEW t \in Sockets, NEW q \in Ends(t), t # s \/ q # n
       PROVE  /\ LineOf(t, q)' /\ NumbersOf(t, q)' = NumbersOf(t, q)
              /\ q = n /\ Other(t, q) = m => top + 1 \notin NumbersOf(t, q)
  <2>1. LineStands(t, q, Other(t, q)) /\ q \in Nodes /\ Other(t, q) \in Nodes
    BY LinesStand
  <2> PICK r : r = Other(t, q)
    OBVIOUS
  <2> PICK rec : rec = received[t][r]
    OBVIOUS
  <2> PICK str : str = stream[t][q]
    OBVIOUS
  <2> PICK out : out = outbox[t][q]
    OBVIOUS
  <2>2. /\ rec \in Seq(Nat) /\ str \in Seq(Unit) /\ out \in Seq(Nat) /\ sent[q][r] \in Nat
        /\ Line(rec, str, out, sent[q][r])
    BY <2>1 DEF LineStands
  <2>3. received'[t][r] = rec /\ stream'[t][q] = str /\ outbox'[t][q] = out
    BY <2>1, <1>2, <1>8, <1>10
  <2>4. NumbersOf(t, q)' = NumbersOf(t, q)
    BY <2>3, <1>6 DEF NumbersOf
  <2>5. CASE q = n /\ r = m
    <3>1. Line(rec, str, out, top + 1) /\ top + 1 \notin Numbers(rec, str, out)
      <4>1. Line(rec, str, out, top)
        BY <2>2, <2>5
      <4>2. QED
        BY <4>1, <2>2, <1>7, LineSend
    <3>2. LineOf(t, q)'
      BY <3>1, <2>3, <2>5, <1>6, <1>7 DEF LineOf
    <3>3. QED
      BY <3>1, <3>2, <2>4 DEF NumbersOf
  <2>6. CASE ~(q = n /\ r = m)
    <3>1. sent'[q][r] = sent[q][r]
      BY <2>1, <2>6, <1>7
    <3>2. LineOf(t, q)'
      BY <3>1, <2>2, <2>3, <1>6 DEF LineOf
    <3>3. QED
      BY <3>2, <2>4, <2>6
  <2>7. QED
    BY <2>5, <2>6
<1>11. Lines'
  BY <1>6, <1>9, <1>10 DEF Lines
<1>12. Numbered'
  <2> SUFFICES ASSUME NEW t \in Sockets, NEW u \in Sockets, NEW q \in Ends(t) \cap Ends(u),
                      t # u, Other(t, q) = Other(u, q)
               PROVE  NumbersOf(t, q)' \cap NumbersOf(u, q)' = {}
    BY <1>6 DEF Numbered
  <2>1. NumbersOf(t, q) \cap NumbersOf(u, q) = {}
    BY DEF BluetoothInvariant, DataInvariant, Numbered
  <2>2. CASE t = s /\ q = n
    <3>1. u # s /\ q \in Ends(u) /\ Other(u, q) = m
      BY <2>2, <1>1
    <3>2. NumbersOf(u, q)' = NumbersOf(u, q) /\ top + 1 \notin NumbersOf(u, q)
      BY <3>1, <2>2, <1>10
    <3>3. QED
      BY <3>2, <2>1, <2>2, <1>9
  <2>3. CASE u = s /\ q = n
    <3>1. t # s /\ q \in Ends(t) /\ Other(t, q) = m
      BY <2>3, <1>1
    <3>2. NumbersOf(t, q)' = NumbersOf(t, q) /\ top + 1 \notin NumbersOf(t, q)
      BY <3>1, <2>3, <1>10
    <3>3. QED
      BY <3>2, <2>1, <2>3, <1>9
  <2>4. CASE (t # s \/ q # n) /\ (u # s \/ q # n)
    <3>1. NumbersOf(t, q)' = NumbersOf(t, q) /\ NumbersOf(u, q)' = NumbersOf(u, q)
      BY <2>4, <1>10
    <3>2. QED
      BY <3>1, <2>1
  <2>5. QED
    BY <2>2, <2>3, <2>4
<1>13. Hellos'
  <2>1. Hellos
    BY DEF BluetoothInvariant, DataInvariant
  <2>2. \A t \in Sockets : \A q \in Ends(t) : HelloOf(t, q)' = HelloOf(t, q)
    BY <1>2, <1>6 DEF HelloOf
  <2>3. QED
    BY <2>1, <2>2, <1>6 DEF Hellos
<1>14. Calm'
  <2> SUFFICES ASSUME failures = 0
               PROVE  cut' = {} /\ \A t \in Sockets : \A q \in Ends(t) : CalmOf(t, q)'
    BY <1>2, <1>6 DEF Calm
  <2>1. cut = {} /\ \A t \in Sockets : \A q \in Ends(t) : CalmOf(t, q)
    BY DEF BluetoothInvariant, DataInvariant, Calm
  <2>2. ASSUME NEW t \in Sockets, NEW q \in Ends(t) PROVE CalmOf(t, q)'
    <3>1. CASE t = s /\ q = n
      BY <3>1, <2>1, <1>2, <1>4, <1>6 DEF CalmOf, CalmAt
    <3>2. CASE t # s \/ q # n
      <4>1. NumbersOf(t, q)' = NumbersOf(t, q)
        BY <3>2, <1>10
      <4>2. QED
        BY <4>1, <2>1, <1>2, <1>6 DEF CalmOf
    <3>3. QED
      BY <3>1, <3>2
  <2>3. QED
    BY <2>1, <2>2, <1>2
<1>15. QED
  BY <1>11, <1>12, <1>13, <1>14 DEF DataInvariant

\* Reading takes units out of the stream from the other end.
LEMMA Consuming ==
    ASSUME BluetoothInvariant, NEW s \in Sockets, NEW n \in Ends(s), NEW k, Consume(s, n, k)
    PROVE  /\ stream'[s][Other(s, n)] = Rest(stream[s][Other(s, n)], k)
           /\ stream'[s][n] = stream[s][n]
           /\ \A t \in Sockets : t # s => stream'[t] = stream[t]
<1>1. n \in Nodes /\ Other(s, n) \in Nodes /\ Other(s, n) # n
  BY LinesStand
<1>2. stream \in [Sockets -> [Nodes -> Seq(Unit)]]
  BY Types DEF BluetoothInvariant, PoolInvariant
<1>3. stream' = [stream EXCEPT ![s][Other(s, n)] = Rest(@, k)]
  BY DEF Consume, Rest
<1>4. QED
  BY <1>1, <1>2, <1>3

\* A read of an open connection takes units and hands on no frame: its place
\* is lost, or nothing was in the stream.
LEMMA LosesPlace ==
    ASSUME BluetoothInvariant, NEW s \in Sockets, NEW n \in Ends(s), phase[s][n] = "open",
           NEW k \in Nat, Consume(s, n, k), NEW left,
           want' = [want EXCEPT ![s][n] = left],
           UNCHANGED <<phase, outbox, sent, received>>,
           failures' = 0 => failures = 0 /\ cut' = cut,
           failures' = 0 => left = 0 /\ Incoming(s, n) = <<>>
    PROVE  DataInvariant'
<1> PICK o : o = Other(s, n)
  OBVIOUS
<1>1. /\ n \in Nodes /\ o \in Nodes /\ o # n /\ o \in Ends(s)
      /\ LineStands(s, n, o) /\ LineStands(s, o, n)
  BY LinesStand
<1>2. want \in [Sockets -> [Nodes -> Nat]]
  BY Types DEF BluetoothInvariant, PoolInvariant
<1> PICK str2 : str2 = stream'[s][o]
  OBVIOUS
<1>3. /\ str2 = Rest(stream[s][o], k) /\ stream'[s][n] = stream[s][n]
      /\ \A t \in Sockets : t # s => stream'[t] = stream[t]
  BY Consuming
<1>4. /\ want'[s][n] = left /\ want'[s][o] = want[s][o]
      /\ \A t \in Sockets : t # s => want'[t] = want[t]
  BY <1>1, <1>2
<1>5. /\ str2 \in Seq(Unit)
      /\ \A j \in 1..Len(str2) : k + j \in 1..Len(stream[s][o]) /\ str2[j] = stream[s][o][k + j]
      /\ Line(received[s][n], str2, outbox[s][o], sent[o][n])
      /\ Numbers(received[s][n], str2, outbox[s][o])
            \subseteq Numbers(received[s][n], stream[s][o], outbox[s][o])
  <2> PICK rec : rec = received[s][n]
    OBVIOUS
  <2> PICK str : str = stream[s][o]
    OBVIOUS
  <2> PICK out : out = outbox[s][o]
    OBVIOUS
  <2> PICK top : top = sent[o][n]
    OBVIOUS
  <2>1. /\ rec \in Seq(Nat) /\ str \in Seq(Unit) /\ out \in Seq(Nat) /\ top \in Nat
        /\ Line(rec, str, out, top)
    BY <1>1 DEF LineStands
  <2>2. Shortened(rec, str, out, top, k, Rest(str, k))
    BY <2>1, LineConsume
  <2>3. QED
    BY <2>2, <1>3 DEF Shortened
<1>6. stream[s][o] = <<>> => str2 = <<>>
  <2>1. Len(<<>>) = 0 /\ \A i : i \notin 1..0
    OBVIOUS
  <2>2. stream[s][o] = <<>> => \A j : j \notin 1..Len(str2)
    BY <2>1, <1>5
  <2>3. \A q \in Seq(Unit) : q # <<>> => 1 \in 1..Len(q)
    OBVIOUS
  <2>4. QED
    BY <2>2, <2>3, <1>5
<1>7. LineMoves(s, o, n)
  <2>1. HelloAt(phase[s][o], "open", received[s][n], want[s][n], stream[s][o])
    BY <1>1 DEF LineStands
  <2>2. HelloAt(phase[s][o], "open", received[s][n], left, str2)
    BY <2>1, <1>5, <1>6 DEF HelloAt
  <2>3. ASSUME failures' = 0
        PROVE  CalmAt(phase[s][o], "open", received[s][n], left, str2,
                      Numbers(received[s][n], str2, outbox[s][o]))
    <3>1. CalmAt(phase[s][o], "open", received[s][n], want[s][n], stream[s][o],
                 Numbers(received[s][n], stream[s][o], outbox[s][o]))
      BY <2>3, <1>1 DEF LineStands
    <3>2. left = 0 /\ str2 = <<>>
      BY <2>3, <1>6 DEF Incoming
    <3>3. QED
      BY <3>1, <3>2, <1>5 DEF CalmAt
  <2>4. QED
    BY <2>2, <2>3, <1>4, <1>5 DEF LineMoves
<1>8. LineMoves(s, n, o)
  <2>1. HelloAt(phase[s][n], phase[s][o], received[s][o], want[s][o], stream[s][n])
    BY <1>1 DEF LineStands
  <2>2. QED
    BY <2>1, <1>1, <1>3, <1>4 DEF LineMoves, LineStands
<1>9. Elsewhere(s)
  BY <1>3, <1>4 DEF Elsewhere
<1>10. QED
  BY <1>7, <1>8, <1>9, DataMoves DEF BluetoothInvariant

\* A frame is read in its place.
LEMMA ReadFrameData ==
    ASSUME BluetoothInvariant, NEW s \in Sockets, NEW n \in Ends(s), ReadFrame(s, n)
    PROVE  DataInvariant'
<1> PICK o : o = Other(s, n)
  OBVIOUS
<1>1. /\ n \in Nodes /\ o \in Nodes /\ o # n /\ o \in Ends(s)
      /\ LineStands(s, n, o) /\ LineStands(s, o, n)
  BY LinesStand
<1> PICK str : str = stream[s][o]
  OBVIOUS
<1> PICK rec : rec = received[s][n]
  OBVIOUS
<1> PICK out : out = outbox[s][o]
  OBVIOUS
<1> PICK f : f = Head(str).frame
  OBVIOUS
<1>2. /\ phase[s][n] = "open" /\ want[s][n] = 0 /\ str # <<>> /\ Head(str).part = "head"
      /\ received' = [received EXCEPT ![s][n] = Append(@, f)]
      /\ Consume(s, n, FrameSize)
      /\ UNCHANGED <<phase, connections, want, outbox, sent, cut, failures>>
  BY DEF ReadFrame, InPlace, Incoming, ends
<1>3. received \in [Sockets -> [Nodes -> Seq(Nat)]]
  BY Types DEF BluetoothInvariant, PoolInvariant
<1>4. /\ received'[s][n] = Append(rec, f) /\ received'[s][o] = received[s][o]
      /\ \A t \in Sockets : t # s => received'[t] = received[t]
  BY <1>1, <1>2, <1>3
<1> PICK str2 : str2 = stream'[s][o]
  OBVIOUS
<1>5. /\ str2 = Rest(str, FrameSize) /\ stream'[s][n] = stream[s][n]
      /\ \A t \in Sockets : t # s => stream'[t] = stream[t]
  BY <1>2, Consuming
<1>6. /\ rec \in Seq(Nat) /\ str \in Seq(Unit) /\ out \in Seq(Nat) /\ sent[o][n] \in Nat
      /\ Line(rec, str, out, sent[o][n])
      /\ HelloAt(phase[s][o], "open", rec, 0, str)
      /\ failures = 0 => CalmAt(phase[s][o], "open", rec, 0, str, Numbers(rec, str, out))
  BY <1>1, <1>2 DEF LineStands
<1>7. f \in Nat /\ f # Hello
  <2>1. 1 \in 1..Len(str) /\ Head(str) = str[1] /\ str[1] \in Unit
    BY <1>2, <1>6
  <2>2. QED
    BY <2>1, <1>6 DEF HelloAt, Unit
<1>8. /\ str2 \in Seq(Unit)
      /\ Line(Append(rec, f), str2, out, sent[o][n])
      /\ Numbers(Append(rec, f), str2, out) \subseteq Numbers(rec, str, out)
      /\ str2 # <<>> => Head(str2).part = "head"
      /\ \A j \in 1..Len(str2) : f < str2[j].frame
  <2> PICK top : top = sent[o][n]
    OBVIOUS
  <2>1. /\ rec \in Seq(Nat) /\ str \in Seq(Unit) /\ out \in Seq(Nat) /\ top \in Nat
        /\ Line(rec, str, out, top) /\ str # <<>> /\ Head(str).part = "head"
    BY <1>2, <1>6
  <2>2. Follows(rec, str, out, top, Head(str).frame, Rest(str, FrameSize))
    BY <2>1, LineRead
  <2>3. QED
    BY <2>2, <1>5, <1>7 DEF Follows
<1>9. LineMoves(s, o, n)
  <2>1. \A j \in 1..Len(str2) : str2[j].frame # Hello
    <3>1. \A j \in 1..Len(str2) : str2[j] \in Unit
      BY <1>8
    <3>2. \A j \in 1..Len(str2) : str2[j].frame \in Nat
      BY <3>1 DEF Unit
    <3>3. QED
      BY <3>2, <1>7, <1>8 DEF Hello
  <2>2. HelloAt(phase[s][o], "open", Append(rec, f), 0, str2)
    BY <2>1, <1>2, <1>6 DEF HelloAt
  <2>3. failures = 0 => CalmAt(phase[s][o], "open", Append(rec, f), 0, str2,
                               Numbers(Append(rec, f), str2, out))
    BY <1>6, <1>8 DEF CalmAt
  <2>4. QED
    BY <2>2, <2>3, <1>2, <1>4, <1>8 DEF LineMoves
<1>10. LineMoves(s, n, o)
  <2>1. HelloAt(phase[s][n], phase[s][o], received[s][o], want[s][o], stream[s][n])
    BY <1>1 DEF LineStands
  <2>2. QED
    BY <2>1, <1>1, <1>2, <1>4, <1>5 DEF LineMoves, LineStands
<1>11. Elsewhere(s)
  BY <1>2, <1>4, <1>5 DEF Elsewhere
<1>12. QED
  BY <1>2, <1>9, <1>10, <1>11, DataMoves DEF BluetoothInvariant

\* The hello of the other is read, and the connection is the only one.
LEMMA OpensData ==
    ASSUME BluetoothInvariant, NEW s \in Sockets, NEW n \in Ends(s),
           ReadHello(s, n), ~Taken(s, n)
    PROVE  DataInvariant'
<1> PICK o : o = Other(s, n)
  OBVIOUS
<1>1. /\ n \in Nodes /\ o \in Nodes /\ o # n /\ o \in Ends(s)
      /\ LineStands(s, n, o) /\ LineStands(s, o, n)
  BY LinesStand
<1> PICK str : str = stream[s][o]
  OBVIOUS
<1> PICK rec : rec = received[s][n]
  OBVIOUS
<1> PICK out : out = outbox[s][o]
  OBVIOUS
<1>2. /\ phase[s][n] = "greeting" /\ str # <<>>
      /\ phase' = [phase EXCEPT ![s][n] = "open"]
      /\ Consume(s, n, FrameSize)
      /\ UNCHANGED <<want, outbox, sent, received, cut, failures>>
  BY DEF ReadHello, Incoming
<1>3. phase \in [Sockets -> [Nodes -> Phase]]
  BY Types DEF BluetoothInvariant, PoolInvariant
<1>4. /\ phase'[s][n] = "open" /\ phase'[s][o] = phase[s][o]
      /\ \A t \in Sockets : t # s => phase'[t] = phase[t]
  BY <1>1, <1>2, <1>3
<1> PICK str2 : str2 = stream'[s][o]
  OBVIOUS
<1>5. /\ str2 = Rest(str, FrameSize) /\ stream'[s][n] = stream[s][n]
      /\ \A t \in Sockets : t # s => stream'[t] = stream[t]
  BY <1>2, Consuming
<1>6. /\ rec \in Seq(Nat) /\ str \in Seq(Unit) /\ out \in Seq(Nat) /\ sent[o][n] \in Nat
      /\ Line(rec, str, out, sent[o][n])
      /\ HelloAt(phase[s][o], "greeting", rec, want[s][n], str)
      /\ failures = 0 =>
            CalmAt(phase[s][o], "greeting", rec, want[s][n], str, Numbers(rec, str, out))
  BY <1>1, <1>2 DEF LineStands
<1>7. Head(str).part = "head" /\ Head(str).frame = Hello
  <2>1. Head(str) = HeadOfHello
    BY <1>2, <1>6 DEF HelloAt
  <2>2. QED
    BY <2>1 DEF HeadOfHello
<1>8. /\ str2 \in Seq(Unit) /\ Line(rec, str2, out, sent[o][n])
      /\ Numbers(rec, str2, out) \subseteq Numbers(rec, str, out)
      /\ str2 # <<>> => Head(str2).part = "head"
      /\ \A j \in 1..Len(str2) : Hello < str2[j].frame
  <2> PICK top : top = sent[o][n]
    OBVIOUS
  <2>1. /\ rec \in Seq(Nat) /\ str \in Seq(Unit) /\ out \in Seq(Nat) /\ top \in Nat
        /\ Line(rec, str, out, top) /\ str # <<>> /\ Head(str).part = "head"
    BY <1>2, <1>6, <1>7
  <2>2. Follows(rec, str, out, top, Head(str).frame, Rest(str, FrameSize))
    BY <2>1, LineRead
  <2>3. QED
    BY <2>2, <1>5, <1>7 DEF Follows
<1>9. LineMoves(s, o, n)
  <2>1. \A j \in 1..Len(str2) : str2[j].frame # Hello
    <3>1. ~(Hello < Hello)
      BY DEF Hello
    <3>2. QED
      BY <3>1, <1>8
  <2>2. HelloAt(phase[s][o], "open", rec, want[s][n], str2)
    <3>1. phase[s][o] \in Phase
      BY <1>1, <1>3
    <3>2. phase[s][o] \in {"greeting", "open", "closed"}
      BY <3>1, <1>2, <1>6 DEF HelloAt, Phase
    <3>3. QED
      BY <3>2, <2>1 DEF HelloAt
  <2>3. failures = 0 => CalmAt(phase[s][o], "open", rec, want[s][n], str2,
                               Numbers(rec, str2, out))
    BY <1>6, <1>8 DEF CalmAt
  <2>4. QED
    BY <2>2, <2>3, <1>2, <1>4, <1>8 DEF LineMoves
<1>10. LineMoves(s, n, o)
  <2>1. HelloAt("open", phase[s][o], received[s][o], want[s][o], stream[s][n])
    BY <1>1, <1>2 DEF LineStands, HelloAt
  <2>2. failures = 0 => CalmAt("open", phase[s][o], received[s][o], want[s][o], stream[s][n],
                               Numbers(received[s][o], stream[s][n], outbox[s][n]))
    BY <1>1, <1>2 DEF LineStands, CalmAt
  <2>3. QED
    BY <2>1, <2>2, <1>1, <1>2, <1>4, <1>5 DEF LineMoves, LineStands
<1>11. Elsewhere(s)
  BY <1>2, <1>4, <1>5 DEF Elsewhere
<1>12. QED
  BY <1>2, <1>9, <1>10, <1>11, DataMoves DEF BluetoothInvariant

\* A read goes on, or ends with the connection.
LEMMA ReadData ==
    ASSUME BluetoothInvariant, NEW s \in Sockets, NEW n \in Ends(s),
           \/ ReadHello(s, n) \/ ReadFrame(s, n) \/ Misread(s, n) \/ Skip(s, n)
           \/ ReadEnd(s, n) \/ ReadTimesOut(s, n) \/ LinkIsSilent(s, n)
    PROVE  DataInvariant'
<1> PICK o : o = Other(s, n)
  OBVIOUS
<1>1. /\ n \in Nodes /\ o \in Nodes /\ o # n /\ o \in Ends(s)
      /\ LineStands(s, n, o) /\ LineStands(s, o, n)
  BY LinesStand
<1>2. phase[s][n] \in {"greeting", "open"}
  <2>1. Reading(s, n)
    BY DEF ReadHello, ReadFrame, Misread, Skip, ReadEnd, ReadTimesOut, LinkIsSilent, TimeOut
  <2>2. In(jobs[n], Job("recv", s)) /\ phase[s][n] # "closed"
    BY <2>1 DEF Reading, Runs, In
  <2>3. QED
    BY <2>2, <1>1 DEF BluetoothInvariant, PoolInvariant, JobsFit
<1>3. failures \in Nat /\ want[s][n] \in Nat
  BY <1>1, Types DEF BluetoothInvariant, PoolInvariant, TypeOK
<1>4. /\ failures = 0 => cut = {}
      /\ failures = 0 => want[s][n] = 0
      /\ failures = 0 /\ stream[s][o] # <<>> => Head(stream[s][o]).part = "head"
  BY <1>1 DEF BluetoothInvariant, DataInvariant, Calm, LineStands, CalmAt
<1>5. phase[s][n] = "greeting" => want[s][n] = 0
  BY <1>1 DEF LineStands, HelloAt
<1>6. phase[s][n] = "greeting" /\ stream[s][o] # <<>> => Head(stream[s][o]).part = "head"
  BY <1>1 DEF LineStands, HelloAt, HeadOfHello
<1>7. CASE ReadHello(s, n)
  <2>1. CASE Taken(s, n)
    <3>1. phase[s][n] = "greeting" /\ Close(s, n) /\ UNCHANGED <<cut, failures>>
      BY <2>1, <1>7 DEF ReadHello
    <3>2. QED
      BY <3>1, CloseData
  <2>2. CASE ~Taken(s, n)
    BY <2>2, <1>7, OpensData
  <2>3. QED
    BY <2>1, <2>2
<1>8. CASE ReadFrame(s, n)
  BY <1>8, ReadFrameData
<1>9. CASE Misread(s, n)
  <2>1. PICK length \in Lengths : want' = [want EXCEPT ![s][n] = length]
    BY <1>9 DEF Misread
  <2>2. /\ want[s][n] = 0 /\ stream[s][o] # <<>> /\ Head(stream[s][o]).part # "head"
        /\ Consume(s, n, 1) /\ UNCHANGED <<phase, outbox, sent, received, cut, failures>>
    BY <1>9 DEF Misread, InPlace, Incoming, ends
  <2>3. phase[s][n] = "open" /\ failures # 0
    BY <2>2, <1>2, <1>4, <1>6
  <2>4. 1 \in Nat
    OBVIOUS
  <2>5. QED
    BY <2>1, <2>2, <2>3, <2>4, LosesPlace
<1>10. CASE Skip(s, n)
  <2>1. /\ want[s][n] > 0 /\ want' = [want EXCEPT ![s][n] = Unread(@)]
        /\ Consume(s, n, 1) /\ UNCHANGED <<phase, outbox, sent, received, cut, failures>>
    BY <1>10 DEF Skip, ends
  <2>2. phase[s][n] = "open" /\ failures # 0
    BY <2>1, <1>2, <1>3, <1>4, <1>5
  <2>3. want' = [want EXCEPT ![s][n] = Unread(want[s][n])] /\ 1 \in Nat
    BY <2>1
  <2>4. QED
    BY <2>1, <2>2, <2>3, LosesPlace
<1>11. CASE ReadEnd(s, n)
  <2>1. Ended(s, n) /\ Close(s, n) /\ UNCHANGED <<cut, failures>>
    BY <1>11 DEF ReadEnd
  <2>2. failures' = 0 => phase[s][o] = "closed"
    BY <2>1, <1>4 DEF Ended
  <2>3. QED
    BY <2>1, <2>2, <1>2, CloseData
<1>12. CASE ReadTimesOut(s, n) \/ LinkIsSilent(s, n)
  <2>1. PICK had \in {0, 1} : TimeOut(s, n, had)
    BY <1>12 DEF ReadTimesOut, LinkIsSilent
  <2>2. /\ cut' = cut /\ (failures' = 0 => failures = 0)
        /\ failures' = 0 => Incoming(s, n) = <<>>
    BY <1>3, <1>12 DEF ReadTimesOut, LinkIsSilent, Fails
  <2>3. CASE phase[s][n] = "greeting"
    <3>1. Close(s, n)
      BY <2>1, <2>3 DEF TimeOut
    <3>2. QED
      BY <3>1, <2>2, <2>3, CloseData
  <2>4. CASE phase[s][n] # "greeting"
    <3>1. /\ want' = [want EXCEPT ![s][n] = 0] /\ Consume(s, n, had)
          /\ UNCHANGED <<phase, outbox, sent, received>> /\ had \in Nat
          /\ phase[s][n] = "open"
      BY <2>1, <2>4, <1>2 DEF TimeOut, ends
    <3>2. QED
      BY <3>1, <2>2, LosesPlace
  <2>5. QED
    BY <2>3, <2>4
<1>13. QED
  BY <1>7, <1>8, <1>9, <1>10, <1>11, <1>12

\* The invariant holds before any socket is used.
LEMMA BluetoothInit == Init => BluetoothInvariant
<1> SUFFICES ASSUME Init PROVE BluetoothInvariant
  OBVIOUS
<1>1. ASSUME NEW s \in Sockets, NEW m \in Ends(s)
      PROVE  /\ LineOf(s, m) /\ NumbersOf(s, m) = {} /\ HelloOf(s, m) /\ CalmOf(s, m)
  <2>1. m \in Nodes /\ Other(s, m) \in Nodes
    BY TwoEnds
  <2>2. /\ phase[s][m] = "unused" /\ phase[s][Other(s, m)] = "unused"
        /\ stream[s][m] = <<>> /\ want[s][Other(s, m)] = 0 /\ outbox[s][m] = <<>>
        /\ sent[m][Other(s, m)] = 0 /\ received[s][Other(s, m)] = <<>>
    BY <2>1 DEF Init
  <2>3. HelloAt("unused", "unused", <<>>, 0, <<>>)
    BY DEF HelloAt
  <2>4. CalmAt("unused", "unused", <<>>, 0, <<>>, {})
    BY DEF CalmAt
  <2>5. Line(<<>>, <<>>, <<>>, 0) /\ Numbers(<<>>, <<>>, <<>>) = {}
    BY LineHello
  <2>6. QED
    BY <2>2, <2>3, <2>4, <2>5 DEF LineOf, NumbersOf, HelloOf, CalmOf
<1>2. cut = {}
  BY DEF Init
<1>3. DataInvariant
  BY <1>1, <1>2 DEF DataInvariant, Lines, Numbered, Hellos, Calm
<1>4. QED
  BY <1>3, PoolInit DEF BluetoothInvariant

\* No step of the transport, its pool or the radio breaks the invariant.
LEMMA BluetoothStep == BluetoothInvariant /\ [Next]_vars => BluetoothInvariant'
<1> SUFFICES ASSUME BluetoothInvariant, [Next]_vars PROVE BluetoothInvariant'
  OBVIOUS
<1>1. PoolInvariant'
  BY PoolStep DEF BluetoothInvariant
<1>2. DataInvariant'
  <2>1. CASE \E n \in Nodes : AcceptJob(n)
    <3>1. PICK n \in Nodes : AcceptJob(n)
      BY <2>1
    <3>2. CASE Accept(n)
      <4>1. PICK s \in Sockets : phase[s][n] = "backlog"
        BY <3>2 DEF Accept
      <4>2. QED
        BY <4>1, <3>1, DialData
    <3>3. CASE AcceptTimesOut(n)
      <4>1. UNCHANGED <<phase, data, cut, failures>>
        BY <3>3 DEF AcceptTimesOut, ends
      <4>2. QED
        BY <4>1, SameData DEF BluetoothInvariant
    <3>4. QED
      BY <3>1, <3>2, <3>3 DEF AcceptJob
  <2>2. CASE \E n, m \in Nodes : SendFrame(n, m)
    BY <2>2, SubmitData
  <2>3. CASE \E s \in Sockets : Dial(s) \/ ConnectJob(s)
    <3>1. PICK s \in Sockets : Dial(s) \/ ConnectJob(s)
      BY <2>3
    <3>2. Dialer[s] \in Nodes
      BY TwoEnds
    <3>3. QED
      BY <3>1, <3>2, DialData, ConnectData
  <2>4. CASE \E s \in Sockets : LoseLink(s)
    <3>1. UNCHANGED <<phase, data>> /\ failures' = failures + 1
      BY <2>4 DEF LoseLink, Fails, ends
    <3>2. failures' # 0
      BY <3>1 DEF BluetoothInvariant, PoolInvariant, TypeOK
    <3>3. QED
      BY <3>1, <3>2, SameData DEF BluetoothInvariant
  <2>5. CASE \E s \in Sockets : \E n \in Ends(s) :
                SendJob(s, n) \/ SendFails(s, n) \/ RecvJob(s, n) \/ LinkIsSilent(s, n)
    <3>0. PICK s \in Sockets : \E n \in Ends(s) :
                SendJob(s, n) \/ SendFails(s, n) \/ RecvJob(s, n) \/ LinkIsSilent(s, n)
      BY <2>5
    <3>1. PICK n \in Ends(s) :
                SendJob(s, n) \/ SendFails(s, n) \/ RecvJob(s, n) \/ LinkIsSilent(s, n)
      BY <3>0
    <3>2. CASE Abandon(s, n, "send") \/ Abandon(s, n, "recv")
      <4>1. UNCHANGED <<phase, data, cut, failures>>
        BY <3>2 DEF Abandon, ends
      <4>2. QED
        BY <4>1, SameData DEF BluetoothInvariant
    <3>3. CASE SendHello(s, n) \/ WriteFrame(s, n) \/ SendFails(s, n)
      BY <3>3, SendData
    <3>4. CASE \/ ReadHello(s, n) \/ ReadFrame(s, n) \/ Misread(s, n) \/ Skip(s, n)
               \/ ReadEnd(s, n) \/ ReadTimesOut(s, n) \/ LinkIsSilent(s, n)
      BY <3>4, ReadData
    <3>5. QED
      BY <3>1, <3>2, <3>3, <3>4 DEF SendJob, RecvJob
  <2>6. CASE UNCHANGED vars
    <3>1. UNCHANGED <<phase, data, cut, failures>>
      BY <2>6 DEF vars, ends
    <3>2. QED
      BY <3>1, SameData DEF BluetoothInvariant
  <2>7. QED
    BY <2>1, <2>2, <2>3, <2>4, <2>5, <2>6 DEF Next
<1>3. QED
  BY <1>1, <1>2 DEF BluetoothInvariant

\* The invariant orders the frames that were read.
LEMMA InvariantOrders == BluetoothInvariant => FramesReadInOrder
<1> SUFFICES ASSUME BluetoothInvariant PROVE FramesReadInOrder
  OBVIOUS
<1>1. ASSUME NEW s \in Sockets, NEW n \in Ends(s)
      PROVE  /\ received[s][n] \in Seq(Nat)
             /\ \A i \in DOMAIN received[s][n] :
                   /\ received[s][n][i] # Hello
                   /\ received[s][n][i] \in NumbersOf(s, Other(s, n))
             /\ \A i, j \in DOMAIN received[s][n] :
                   i < j => received[s][n][i] < received[s][n][j]
  <2> PICK o : o = Other(s, n)
    OBVIOUS
  <2>1. LineStands(s, o, n) /\ Other(s, o) = n
    BY LinesStand, TwoEnds
  <2> PICK rec : rec = received[s][n]
    OBVIOUS
  <2>2. /\ rec \in Seq(Nat) /\ DOMAIN rec = 1..Len(rec) /\ sent[o][n] \in Nat
        /\ Line(rec, stream[s][o], outbox[s][o], sent[o][n])
    BY <2>1 DEF LineStands
  <2>3. Rising(rec) /\ \A i \in 1..Len(rec) : rec[i] \in 1..sent[o][n]
    BY <2>2 DEF Line
  <2>4. \A i \in 1..Len(rec) : rec[i] # Hello
    <3>1. \A x \in Nat : \A i \in 1..x : i # 0
      OBVIOUS
    <3>2. QED
      BY <3>1, <2>2, <2>3 DEF Hello
  <2>5. \A i \in 1..Len(rec) : rec[i] \in NumbersOf(s, o)
    BY <2>1, <2>4 DEF NumbersOf, Numbers
  <2>6. QED
    BY <2>2, <2>3, <2>4, <2>5 DEF Rising
<1>2. ASSUME NEW s \in Sockets, NEW t \in Sockets, NEW n \in Ends(s) \cap Ends(t),
             s # t, Other(s, n) = Other(t, n)
      PROVE  /\ \A i \in DOMAIN received[s][n], j \in DOMAIN received[t][n] :
                   received[s][n][i] # received[t][n][j]
             /\ failures = 0 => received[s][n] = <<>> \/ received[t][n] = <<>>
  <2> PICK o : o = Other(s, n)
    OBVIOUS
  <2>1. o \in Ends(s) \cap Ends(t) /\ Other(s, o) = n /\ Other(t, o) = n /\ n \in Nodes
    BY <1>2, TwoEnds
  <2>2. NumbersOf(s, o) \cap NumbersOf(t, o) = {}
    BY <2>1, <1>2 DEF BluetoothInvariant, DataInvariant, Numbered
  <2>3. \A i \in DOMAIN received[s][n], j \in DOMAIN received[t][n] :
           received[s][n][i] # received[t][n][j]
    <3>1. \A i \in DOMAIN received[s][n] : received[s][n][i] \in NumbersOf(s, o)
      BY <1>1
    <3>2. \A j \in DOMAIN received[t][n] : received[t][n][j] \in NumbersOf(t, o)
      BY <1>1, <1>2
    <3>3. QED
      BY <3>1, <3>2, <2>2
  <2>4. ASSUME failures = 0, received[s][n] # <<>>, received[t][n] # <<>> PROVE FALSE
    <3>1. CalmOf(s, o) /\ CalmOf(t, o)
      BY <2>1, <2>4 DEF BluetoothInvariant, DataInvariant, Calm
    <3>2. phase[s][n] = "open" /\ phase[t][n] = "open"
      BY <3>1, <2>1, <2>4 DEF CalmOf, CalmAt
    <3>3. s \in connections[n] /\ t \in connections[n]
      BY <3>2, <2>1 DEF BluetoothInvariant, PoolInvariant, OneForEach
    <3>4. QED
      BY <3>3, <2>1, <1>2 DEF BluetoothInvariant, PoolInvariant, OneForEach
  <2>5. QED
    BY <2>3, <2>4
<1>3. ASSUME failures = 0, NEW s \in Sockets, NEW n \in Ends(s)
      PROVE  want[s][n] = 0 /\ (Incoming(s, n) # <<>> => InPlace(s, n))
  <2>1. CalmOf(s, Other(s, n)) /\ Other(s, Other(s, n)) = n
    BY <1>3, TwoEnds DEF BluetoothInvariant, DataInvariant, Calm
  <2>2. QED
    BY <2>1 DEF CalmOf, CalmAt, Incoming, InPlace
<1>4. QED
  BY <1>1, <1>2, <1>3 DEF FramesReadInOrder

\* The frames of a connection are read in order and once, and without failures
\* all frames of a peer on one connection.
THEOREM FramesInOrder == Spec => []FramesReadInOrder
  BY BluetoothInit, BluetoothStep, InvariantOrders, PTL DEF Spec
===============================================================================
