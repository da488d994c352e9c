---------------------------- MODULE DraftsProofs ----------------------------
(***************************************************************************)
(* Theorems about Drafts, for all five programs, any numbers of children,  *)
(* any NLetters and any faults.                                            *)
(***************************************************************************)
EXTENDS Drafts, ProcessGroupProofs

(***************************************************************************)
(* semop.                                                                  *)
(***************************************************************************)
Operations(S) == [num : S, op : Int]

\* ops is an array of len operations on the semaphores S.
IsArray(ops, len, S) ==
    /\ len \in 1 .. 6 /\ Len(ops) = len
    /\ \A n \in 1 .. len : n \in DOMAIN ops /\ ops[n] \in Operations(S)

\* The values after each operation, for arrays of up to six.
LEMMA ValuesAre ==
    ASSUME NEW v, NEW S, NEW ops, NEW len, IsArray(ops, len, S)
    PROVE  /\ Values(v, ops)[0] = v
           /\ \A n \in 1 .. len : Values(v, ops)[n] = Apply(Values(v, ops)[n - 1], ops[n])
  <1>0. len \in 1 .. 6 /\ Len(ops) = len
    BY DEF IsArray
  <1> DEFINE A1 == Apply(v, ops[1])
             A2 == Apply(A1, ops[2])
             A3 == Apply(A2, ops[3])
             A4 == Apply(A3, ops[4])
             A5 == Apply(A4, ops[5])
             A6 == Apply(A5, ops[6])
             A == <<A1, A2, A3, A4, A5, A6>>
             After == [n \in 0 .. len |-> IF n = 0 THEN v ELSE A[n]]
  <1>1. \A n \in 1 .. len : After[n] = Apply(After[n - 1], ops[n])
    <2> HIDE DEF A1, A2, A3, A4, A5, A6
    <2>1. A[1] = A1 /\ A[2] = A2 /\ A[3] = A3 /\ A[4] = A4 /\ A[5] = A5 /\ A[6] = A6
      OBVIOUS
    <2>2. \A n \in 0 .. len : After[n] = IF n = 0 THEN v ELSE A[n]
      OBVIOUS
    <2> HIDE DEF A, After
    <2> TAKE n \in 1 .. len
    <2>3. n \in 0 .. len /\ n - 1 \in 0 .. len
      BY <1>0
    <2>4. CASE n = 1
      BY <2>1, <2>2, <2>3, <2>4 DEF A1
    <2>5. CASE n = 2
      BY <2>1, <2>2, <2>3, <2>5 DEF A2
    <2>6. CASE n = 3
      BY <2>1, <2>2, <2>3, <2>6 DEF A3
    <2>7. CASE n = 4
      BY <2>1, <2>2, <2>3, <2>7 DEF A4
    <2>8. CASE n = 5
      BY <2>1, <2>2, <2>3, <2>8 DEF A5
    <2>9. CASE n = 6
      BY <2>1, <2>2, <2>3, <2>9 DEF A6
    <2> QED
      BY <1>0, <2>3, <2>4, <2>5, <2>6, <2>7, <2>8, <2>9
  <1>2. After[0] = v
    BY <1>0
  <1>3. After = [n \in 0 .. len |-> IF n = 0 THEN v ELSE Apply(After[n - 1], ops[n])]
    <2> HIDE DEF After
    <2>1. \A n \in 0 .. len : After[n] = IF n = 0 THEN v ELSE Apply(After[n - 1], ops[n])
      BY <1>1, <1>2
    <2>2. After = [n \in 0 .. len |-> After[n]]
      BY DEF After
    <2> QED
      BY <2>1, <2>2
  <1> HIDE DEF After
  <1>4. Values(v, ops) = [n \in 0 .. len |-> IF n = 0 THEN v ELSE Apply(Values(v, ops)[n - 1], ops[n])]
    BY <1>0, <1>3 DEF Values
  <1> QED
    BY <1>0, <1>4

\* What the n-th operation adds to s, and what all of them do.
Added(ops, len, n, s) == IF n <= len /\ s = ops[n].num THEN ops[n].op ELSE 0
Total(ops, len, s) ==
    Added(ops, len, 1, s) + Added(ops, len, 2, s) + Added(ops, len, 3, s) + Added(ops, len, 4, s) + Added(ops, len, 5, s)
        + Added(ops, len, 6, s)

\* A semop adds all of them up.  An operation on a semaphore that none before
\* it is about waits on the value that the semaphore has.
LEMMA SemopNet ==
    ASSUME NEW S, NEW ops, NEW len \in 1 .. 6, NEW at, at[0] \in [S -> Int],
           \A n \in 1 .. len : ops[n] \in Operations(S) /\ at[n] = Apply(at[n - 1], ops[n]),
           NEW v \in [S -> Int], \A s \in S : v[s] = at[0][s] + Total(ops, len, s)
    PROVE  /\ at[len] = v
           /\ \A n \in 1 .. len :
                 /\ Ready(at[n - 1], ops[n])
                 /\ \A m \in 1 .. n - 1 : ops[m].num # ops[n].num
                 => Ready(at[0], ops[n])
  <1> DEFINE At(n) == at[n]
  <1>1. /\ \A n \in 0 .. len : At(n) \in [S -> Int]
        /\ \A n \in 1 .. len : \A t \in S :
              At(n)[t] = IF t = ops[n].num THEN At(n - 1)[t] + ops[n].op ELSE At(n - 1)[t]
    <2>1. At(0) \in [S -> Int] /\ \A n \in 1 .. len : At(n) = Apply(At(n - 1), ops[n])
      OBVIOUS
    <2> HIDE DEF At
    <2>2. ASSUME NEW u \in [S -> Int], NEW o \in Operations(S)
          PROVE  /\ Apply(u, o) \in [S -> Int]
                 /\ \A s \in S : Apply(u, o)[s] = IF s = o.num THEN u[s] + o.op ELSE u[s]
      BY DEF Apply, Operations
    <2>3. \A n \in 0 .. len - 1 : At(n) \in [S -> Int] => At(n + 1) \in [S -> Int]
      <3> SUFFICES ASSUME NEW n \in 0 .. len - 1, At(n) \in [S -> Int]
                   PROVE  At(n + 1) \in [S -> Int]
        OBVIOUS
      <3>1. n + 1 \in 1 .. len /\ (n + 1) - 1 = n
        OBVIOUS
      <3> QED
        BY <2>1, <2>2, <3>1
    <2>4. /\ At(1) \in [S -> Int]
          /\ len >= 2 => At(2) \in [S -> Int]
          /\ len >= 3 => At(3) \in [S -> Int]
          /\ len >= 4 => At(4) \in [S -> Int]
          /\ len >= 5 => At(5) \in [S -> Int]
          /\ len >= 6 => At(6) \in [S -> Int]
      BY <2>1, <2>3
    <2>9. \A n \in 0 .. len : At(n) \in [S -> Int]
      <3> TAKE n \in 0 .. len
      <3>1. n \in {0, 1, 2, 3, 4, 5, 6} /\ n <= len
        OBVIOUS
      <3> QED
        BY <3>1, <2>1, <2>4
    <2>10. \A n \in 1 .. len : \A s \in S :
              At(n)[s] = IF s = ops[n].num THEN At(n - 1)[s] + ops[n].op ELSE At(n - 1)[s]
      <3> SUFFICES ASSUME NEW n \in 1 .. len
                   PROVE  \A s \in S : At(n)[s] = IF s = ops[n].num THEN At(n - 1)[s] + ops[n].op
                                                   ELSE At(n - 1)[s]
        OBVIOUS
      <3>1. n - 1 \in 0 .. len
        OBVIOUS
      <3>2. At(n - 1) \in [S -> Int] /\ At(n) = Apply(At(n - 1), ops[n])
        BY <2>1, <2>9, <3>1
      <3>3. ops[n] \in Operations(S)
        OBVIOUS
      <3> QED
        BY <2>2, <3>2, <3>3
    <2> QED
      BY <2>9, <2>10
  <1> HIDE DEF At
  <1>2. ASSUME NEW n \in 1 .. len, NEW s \in S
        PROVE  /\ At(n)[s] = At(n - 1)[s] + Added(ops, len, n, s)
               /\ Added(ops, len, n, s) \in Int /\ At(n)[s] \in Int
    <2>1. n - 1 \in 0 .. len /\ n \in 0 .. len /\ n <= len
      OBVIOUS
    <2>2. At(n - 1)[s] \in Int /\ At(n)[s] \in Int /\ ops[n] \in Operations(S)
      BY <1>1, <2>1
    <2>3. At(n)[s] = IF s = ops[n].num THEN At(n - 1)[s] + ops[n].op ELSE At(n - 1)[s]
      BY <1>1
    <2> QED
      BY <2>1, <2>2, <2>3 DEF Added, Operations
  <1>3. ASSUME NEW n \in Nat, n > len, NEW s \in S PROVE Added(ops, len, n, s) = 0
    BY <1>3 DEF Added
  <1>4. ASSUME NEW s \in S PROVE At(len)[s] = v[s]
    <2>1. At(0)[s] \in Int
      BY <1>1
    <2>3. \A n \in 1 .. 6 : Added(ops, len, n, s) \in Int /\ (n > len => Added(ops, len, n, s) = 0)
      <3> SUFFICES ASSUME NEW n \in 1 .. 6
                   PROVE  Added(ops, len, n, s) \in Int /\ (n > len => Added(ops, len, n, s) = 0)
        OBVIOUS
      <3>1. n \in 1 .. len \/ (n \in Nat /\ n > len)
        OBVIOUS
      <3> QED
        BY <3>1, <1>2, <1>3
    <2>2. v[s] = At(0)[s] + Added(ops, len, 1, s) + Added(ops, len, 2, s) + Added(ops, len, 3, s)
                        + Added(ops, len, 4, s) + Added(ops, len, 5, s) + Added(ops, len, 6, s)
      <3>1. /\ Added(ops, len, 1, s) \in Int /\ Added(ops, len, 2, s) \in Int /\ Added(ops, len, 3, s) \in Int
            /\ Added(ops, len, 4, s) \in Int /\ Added(ops, len, 5, s) \in Int /\ Added(ops, len, 6, s) \in Int
        BY <2>3
      <3>2. v[s] = At(0)[s] + Total(ops, len, s)
        BY DEF At
      <3> QED
        BY <2>1, <3>1, <3>2 DEF Total
    <2>4. /\ At(1)[s] = At(0)[s] + Added(ops, len, 1, s)
          /\ len >= 2 => At(2)[s] = At(1)[s] + Added(ops, len, 2, s)
          /\ len >= 3 => At(3)[s] = At(2)[s] + Added(ops, len, 3, s)
          /\ len >= 4 => At(4)[s] = At(3)[s] + Added(ops, len, 4, s)
          /\ len >= 5 => At(5)[s] = At(4)[s] + Added(ops, len, 5, s)
          /\ len >= 6 => At(6)[s] = At(5)[s] + Added(ops, len, 6, s)
      <3>1. \A n \in 1 .. len : At(n)[s] = At(n - 1)[s] + Added(ops, len, n, s)
        BY <1>2
      <3>2. ASSUME NEW n \in Nat, n + 1 <= len
            PROVE  At(n + 1)[s] = At(n)[s] + Added(ops, len, n + 1, s)
        <4>1. n + 1 \in 1 .. len /\ (n + 1) - 1 = n
          BY <3>2
        <4> QED
          BY <3>1, <4>1
      <3>5. At(1)[s] = At(0)[s] + Added(ops, len, 1, s)
        <4>1. 0 \in Nat /\ 0 + 1 <= len /\ 0 + 1 = 1
          OBVIOUS
        <4> QED
          BY <3>2, <4>1
      <3>3. /\ len >= 2 => At(2)[s] = At(1)[s] + Added(ops, len, 2, s)
            /\ len >= 3 => At(3)[s] = At(2)[s] + Added(ops, len, 3, s)
        BY <3>2
      <3>4. /\ len >= 4 => At(4)[s] = At(3)[s] + Added(ops, len, 4, s)
            /\ len >= 5 => At(5)[s] = At(4)[s] + Added(ops, len, 5, s)
            /\ len >= 6 => At(6)[s] = At(5)[s] + Added(ops, len, 6, s)
        BY <3>2
      <3> QED
        BY <3>3, <3>4, <3>5
    <2> HIDE DEF At
    <2>5. At(1)[s] = At(0)[s] + Added(ops, len, 1, s)
      BY <2>1, <2>4
    <2>6. /\ Added(ops, len, 1, s) \in Int
          /\ Added(ops, len, 2, s) \in Int /\ (2 > len => Added(ops, len, 2, s) = 0)
          /\ Added(ops, len, 3, s) \in Int /\ (3 > len => Added(ops, len, 3, s) = 0)
          /\ Added(ops, len, 4, s) \in Int /\ (4 > len => Added(ops, len, 4, s) = 0)
          /\ Added(ops, len, 5, s) \in Int /\ (5 > len => Added(ops, len, 5, s) = 0)
          /\ Added(ops, len, 6, s) \in Int /\ (6 > len => Added(ops, len, 6, s) = 0)
      BY <2>3
    <2>7. CASE len = 3
      BY <2>1, <2>2, <2>4, <2>5, <2>6, <2>7
    <2>11. CASE len = 1
      BY <2>1, <2>2, <2>4, <2>5, <2>6, <2>11
    <2>12. CASE len = 2
      BY <2>1, <2>2, <2>4, <2>5, <2>6, <2>12
    <2>8. CASE len = 4
      BY <2>1, <2>2, <2>4, <2>5, <2>6, <2>8
    <2>9. CASE len = 5
      BY <2>1, <2>2, <2>4, <2>5, <2>6, <2>9
    <2>10. CASE len = 6
      BY <2>1, <2>2, <2>4, <2>5, <2>6, <2>10
    <2> QED
      BY <2>7, <2>8, <2>9, <2>10, <2>11, <2>12
  <1>5. At(len) = v
    <2>1. At(len) \in [S -> Int]
      BY <1>1
    <2> QED
      BY <1>4, <2>1
  <1>6. ASSUME NEW n \in 1 .. len, Ready(At(n - 1), ops[n]),
               \A m \in 1 .. n - 1 : ops[m].num # ops[n].num
        PROVE  Ready(At(0), ops[n])
    <2>1. Ready(At(n - 1), ops[n])
      BY <1>6
    <2>2. ops[n] \in Operations(S) /\ ops[n].num \in S
      BY DEF Operations
    <2>3. \A m \in 1 .. n - 1 : At(m)[ops[n].num] = At(m - 1)[ops[n].num]
      <3> TAKE m \in 1 .. n - 1
      <3>1. m \in 1 .. len /\ ops[m].num # ops[n].num
        BY <1>6
      <3> QED
        BY <1>1, <2>2, <3>1
    <2>4. At(n - 1)[ops[n].num] = At(0)[ops[n].num]
      <3>1. \A m \in 1 .. 5 : m <= n - 1 => At(m)[ops[n].num] = At(m - 1)[ops[n].num]
        BY <2>3
      <3>2. n \in {1, 2, 3, 4, 5, 6}
        BY <1>1
      <3> HIDE DEF At
      <3>3. CASE n = 1
        BY <3>2, <3>3
      <3>4. CASE n = 2
        BY <3>1, <3>2, <3>4
      <3>5. CASE n = 3
        BY <3>1, <3>2, <3>5
      <3>6. CASE n = 4
        BY <3>1, <3>2, <3>6
      <3>7. CASE n = 5
        BY <3>1, <3>2, <3>7
      <3>8. CASE n = 6
        BY <3>1, <3>2, <3>8
      <3> QED
        BY <3>2, <3>3, <3>4, <3>5, <3>6, <3>7, <3>8
    <2> QED
      BY <2>1, <2>4 DEF Ready
  <1> QED
    BY <1>5, <1>6 DEF At

\* What a semop does to the set, and what it has waited for.
LEMMA ArrayNet ==
    ASSUME NEW S, sem \in [S -> Int], NEW ops, NEW len, IsArray(ops, len, S),
           NEW v \in [S -> Int], \A s \in S : v[s] = sem[s] + Total(ops, len, s)
    PROVE  /\ Values(sem, ops)[len] = v
           /\ CanSemop(ops) => \A n \in 1 .. len :
                 (\A m \in 1 .. n - 1 : ops[m].num # ops[n].num) => Ready(sem, ops[n])
  <1> DEFINE at == Values(sem, ops)
  <1>1. len \in 1 .. 6 /\ Len(ops) = len /\ \A n \in 1 .. len : ops[n] \in Operations(S)
    BY DEF IsArray
  <1>2. /\ at[0] = sem
        /\ \A n \in 1 .. len : at[n] = Apply(at[n - 1], ops[n])
    BY ValuesAre
  <1>3. CanSemop(ops) => \A n \in 1 .. len : Ready(at[n - 1], ops[n])
    BY DEF CanSemop, IsArray
  <1>4. /\ at[0] \in [S -> Int]
        /\ \A n \in 1 .. len : ops[n] \in Operations(S) /\ at[n] = Apply(at[n - 1], ops[n])
        /\ v \in [S -> Int] /\ \A s \in S : v[s] = at[0][s] + Total(ops, len, s)
    BY <1>1, <1>2
  <1> HIDE DEF at
  <1>5. /\ at[len] = v
        /\ \A n \in 1 .. len :
              Ready(at[n - 1], ops[n]) /\ (\A m \in 1 .. n - 1 : ops[m].num # ops[n].num)
              => Ready(at[0], ops[n])
    <2>1. len \in 1 .. 6
      BY <1>1
    <2> QED
      BY <2>1, <1>4, SemopNet, SMTT(60)
  <1> QED
    BY <1>2, <1>3, <1>5 DEF at

\* The four arrays of a readers-writers program, when r readers and w writers
\* are inside: a reader comes in beside readers, a writer alone.
LockArrays(ops, r, w) ==
    /\ CanSemop(ops.start_read) => w = 0
    /\ Values(sem, ops.start_read)[Len(ops.start_read)] = SemsWith(r + 1, w)
    /\ Values(sem, ops.stop_read)[Len(ops.stop_read)] = SemsWith(r - 1, w)
    /\ CanSemop(ops.start_write) => r = 0 /\ w = 0
    /\ Values(sem, ops.start_write)[Len(ops.start_write)] = SemsWith(r, w + 1)
    /\ Values(sem, ops.stop_write)[Len(ops.stop_write)] = SemsWith(r, w - 1)

\* tmp.c.
LEMMA TmpArrays ==
    ASSUME program = "tmp", NEW r \in Nat, NEW w \in {0, 1}, sem = SemsWith(r, w)
    PROVE  LockArrays(tmp_ops, r, w)
  <1> DEFINE S == 0 .. 4
             sr == tmp_ops.start_read
             er == tmp_ops.stop_read
             sw == tmp_ops.start_write
             ew == tmp_ops.stop_write
  <1>1. /\ sem \in [S -> Int]
        /\ sem[0] = 1 - w /\ sem[1] = w /\ sem[2] = r /\ sem[3] = 0 /\ sem[4] = 0
    BY DEF SemsWith
  <1>2. /\ sr[1] = Sembuf(4, 1) /\ sr[2] = Sembuf(1, 0) /\ sr[3] = Sembuf(3, 0)
        /\ sr[4] = Sembuf(2, 1) /\ sr[5] = Sembuf(4, -1)
        /\ er[1] = Sembuf(2, -1)
        /\ sw[1] = Sembuf(3, 1) /\ sw[2] = Sembuf(2, 0) /\ sw[3] = Sembuf(0, -1)
        /\ sw[4] = Sembuf(1, 0) /\ sw[5] = Sembuf(1, 1) /\ sw[6] = Sembuf(3, -1)
        /\ ew[1] = Sembuf(1, -1) /\ ew[2] = Sembuf(0, 1)
    BY DEF tmp_ops, P, V
  <1>3. /\ IsArray(sr, 5, S) /\ IsArray(er, 1, S)
        /\ IsArray(sw, 6, S) /\ IsArray(ew, 2, S)
    BY DEF IsArray, tmp_ops, P, V, Operations, Sembuf
  <1>4. /\ Len(sr) = 5 /\ Len(er) = 1 /\ Len(sw) = 6 /\ Len(ew) = 2
    BY DEF tmp_ops
  <1> HIDE DEF sr, er, sw, ew
  <1>5. /\ SemsWith(r + 1, w) \in [S -> Int] /\ SemsWith(r - 1, w) \in [S -> Int]
        /\ SemsWith(r, w + 1) \in [S -> Int] /\ SemsWith(r, w - 1) \in [S -> Int]
    BY DEF SemsWith
  <1>6. /\ \A s \in S : SemsWith(r + 1, w)[s] = sem[s] + Total(sr, 5, s)
        /\ \A s \in S : SemsWith(r - 1, w)[s] = sem[s] + Total(er, 1, s)
    BY <1>1, <1>2 DEF SemsWith, Total, Added, Sembuf
  <1>7. /\ \A s \in S : SemsWith(r, w + 1)[s] = sem[s] + Total(sw, 6, s)
        /\ \A s \in S : SemsWith(r, w - 1)[s] = sem[s] + Total(ew, 2, s)
    BY <1>1, <1>2 DEF SemsWith, Total, Added, Sembuf
  <1> HIDE DEF S
  <1>8. /\ Values(sem, sr)[5] = SemsWith(r + 1, w)
        /\ CanSemop(sr) =>
              ((\A m \in 1 .. 2 - 1 : sr[m].num # sr[2].num) => Ready(sem, sr[2]))
    BY <1>1, <1>3, <1>5, <1>6, ArrayNet
  <1>9. Values(sem, er)[1] = SemsWith(r - 1, w)
    BY <1>1, <1>3, <1>5, <1>6, ArrayNet
  <1>10. /\ Values(sem, sw)[6] = SemsWith(r, w + 1)
         /\ CanSemop(sw) => \A n \in 1 .. 6 :
               (\A m \in 1 .. n - 1 : sw[m].num # sw[n].num) => Ready(sem, sw[n])
    <2> DEFINE v == SemsWith(r, w + 1)
    <2>1. sem \in [S -> Int] /\ IsArray(sw, 6, S) /\ v \in [S -> Int]
          /\ \A s \in S : v[s] = sem[s] + Total(sw, 6, s)
      BY <1>1, <1>3, <1>5, <1>7
    <2> HIDE DEF v
    <2>2. Values(sem, sw)[6] = v
      BY <2>1, ArrayNet
    <2>3. CanSemop(sw) => \A n \in 1 .. 6 :
               (\A m \in 1 .. n - 1 : sw[m].num # sw[n].num) => Ready(sem, sw[n])
      BY <2>1, ArrayNet
    <2> QED
      BY <2>2, <2>3 DEF v
  <1>11. Values(sem, ew)[2] = SemsWith(r, w - 1)
    BY <1>1, <1>3, <1>5, <1>7, ArrayNet
  <1>12. CanSemop(sr) => w = 0
    BY <1>1, <1>2, <1>8 DEF Ready, Sembuf
  <1>13. CanSemop(sw) => r = 0 /\ w = 0
    <2>1. CanSemop(sw) =>
                  /\ (\A m \in 1 .. 2 - 1 : sw[m].num # sw[2].num) => Ready(sem, sw[2])
                  /\ (\A m \in 1 .. 3 - 1 : sw[m].num # sw[3].num) => Ready(sem, sw[3])
      BY <1>10
    <2> QED
      BY <1>1, <1>2, <2>1 DEF Ready, Sembuf
  <1> QED
    BY <1>4, <1>8, <1>9, <1>10, <1>11, <1>12, <1>13 DEF LockArrays, sr, er, sw, ew

\* tmp_wr.c.
LEMMA TmpWrArrays ==
    ASSUME program = "tmp_wr", NEW r \in Nat, NEW w \in {0, 1}, sem = SemsWith(r, w)
    PROVE  LockArrays(tmp_wr_ops, r, w)
  <1> DEFINE S == 0 .. 4
             sr == tmp_wr_ops.start_read
             er == tmp_wr_ops.stop_read
             sw == tmp_wr_ops.start_write
             ew == tmp_wr_ops.stop_write
  <1>1. /\ sem \in [S -> Int]
        /\ sem[0] = 0 /\ sem[1] = r /\ sem[2] = 0 /\ sem[3] = 1 - w /\ sem[4] = w
    BY DEF SemsWith
  <1>2. /\ sr[1] = Sembuf(0, 1) /\ sr[2] = Sembuf(4, 0) /\ sr[3] = Sembuf(2, 0)
        /\ sr[4] = Sembuf(1, 1) /\ sr[5] = Sembuf(0, -1)
        /\ er[1] = Sembuf(1, -1)
        /\ sw[1] = Sembuf(2, 1) /\ sw[2] = Sembuf(1, 0) /\ sw[3] = Sembuf(4, 1)
        /\ sw[4] = Sembuf(3, -1) /\ sw[5] = Sembuf(2, -1)
        /\ ew[1] = Sembuf(3, 1) /\ ew[2] = Sembuf(4, -1)
    BY DEF tmp_wr_ops, P, V
  <1>3. /\ IsArray(sr, 5, S) /\ IsArray(er, 1, S)
        /\ IsArray(sw, 5, S) /\ IsArray(ew, 2, S)
    BY DEF IsArray, tmp_wr_ops, P, V, Operations, Sembuf
  <1>4. /\ Len(sr) = 5 /\ Len(er) = 1 /\ Len(sw) = 5 /\ Len(ew) = 2
    BY DEF tmp_wr_ops
  <1> HIDE DEF sr, er, sw, ew
  <1>5. /\ SemsWith(r + 1, w) \in [S -> Int] /\ SemsWith(r - 1, w) \in [S -> Int]
        /\ SemsWith(r, w + 1) \in [S -> Int] /\ SemsWith(r, w - 1) \in [S -> Int]
    BY DEF SemsWith
  <1>6. /\ \A s \in S : SemsWith(r + 1, w)[s] = sem[s] + Total(sr, 5, s)
        /\ \A s \in S : SemsWith(r - 1, w)[s] = sem[s] + Total(er, 1, s)
    BY <1>1, <1>2 DEF SemsWith, Total, Added, Sembuf
  <1>7. /\ \A s \in S : SemsWith(r, w + 1)[s] = sem[s] + Total(sw, 5, s)
        /\ \A s \in S : SemsWith(r, w - 1)[s] = sem[s] + Total(ew, 2, s)
    BY <1>1, <1>2 DEF SemsWith, Total, Added, Sembuf
  <1> HIDE DEF S
  <1>8. /\ Values(sem, sr)[5] = SemsWith(r + 1, w)
        /\ CanSemop(sr) =>
              ((\A m \in 1 .. 2 - 1 : sr[m].num # sr[2].num) => Ready(sem, sr[2]))
    BY <1>1, <1>3, <1>5, <1>6, ArrayNet
  <1>9. Values(sem, er)[1] = SemsWith(r - 1, w)
    BY <1>1, <1>3, <1>5, <1>6, ArrayNet
  <1>10. /\ Values(sem, sw)[5] = SemsWith(r, w + 1)
         /\ CanSemop(sw) => \A n \in 1 .. 5 :
               (\A m \in 1 .. n - 1 : sw[m].num # sw[n].num) => Ready(sem, sw[n])
    <2> DEFINE v == SemsWith(r, w + 1)
    <2>1. sem \in [S -> Int] /\ IsArray(sw, 5, S) /\ v \in [S -> Int]
          /\ \A s \in S : v[s] = sem[s] + Total(sw, 5, s)
      BY <1>1, <1>3, <1>5, <1>7
    <2> HIDE DEF v
    <2>2. Values(sem, sw)[5] = v
      BY <2>1, ArrayNet
    <2>3. CanSemop(sw) => \A n \in 1 .. 5 :
               (\A m \in 1 .. n - 1 : sw[m].num # sw[n].num) => Ready(sem, sw[n])
      BY <2>1, ArrayNet
    <2> QED
      BY <2>2, <2>3 DEF v
  <1>11. Values(sem, ew)[2] = SemsWith(r, w - 1)
    BY <1>1, <1>3, <1>5, <1>7, ArrayNet
  <1>12. CanSemop(sr) => w = 0
    BY <1>1, <1>2, <1>8 DEF Ready, Sembuf
  <1>13. CanSemop(sw) => r = 0 /\ w = 0
    <2>1. CanSemop(sw) =>
                  /\ (\A m \in 1 .. 2 - 1 : sw[m].num # sw[2].num) => Ready(sem, sw[2])
                  /\ (\A m \in 1 .. 4 - 1 : sw[m].num # sw[4].num) => Ready(sem, sw[4])
      BY <1>10
    <2> QED
      BY <1>1, <1>2, <2>1 DEF Ready, Sembuf
  <1> QED
    BY <1>4, <1>8, <1>9, <1>10, <1>11, <1>12, <1>13 DEF LockArrays, sr, er, sw, ew

\* wr_old.c.
LEMMA WrOldArrays ==
    ASSUME program = "wr_old", NEW r \in Nat, NEW w \in {0, 1}, sem = SemsWith(r, w)
    PROVE  LockArrays(wr_old_ops, r, w)
  <1> DEFINE S == 0 .. 3
             sr == wr_old_ops.start_read
             er == wr_old_ops.stop_read
             sw == wr_old_ops.start_write
             ew == wr_old_ops.stop_write
  <1>1. /\ sem \in [S -> Int]
        /\ sem[0] = w /\ sem[1] = r /\ sem[2] = 0 /\ sem[3] = 0
    BY DEF SemsWith
  <1>2. /\ sr[1] = Sembuf(3, 1) /\ sr[2] = Sembuf(0, 0) /\ sr[3] = Sembuf(2, 0)
        /\ sr[4] = Sembuf(1, 1) /\ sr[5] = Sembuf(3, -1)
        /\ er[1] = Sembuf(1, -1)
        /\ sw[1] = Sembuf(2, 1) /\ sw[2] = Sembuf(1, 0) /\ sw[3] = Sembuf(0, 0)
        /\ sw[4] = Sembuf(0, 1) /\ sw[5] = Sembuf(2, -1)
        /\ ew[1] = Sembuf(0, -1)
    BY DEF wr_old_ops, P, V
  <1>3. /\ IsArray(sr, 5, S) /\ IsArray(er, 1, S)
        /\ IsArray(sw, 5, S) /\ IsArray(ew, 1, S)
    BY DEF IsArray, wr_old_ops, P, V, Operations, Sembuf
  <1>4. /\ Len(sr) = 5 /\ Len(er) = 1 /\ Len(sw) = 5 /\ Len(ew) = 1
    BY DEF wr_old_ops
  <1> HIDE DEF sr, er, sw, ew
  <1>5. /\ SemsWith(r + 1, w) \in [S -> Int] /\ SemsWith(r - 1, w) \in [S -> Int]
        /\ SemsWith(r, w + 1) \in [S -> Int] /\ SemsWith(r, w - 1) \in [S -> Int]
    BY DEF SemsWith
  <1>6. /\ \A s \in S : SemsWith(r + 1, w)[s] = sem[s] + Total(sr, 5, s)
        /\ \A s \in S : SemsWith(r - 1, w)[s] = sem[s] + Total(er, 1, s)
    BY <1>1, <1>2 DEF SemsWith, Total, Added, Sembuf
  <1>7. /\ \A s \in S : SemsWith(r, w + 1)[s] = sem[s] + Total(sw, 5, s)
        /\ \A s \in S : SemsWith(r, w - 1)[s] = sem[s] + Total(ew, 1, s)
    BY <1>1, <1>2 DEF SemsWith, Total, Added, Sembuf
  <1> HIDE DEF S
  <1>8. /\ Values(sem, sr)[5] = SemsWith(r + 1, w)
        /\ CanSemop(sr) =>
              ((\A m \in 1 .. 2 - 1 : sr[m].num # sr[2].num) => Ready(sem, sr[2]))
    BY <1>1, <1>3, <1>5, <1>6, ArrayNet
  <1>9. Values(sem, er)[1] = SemsWith(r - 1, w)
    BY <1>1, <1>3, <1>5, <1>6, ArrayNet
  <1>10. /\ Values(sem, sw)[5] = SemsWith(r, w + 1)
         /\ CanSemop(sw) => \A n \in 1 .. 5 :
               (\A m \in 1 .. n - 1 : sw[m].num # sw[n].num) => Ready(sem, sw[n])
    <2> DEFINE v == SemsWith(r, w + 1)
    <2>1. sem \in [S -> Int] /\ IsArray(sw, 5, S) /\ v \in [S -> Int]
          /\ \A s \in S : v[s] = sem[s] + Total(sw, 5, s)
      BY <1>1, <1>3, <1>5, <1>7
    <2> HIDE DEF v
    <2>2. Values(sem, sw)[5] = v
      BY <2>1, ArrayNet
    <2>3. CanSemop(sw) => \A n \in 1 .. 5 :
               (\A m \in 1 .. n - 1 : sw[m].num # sw[n].num) => Ready(sem, sw[n])
      BY <2>1, ArrayNet
    <2> QED
      BY <2>2, <2>3 DEF v
  <1>11. Values(sem, ew)[1] = SemsWith(r, w - 1)
    BY <1>1, <1>3, <1>5, <1>7, ArrayNet
  <1>12. CanSemop(sr) => w = 0
    BY <1>1, <1>2, <1>8 DEF Ready, Sembuf
  <1>13. CanSemop(sw) => r = 0 /\ w = 0
    <2>1. CanSemop(sw) =>
                  /\ (\A m \in 1 .. 2 - 1 : sw[m].num # sw[2].num) => Ready(sem, sw[2])
                  /\ (\A m \in 1 .. 3 - 1 : sw[m].num # sw[3].num) => Ready(sem, sw[3])
      BY <1>10
    <2> QED
      BY <1>1, <1>2, <2>1 DEF Ready, Sembuf
  <1> QED
    BY <1>4, <1>8, <1>9, <1>10, <1>11, <1>12, <1>13 DEF LockArrays, sr, er, sw, ew

\* tmp_pc.c.
LEMMA TmpPcArrays ==
    ASSUME program = "tmp_pc", NEW r \in Nat, NEW w \in {0, 1}, sem = SemsWith(r, w)
    PROVE  LockArrays(tmp_pc_ops, r, w)
  <1> DEFINE S == 0 .. 4
             sr == tmp_pc_ops.start_read
             er == tmp_pc_ops.stop_read
             sw == tmp_pc_ops.start_write
             ew == tmp_pc_ops.stop_write
  <1>1. /\ sem \in [S -> Int]
        /\ sem[0] = r /\ sem[1] = 0 /\ sem[2] = 0 /\ sem[3] = w /\ sem[4] = 1 - w
    BY DEF SemsWith
  <1>2. /\ sr[1] = Sembuf(2, 1) /\ sr[2] = Sembuf(3, 0) /\ sr[3] = Sembuf(1, 0)
        /\ sr[4] = Sembuf(0, 1) /\ sr[5] = Sembuf(2, -1)
        /\ er[1] = Sembuf(0, -1)
        /\ sw[1] = Sembuf(1, 1) /\ sw[2] = Sembuf(0, 0) /\ sw[3] = Sembuf(4, -1)
        /\ sw[4] = Sembuf(3, 0) /\ sw[5] = Sembuf(3, 1) /\ sw[6] = Sembuf(1, -1)
        /\ ew[1] = Sembuf(3, -1) /\ ew[2] = Sembuf(4, 1)
    BY DEF tmp_pc_ops, P, V
  <1>3. /\ IsArray(sr, 5, S) /\ IsArray(er, 1, S)
        /\ IsArray(sw, 6, S) /\ IsArray(ew, 2, S)
    BY DEF IsArray, tmp_pc_ops, P, V, Operations, Sembuf
  <1>4. /\ Len(sr) = 5 /\ Len(er) = 1 /\ Len(sw) = 6 /\ Len(ew) = 2
    BY DEF tmp_pc_ops
  <1> HIDE DEF sr, er, sw, ew
  <1>5. /\ SemsWith(r + 1, w) \in [S -> Int] /\ SemsWith(r - 1, w) \in [S -> Int]
        /\ SemsWith(r, w + 1) \in [S -> Int] /\ SemsWith(r, w - 1) \in [S -> Int]
    BY DEF SemsWith
  <1>6. /\ \A s \in S : SemsWith(r + 1, w)[s] = sem[s] + Total(sr, 5, s)
        /\ \A s \in S : SemsWith(r - 1, w)[s] = sem[s] + Total(er, 1, s)
    BY <1>1, <1>2 DEF SemsWith, Total, Added, Sembuf
  <1>7. /\ \A s \in S : SemsWith(r, w + 1)[s] = sem[s] + Total(sw, 6, s)
        /\ \A s \in S : SemsWith(r, w - 1)[s] = sem[s] + Total(ew, 2, s)
    BY <1>1, <1>2 DEF SemsWith, Total, Added, Sembuf
  <1> HIDE DEF S
  <1>8. /\ Values(sem, sr)[5] = SemsWith(r + 1, w)
        /\ CanSemop(sr) =>
              ((\A m \in 1 .. 2 - 1 : sr[m].num # sr[2].num) => Ready(sem, sr[2]))
    BY <1>1, <1>3, <1>5, <1>6, ArrayNet
  <1>9. Values(sem, er)[1] = SemsWith(r - 1, w)
    BY <1>1, <1>3, <1>5, <1>6, ArrayNet
  <1>10. /\ Values(sem, sw)[6] = SemsWith(r, w + 1)
         /\ CanSemop(sw) => \A n \in 1 .. 6 :
               (\A m \in 1 .. n - 1 : sw[m].num # sw[n].num) => Ready(sem, sw[n])
    <2> DEFINE v == SemsWith(r, w + 1)
    <2>1. sem \in [S -> Int] /\ IsArray(sw, 6, S) /\ v \in [S -> Int]
          /\ \A s \in S : v[s] = sem[s] + Total(sw, 6, s)
      BY <1>1, <1>3, <1>5, <1>7
    <2> HIDE DEF v
    <2>2. Values(sem, sw)[6] = v
      BY <2>1, ArrayNet
    <2>3. CanSemop(sw) => \A n \in 1 .. 6 :
               (\A m \in 1 .. n - 1 : sw[m].num # sw[n].num) => Ready(sem, sw[n])
      BY <2>1, ArrayNet
    <2> QED
      BY <2>2, <2>3 DEF v
  <1>11. Values(sem, ew)[2] = SemsWith(r, w - 1)
    BY <1>1, <1>3, <1>5, <1>7, ArrayNet
  <1>12. CanSemop(sr) => w = 0
    BY <1>1, <1>2, <1>8 DEF Ready, Sembuf
  <1>13. CanSemop(sw) => r = 0 /\ w = 0
    <2>1. CanSemop(sw) =>
                  /\ (\A m \in 1 .. 2 - 1 : sw[m].num # sw[2].num) => Ready(sem, sw[2])
                  /\ (\A m \in 1 .. 3 - 1 : sw[m].num # sw[3].num) => Ready(sem, sw[3])
      BY <1>10
    <2> QED
      BY <1>1, <1>2, <2>1 DEF Ready, Sembuf
  <1> QED
    BY <1>4, <1>8, <1>9, <1>10, <1>11, <1>12, <1>13 DEF LockArrays, sr, er, sw, ew

(***************************************************************************)
(* The parts of the programs.                                              *)
(***************************************************************************)
\* What the readers-writers programs have in common.
LEMMA LockParts ==
    ASSUME program \in LockPrograms
    PROVE  /\ prog.writer.loop = <<"sleep", "P", "load", "store", "stop_write">>
           /\ prog.reader.loop = <<"sleep", "P", "read", "stop_read">>
           /\ prog.writer.start = "start_write" /\ prog.reader.start = "start_read"
           /\ (prog.ops.undo <=> program = "tmp_wr")
           /\ prog.sems = SemsWith(0, 0)
           /\ \A r, w : DOMAIN SemsWith(r, w) = Sems
           /\ 0 .. 3 \subseteq Sems /\ Sems \subseteq 0 .. 4
           /\ prog.main.first = IF program = "tmp_wr" THEN -1 ELSE 0
  <1>1. CASE program = "tmp"
    <2>1. prog = tmp
      BY <1>1 DEF prog, AllPrograms
    <2> QED
      BY <1>1, <2>1 DEF Sems, tmp, tmp_ops, tmp_writer, tmp_reader, tmp_sems, tmp_main, SemsWith, a
  <1>2. CASE program = "tmp_wr"
    <2>1. prog = tmp_wr
      BY <1>2 DEF prog, AllPrograms
    <2> QED
      BY <1>2, <2>1 DEF Sems, tmp_wr, tmp_wr_ops, tmp_wr_writer, tmp_wr_reader, tmp_wr_main, SemsWith, a
  <1>3. CASE program = "wr_old"
    <2>1. prog = wr_old
      BY <1>3 DEF prog, AllPrograms
    <2> QED
      BY <1>3, <2>1 DEF Sems, wr_old, wr_old_ops, wr_old_writer, wr_old_reader, wr_old_main, SemsWith, a
  <1>4. CASE program = "tmp_pc"
    <2>1. prog = tmp_pc
      BY <1>4 DEF prog, AllPrograms
    <2> QED
      BY <1>4, <2>1 DEF Sems, tmp_pc, tmp_pc_ops, tmp_pc_writer, tmp_pc_reader, tmp_pc_sems, tmp_pc_main, SemsWith, a
  <1> QED
    BY <1>1, <1>2, <1>3, <1>4 DEF LockPrograms

\* Their arrays.
LEMMA LockNet ==
    ASSUME program \in LockPrograms, NEW r \in Nat, NEW w \in {0, 1}, sem = SemsWith(r, w)
    PROVE  LockArrays(prog.ops, r, w)
  <1>1. CASE program = "tmp"
    <2>1. prog.ops = tmp_ops
      BY <1>1 DEF prog, AllPrograms, tmp
    <2> QED
      BY <1>1, <2>1, TmpArrays
  <1>2. CASE program = "tmp_wr"
    <2>1. prog.ops = tmp_wr_ops
      BY <1>2 DEF prog, AllPrograms, tmp_wr
    <2> QED
      BY <1>2, <2>1, TmpWrArrays
  <1>3. CASE program = "wr_old"
    <2>1. prog.ops = wr_old_ops
      BY <1>3 DEF prog, AllPrograms, wr_old
    <2> QED
      BY <1>3, <2>1, WrOldArrays
  <1>4. CASE program = "tmp_pc"
    <2>1. prog.ops = tmp_pc_ops
      BY <1>4 DEF prog, AllPrograms, tmp_pc
    <2> QED
      BY <1>4, <2>1, TmpPcArrays
  <1> QED
    BY <1>1, <1>2, <1>3, <1>4 DEF LockPrograms

\* What les_pc.c has.
LEMMA LesParts ==
    ASSUME program = "les_pc"
    PROVE  /\ prog.writer.loop = <<"sleep", "P", "put", "advance", "stop_produce">>
           /\ prog.reader.loop = <<"sleep", "P", "take", "stop_consume">>
           /\ prog.writer.start = "start_produce" /\ prog.reader.start = "start_consume"
           /\ prog.ops = les_pc_ops /\ ~prog.ops.undo
           /\ prog.sems = [s \in 0 .. 2 |-> IF s = 0 THEN 1 ELSE IF s = 1 THEN 0 ELSE NLetters]
           /\ Sems = 0 .. 2 /\ prog.main.first = 0
  <1>1. prog = les_pc
    BY DEF prog, AllPrograms
  <1>2. prog.sems = [s \in 0 .. 2 |-> IF s = 0 THEN 1 ELSE IF s = 1 THEN 0 ELSE NLetters]
    <2>1. prog.sems = [s \in 0 .. 2 |-> <<1, 0, NLetters>>[s + 1]]
      BY <1>1 DEF les_pc, les_pc_main
    <2>2. \A s \in 0 .. 2 : <<1, 0, NLetters>>[s + 1] = IF s = 0 THEN 1 ELSE IF s = 1 THEN 0 ELSE NLetters
      OBVIOUS
    <2> QED
      BY <2>1, <2>2
  <1> QED
    BY <1>1, <1>2 DEF Sems, les_pc, les_pc_ops, les_pc_producer, les_pc_consumer, les_pc_main, a

\* The place after the one p is at.
NextPlace(p) ==
    CASE pc[p] = "sleep" -> "P"
      [] pc[p] = "P" -> IF program = "les_pc" THEN IF p \in Writers THEN "put" ELSE "take"
                        ELSE IF p \in Writers THEN "load" ELSE "read"
      [] pc[p] = "load" -> "store"
      [] pc[p] = "store" -> "stop_write"
      [] pc[p] = "read" -> "stop_read"
      [] pc[p] = "put" -> "advance"
      [] pc[p] = "advance" -> "stop_produce"
      [] pc[p] = "take" -> "stop_consume"
      [] OTHER -> "loop"

LEMMA AdvancesTo ==
    ASSUME program \in Programs, NEW p \in Children, pc[p] \in ToSet(loop(p)), Advances(p)
    PROVE  Moves(p, NextPlace(p))
  <1> DEFINE at == CHOOSE n \in DOMAIN loop(p) : loop(p)[n] = pc[p]
  <1>1. at \in DOMAIN loop(p) /\ loop(p)[at] = pc[p]
    <2>1. \E n \in DOMAIN loop(p) : loop(p)[n] = pc[p]
      BY DEF ToSet
    <2> QED
      BY <2>1
  <1>2. Moves(p, IF at = Len(loop(p)) THEN "loop" ELSE loop(p)[at + 1])
    BY DEF Advances
  <1> HIDE DEF at
  <1>3. (IF at = Len(loop(p)) THEN "loop" ELSE loop(p)[at + 1]) = NextPlace(p)
    <2>1. CASE program \in LockPrograms /\ p \in Writers
      <3>1. loop(p) = <<"sleep", "P", "load", "store", "stop_write">> /\ program # "les_pc"
        BY <2>1, LockParts DEF loop, LockPrograms
      <3> QED
        BY <1>1, <2>1, <3>1 DEF NextPlace
    <2>2. CASE program \in LockPrograms /\ p \notin Writers
      <3>1. loop(p) = <<"sleep", "P", "read", "stop_read">> /\ program # "les_pc"
        BY <2>2, LockParts DEF loop, LockPrograms
      <3> QED
        BY <1>1, <2>2, <3>1 DEF NextPlace
    <2>3. CASE program = "les_pc" /\ p \in Writers
      <3>1. loop(p) = <<"sleep", "P", "put", "advance", "stop_produce">>
        BY <2>3, LesParts DEF loop
      <3> QED
        BY <1>1, <2>3, <3>1 DEF NextPlace
    <2>4. CASE program = "les_pc" /\ p \notin Writers
      <3>1. loop(p) = <<"sleep", "P", "take", "stop_consume">>
        BY <2>4, LesParts DEF loop
      <3> QED
        BY <1>1, <2>4, <3>1 DEF NextPlace
    <2> QED
      BY <2>1, <2>2, <2>3, <2>4, DraftsAssumption DEF LockPrograms
  <1> QED
    BY <1>2, <1>3

\* The places of the loops.
LEMMA LoopPlaces ==
    ASSUME program \in Programs, NEW p \in Children
    PROVE  /\ program \in LockPrograms \/ program = "les_pc"
           /\ program \in LockPrograms => program # "les_pc" /\ ToSet(loop(p)) =
                IF p \in Writers THEN {"sleep", "P", "load", "store", "stop_write"}
                ELSE {"sleep", "P", "read", "stop_read"}
           /\ program = "les_pc" => ToSet(loop(p)) =
                IF p \in Writers THEN {"sleep", "P", "put", "advance", "stop_produce"}
                ELSE {"sleep", "P", "take", "stop_consume"}
  <1>1. program \in LockPrograms \/ program = "les_pc"
    BY DraftsAssumption DEF LockPrograms
  <1>2. \A x1, x2, x3, x4, x5 : ToSet(<<x1, x2, x3, x4, x5>>) = {x1, x2, x3, x4, x5}
    BY DEF ToSet
  <1>3. \A x1, x2, x3, x4 : ToSet(<<x1, x2, x3, x4>>) = {x1, x2, x3, x4}
    BY DEF ToSet
  <1>4. program \in LockPrograms => program # "les_pc" /\ ToSet(loop(p)) =
                IF p \in Writers THEN {"sleep", "P", "load", "store", "stop_write"}
                ELSE {"sleep", "P", "read", "stop_read"}
    <2>1. program \in LockPrograms => program # "les_pc"
      BY DEF LockPrograms
    <2>2. program \in LockPrograms =>
            loop(p) = IF p \in Writers THEN <<"sleep", "P", "load", "store", "stop_write">>
                      ELSE <<"sleep", "P", "read", "stop_read">>
      BY LockParts DEF loop
    <2> QED
      BY <1>2, <1>3, <2>1, <2>2
  <1>5. program = "les_pc" => ToSet(loop(p)) =
                IF p \in Writers THEN {"sleep", "P", "put", "advance", "stop_produce"}
                ELSE {"sleep", "P", "take", "stop_consume"}
    <2>1. program = "les_pc" =>
            loop(p) = IF p \in Writers THEN <<"sleep", "P", "put", "advance", "stop_produce">>
                      ELSE <<"sleep", "P", "take", "stop_consume">>
      BY LesParts DEF loop
    <2> QED
      BY <1>2, <1>3, <2>1
  <1> QED
    BY <1>1, <1>4, <1>5

\* The places between the semops, where nobody is idle.
Inside == Reading \cup Writing \cup Producing \cup Consuming

\* The place after one of the loop is one of the loop, or its test.
LEMMA NextIsOwn ==
    ASSUME program \in Programs, NEW p \in Children, pc[p] \in ToSet(loop(p))
    PROVE  NextPlace(p) \in ToSet(loop(p)) \cup {"loop"}
  BY LoopPlaces DEF NextPlace

(***************************************************************************)
(* The kinds of steps.                                                     *)
(***************************************************************************)
\* Nobody moves.
Still == pc' = pc /\ UNCHANGED <<sems, shm, died>> /\ (removed => removed')

\* A child moves where it holds nothing.
Shifts(p) ==
    /\ pc[p] \notin Inside \cup {"gone"}
    /\ \E to \in {"loop", "sleep", "P", "eintr"} : Goto(p, to)
    /\ removed' = removed
    /\ UNCHANGED <<sems, shm, died>>

\* A child ends, by itself or killed.
ComesToNothing(p) ==
    /\ pc[p] # "gone" /\ Goto(p, "gone")
    /\ removed' = removed
    /\ SemUndo(p)
    /\ \/ died' = died /\ (pc[p] \in Inside => removed)
       \/ Dies(p)

Works(p) ==
    /\ Alive(p)
    /\ Read(p) \/ Load(p) \/ Store(p) \/ Put(p) \/ AdvanceProducer(p) \/ Take(p)
    /\ died' = died /\ removed' = removed

Semops(p) ==
    /\ Alive(p)
    /\ Start(p) \/ Stop(p)
    /\ died' = died /\ removed' = removed

\* Every step is one of these.
LEMMA KindsOfSteps ==
    ASSUME TypeOK, PlacesInv, [Next]_vars
    PROVE  /\ program' = program
           /\ \/ Still
              \/ \E p \in Children : Shifts(p) \/ ComesToNothing(p) \/ Works(p) \/ Semops(p)
  <1> USE DEF Goto
  <1>1. ASSUME NEW p \in Children, ChildStep(p)
        PROVE  /\ program' = program
               /\ Still \/ Shifts(p) \/ ComesToNothing(p) \/ Works(p) \/ Semops(p)
    <2>0. program' = program /\ died' = died /\ Alive(p) /\ pc[p] # "gone" /\ program \in Programs
      BY <1>1 DEF ChildStep, Running, Alive, TypeOK
    <2>1. loop(p)[1] = "sleep"
      BY <2>0, LoopPlaces, LockParts, LesParts DEF loop
    <2>2. CASE LoopTest(p)
      <3>1. pc[p] \notin Inside
        BY <2>2 DEF LoopTest, Inside, Reading, Writing, Producing, Consuming
      <3>2. CASE f_sigint[p] = 1 /\ Moves(p, loop(p)[1]) /\ UNCHANGED <<sems, shm>>
        BY <2>0, <2>1, <3>1, <3>2 DEF Moves, Shifts
      <3>3. CASE f_sigint[p] = 0 /\ Quits(p) /\ SemUndo(p)
        BY <2>0, <3>1, <3>3 DEF Quits, Ends, ComesToNothing
      <3> QED
        BY <2>0, <2>2, <3>2, <3>3 DEF LoopTest
    <2>3. CASE Sleep(p)
      <3>1. pc[p] \in ToSet(loop(p))
        BY <2>0, <2>3, LoopPlaces DEF Sleep
      <3>2. Moves(p, "P")
        BY <2>0, <2>3, <3>1, AdvancesTo DEF Sleep, NextPlace
      <3>3. pc[p] \notin Inside
        BY <2>3 DEF Sleep, Inside, Reading, Writing, Producing, Consuming
      <3> QED
        BY <2>0, <2>3, <3>2, <3>3 DEF Sleep, Moves, Shifts
    <2>4. CASE Start(p) \/ Stop(p)
      BY <2>0, <2>4 DEF Start, Stop, Advances, Moves, Semops
    <2>5. CASE Interrupted(p)
      <3>1. pc[p] \notin Inside
        BY <2>5 DEF Interrupted, Waiting, Inside, Reading, Writing, Producing, Consuming
      <3> QED
        BY <2>0, <2>5, <3>1 DEF Interrupted, QuitsInterrupted, Ends, ComesToNothing
    <2>6. CASE SemopFails(p)
      <3>1. pc[p] \in Inside => removed
        BY <2>6 DEF SemopFails, Inside, Reading, Writing, Producing, Consuming
      <3> QED
        BY <2>0, <2>6, <3>1 DEF SemopFails, Quits, Ends, ComesToNothing
    <2>7. CASE Read(p) \/ Load(p) \/ Store(p) \/ Put(p) \/ AdvanceProducer(p) \/ Take(p)
      <3>1. removed' = removed
        BY <2>7 DEF Read, Load, Store, Put, AdvanceProducer, Take, Advances, Moves
      <3> QED
        BY <2>0, <2>7, <3>1 DEF Works
    <2>8. CASE Handles(p)
      BY <2>0, <2>8 DEF Handles, ChildHandler, Handler, Still
    <2>9. CASE Segfaults(p)
      <3>1. pc[p] = "take" /\ Quits(p) /\ SemUndo(p)
        BY <2>9 DEF Segfaults
      <3>2. died[p] = "none" /\ pc[p] \notin Reading \cup Writing
        BY <2>0, <3>1 DEF PlacesInv, Reading, Writing
      <3>3. died' = [died EXCEPT ![p] = "none"]
        BY <2>0, <3>2 DEF TypeOK
      <3>4. Dies(p)
        BY <3>1, <3>2, <3>3 DEF Dies
      <3> QED
        BY <2>0, <3>1, <3>4 DEF Quits, Ends, ComesToNothing
    <2> QED
      BY <1>1, <2>2, <2>3, <2>4, <2>5, <2>6, <2>7, <2>8, <2>9 DEF ChildStep
  <1>2. CASE MainGoesOn
    <2>0. program' = program /\ UNCHANGED <<sems, shm, died>>
      BY <1>2 DEF MainGoesOn
    <2>1. ASSUME NEW p \in Children, ForkNext(p) PROVE Shifts(p)
      BY <2>0, <2>1 DEF ForkNext, Fork, Unborn, Shifts, Inside, Reading, Writing, Producing, Consuming
    <2>2. ASSUME NEW p \in Children, WaitNext(p) PROVE Still
      BY <2>0, <2>2 DEF WaitNext, Wait, Still
    <2>3. CASE Cleanup \/ MainHandler
      BY <2>0, <2>3 DEF Cleanup, MainHandler, Handler, Still
    <2> QED
      BY <1>2, <2>0, <2>1, <2>2, <2>3 DEF MainGoesOn
  <1>3. CASE Environment
    <2>0. program' = program
      BY <1>3 DEF Environment
    <2>1. CASE (ForkFails \/ Sigint \/ MainKilledBySigint) /\ UNCHANGED <<sems, shm, died>>
      BY <2>0, <2>1 DEF ForkFails, Sigint, MainKilledBySigint, Still
    <2>2. ASSUME NEW p \in Children, Killed(p) \/ KilledBySigint(p) PROVE ComesToNothing(p)
      BY <2>2 DEF Killed, KilledBySigint, Sigkill, Running, Alive, Quits, Ends, Dies, ComesToNothing
    <2>3. ASSUME NEW p \in Children, Sigstop(p, Waiting(p)), UNCHANGED <<sems, shm, died>>
          PROVE  Still \/ Shifts(p)
      <3>1. CASE Waiting(p)
        BY <2>3, <3>1 DEF Sigstop, Waiting, Shifts, Inside, Reading, Writing, Producing, Consuming
      <3>2. CASE ~Waiting(p)
        BY <2>3, <3>2 DEF Sigstop, Still
      <3> QED
        BY <3>1, <3>2
    <2>4. ASSUME NEW p \in Children, Sigcont(p), UNCHANGED <<sems, shm, died>> PROVE Still
      BY <2>4 DEF Sigcont, Still
    <2>5. \/ (ForkFails \/ Sigint \/ MainKilledBySigint) /\ UNCHANGED <<sems, shm, died>>
          \/ \E p \in Children :
                \/ Killed(p) \/ KilledBySigint(p)
                \/ (Sigstop(p, Waiting(p)) \/ Sigcont(p)) /\ UNCHANGED <<sems, shm, died>>
      BY <1>3 DEF Environment
    <2>6. ASSUME NEW p \in Children,
                 \/ Killed(p) \/ KilledBySigint(p)
                 \/ (Sigstop(p, Waiting(p)) \/ Sigcont(p)) /\ UNCHANGED <<sems, shm, died>>
          PROVE  Still \/ Shifts(p) \/ ComesToNothing(p)
      <3>1. CASE Killed(p) \/ KilledBySigint(p)
        BY <3>1, <2>2
      <3>2. CASE Sigstop(p, Waiting(p)) /\ UNCHANGED <<sems, shm, died>>
        BY <3>2, <2>3
      <3>3. CASE Sigcont(p) /\ UNCHANGED <<sems, shm, died>>
        BY <3>3, <2>4
      <3> QED
        BY <2>6, <3>1, <3>2, <3>3
    <2>7. CASE \E p \in Children :
                 \/ Killed(p) \/ KilledBySigint(p)
                 \/ (Sigstop(p, Waiting(p)) \/ Sigcont(p)) /\ UNCHANGED <<sems, shm, died>>
      <3>1. PICK p \in Children :
                 \/ Killed(p) \/ KilledBySigint(p)
                 \/ (Sigstop(p, Waiting(p)) \/ Sigcont(p)) /\ UNCHANGED <<sems, shm, died>>
        BY <2>7
      <3>2. Still \/ Shifts(p) \/ ComesToNothing(p)
        BY <3>1, <2>6
      <3> HIDE DEF Goto
      <3> QED
        BY <2>0, <3>2
    <2> HIDE DEF Goto
    <2> QED
      BY <2>0, <2>1, <2>5, <2>7
  <1>4. CASE UNCHANGED vars
    BY <1>4 DEF vars, group, sems, shm, les, Still
  <1> QED
    BY <1>1, <1>2, <1>3, <1>4 DEF Next

\* Who works or makes a semop is in its loop, and goes to its next place.
LEMMA WorkMoves ==
    ASSUME TypeOK, PlacesInv, NEW p \in Children, Works(p) \/ Semops(p)
    PROVE  /\ pc[p] \in ToSet(loop(p)) /\ Alive(p)
           /\ Goto(p, NextPlace(p))
           /\ died' = died /\ removed' = removed
  <1>1. Alive(p) /\ Advances(p) /\ died' = died /\ removed' = removed
    BY DEF Works, Semops, Read, Load, Store, Put, AdvanceProducer, Take, Start, Stop
  <1>2. pc[p] \notin {"unborn", "loop", "eintr", "gone"}
    BY DEF Works, Semops, Read, Load, Store, Put, AdvanceProducer, Take, Start, Stop, Stopping
  <1>3. pc[p] \in ToSet(loop(p)) /\ program \in Programs
    BY <1>2 DEF PlacesInv, TypeOK
  <1> QED
    BY <1>1, <1>3, AdvancesTo DEF Moves

\* Everybody stays in the loop of its own program.
LEMMA PlacesStep == ASSUME TypeOK, PlacesInv, [Next]_vars PROVE PlacesInv'
  <1> DEFINE own(p) == ToSet(loop(p)) \cup {"unborn", "loop", "eintr", "gone"}
             undo == prog.ops.undo
  <1>0. program' = program /\ undo' = undo /\ \A p \in Children : own(p)' = own(p)
    BY KindsOfSteps DEF loop, prog
  <1>1. \A p \in Children : pc[p] \in own(p) /\ (died[p] # "none" => pc[p] = "gone" /\ ~undo)
    BY DEF PlacesInv
  <1>2. SUFFICES \A q \in Children : pc'[q] \in own(q) /\ (died'[q] # "none" => pc'[q] = "gone" /\ ~undo)
    BY <1>0 DEF PlacesInv
  <1>3. \A p \in Children : {"loop", "sleep", "P", "eintr", "gone"} \subseteq own(p)
    <2> TAKE p \in Children
    <2>1. program \in Programs
      BY DEF TypeOK
    <2> QED
      BY <2>1, LoopPlaces
  <1>4. pc \in [Children -> Places] /\ died \in [Children -> Reading \cup Writing \cup {"none"}]
    BY DEF TypeOK, GroupTypeOK
  <1>5. ASSUME NEW p \in Children, NEW to \in own(p), Goto(p, to), pc[p] # "gone",
               \A q \in Children \ {p} : died'[q] = died[q],
               died'[p] # "none" => died'[p] = died[p] \/ (to = "gone" /\ ~undo)
        PROVE  \A q \in Children : pc'[q] \in own(q) /\ (died'[q] # "none" => pc'[q] = "gone" /\ ~undo)
    <2> HIDE DEF own, undo
    <2>1. \A q \in Children : pc'[q] = IF q = p THEN to ELSE pc[q]
      BY <1>4, <1>5 DEF Goto
    <2> QED
      BY <1>1, <1>5, <2>1
  <1>6. CASE Still
    BY <1>1, <1>6 DEF Still
  <1>7. ASSUME NEW p \in Children, Shifts(p)
        PROVE  \A q \in Children : pc'[q] \in own(q) /\ (died'[q] # "none" => pc'[q] = "gone" /\ ~undo)
    <2>1. PICK to \in {"loop", "sleep", "P", "eintr"} : Goto(p, to)
      BY <1>7 DEF Shifts
    <2>2. to \in own(p) /\ pc[p] # "gone" /\ died' = died
      BY <1>3, <1>7 DEF Shifts
    <2> QED
      BY <1>5, <2>1, <2>2
  <1>8. ASSUME NEW p \in Children, ComesToNothing(p)
        PROVE  \A q \in Children : pc'[q] \in own(q) /\ (died'[q] # "none" => pc'[q] = "gone" /\ ~undo)
    <2>1. Goto(p, "gone") /\ pc[p] # "gone" /\ "gone" \in own(p)
      BY <1>3, <1>8 DEF ComesToNothing
    <2>2. \/ died' = died
          \/ died' = [died EXCEPT ![p] = IF ~undo /\ pc[p] \in Reading \cup Writing THEN pc[p] ELSE "none"]
      BY <1>8 DEF ComesToNothing, Dies
    <2>3. /\ \A q \in Children \ {p} : died'[q] = died[q]
          /\ died'[p] # "none" => died'[p] = died[p] \/ ~undo
      BY <1>4, <2>2
    <2> QED
      BY <1>5, <2>1, <2>3
  <1>9. ASSUME NEW p \in Children, Works(p) \/ Semops(p)
        PROVE  \A q \in Children : pc'[q] \in own(q) /\ (died'[q] # "none" => pc'[q] = "gone" /\ ~undo)
    <2>1. /\ pc[p] \in ToSet(loop(p)) /\ Goto(p, NextPlace(p)) /\ died' = died /\ pc[p] # "gone"
      BY <1>9, WorkMoves DEF Alive
    <2>2. NextPlace(p) \in own(p)
      <3>1. program \in Programs
        BY DEF TypeOK
      <3> QED
        BY <2>1, <3>1, NextIsOwn
    <2> QED
      BY <1>5, <2>1, <2>2
  <1> HIDE DEF own, undo
  <1> QED
    BY <1>6, <1>7, <1>8, <1>9, KindsOfSteps

(***************************************************************************)
(* The readers and writers.                                                *)
(***************************************************************************)
Lockers == Reading \cup Writing
LockStep == LockInv' /\ [Lock!Next]_(Lock!lvars)

\* Who is inside is of the kind whose loop has the place, and alive.
LEMMA Roles ==
    ASSUME TypeOK, PlacesInv, program \in LockPrograms, NEW p \in Children
    PROVE  /\ pc[p] \in Writing => p \in Writers /\ died[p] = "none" /\ pc[p] \notin Reading
           /\ pc[p] \in Reading => p \in Readers /\ p \notin Writers /\ died[p] = "none" /\ pc[p] \notin Writing
           /\ pc[p] \in Stopping => pc[p] \in {"stop_read", "stop_write"}
           /\ pc[p] \notin {"put", "advance", "stop_produce", "take", "stop_consume"}
  <1>1. pc[p] \in (IF p \in Writers THEN {"sleep", "P", "load", "store", "stop_write"}
                   ELSE {"sleep", "P", "read", "stop_read"}) \cup {"unborn", "loop", "eintr", "gone"}
    BY LoopPlaces DEF PlacesInv, TypeOK
  <1>2. died[p] # "none" => pc[p] = "gone"
    BY DEF PlacesInv
  <1>3. p \notin Writers => p \in Readers
    BY DEF Children, Writers, Readers
  <1> QED
    BY <1>1, <1>2, <1>3 DEF Reading, Writing, Stopping

\* The children inside can be counted.
LEMMA HoldingIsFinite == \A places : IsFiniteSet(Holding(places)) /\ Holding(places) \subseteq Children
  BY GroupAssumption, FS_Subset DEF Holding

\* At most one of them is a writer, and then no reader is.
LEMMA InsideCounts ==
    ASSUME LockInv, program \in LockPrograms
    PROVE  /\ Cardinality(Holding(Reading)) \in Nat
           /\ Cardinality(Holding(Writing)) \in {0, 1}
           /\ (Cardinality(Holding(Reading)) = 0 <=> Holding(Reading) = {})
           /\ (Cardinality(Holding(Writing)) = 0 <=> Holding(Writing) = {})
  <1>1. /\ Cardinality(Holding(Reading)) \in Nat
        /\ (Cardinality(Holding(Reading)) = 0 <=> Holding(Reading) = {})
        /\ (Cardinality(Holding(Writing)) = 0 <=> Holding(Writing) = {})
    BY HoldingIsFinite, FS_CardinalityType, FS_EmptySet
  <1>2. CASE Holding(Writing) = {}
    BY <1>1, <1>2
  <1>3. CASE Holding(Writing) # {}
    <2>1. PICK p : Holding(Writing) = {p}
      BY <1>3 DEF LockInv
    <2>2. Cardinality(Holding(Writing)) = 1
      BY <2>1, FS_Singleton
    <2> QED
      BY <1>1, <2>2
  <1> QED
    BY <1>2, <1>3

\* The invariant after a step, in terms of who is inside then.
LEMMA LockInvNext ==
    ASSUME program' = program,
           \A p \in Holding(Writing)' : Holding(Writing)' = {p} /\ Holding(Reading)' = {},
           NEW r, r = Cardinality(Holding(Reading)'), NEW w, w = Cardinality(Holding(Writing)'),
           ~removed' => sem' = SemsWith(r, w),
           \A p \in Writers : pc'[p] = "store" => reg'[p] = buf',
           buf' \in prog.main.first .. z
    PROVE  LockInv'
  <1>1. prog' = prog
    BY DEF prog
  <1>2. SemsWith(Cardinality(Holding(Reading)), Cardinality(Holding(Writing)))' = SemsWith(r, w)
    BY DEF SemsWith
  <1> QED
    BY <1>1, <1>2 DEF LockInv

\* A step that moves nobody in or out and leaves the semaphores and the letter
\* alone, in any program.
LEMMA Keeps ==
    ASSUME LockInv, program' = program,
           \A places \in SUBSET Lockers : Holding(places)' = Holding(places),
           buf' = buf, removed => removed', sem' = sem \/ removed',
           program \in LockPrograms =>
               \A q \in Writers : pc'[q] = "store" => pc[q] = "store" /\ reg'[q] = reg[q]
    PROVE  LockStep
  <1>1. /\ Reading \in SUBSET Lockers /\ Writing \in SUBSET Lockers
        /\ {"load", "store"} \in SUBSET Lockers /\ {"stop_write"} \in SUBSET Lockers
    BY DEF Lockers, Reading, Writing
  <1>2. /\ Holding(Reading)' = Holding(Reading) /\ Holding(Writing)' = Holding(Writing)
        /\ Holding({"load", "store"})' = Holding({"load", "store"})
        /\ Holding({"stop_write"})' = Holding({"stop_write"})
    BY <1>1
  <1>3. UNCHANGED Lock!lvars
    <2>1. prog' = prog
      BY DEF prog
    <2> QED
      BY <1>2, <2>1 DEF Lock!lvars
  <1>4. LockInv'
    <2>1. CASE program \in LockPrograms
      <3>1. /\ \A p \in Holding(Writing)' : Holding(Writing)' = {p} /\ Holding(Reading)' = {}
            /\ ~removed' => sem' = SemsWith(Cardinality(Holding(Reading)'), Cardinality(Holding(Writing)'))
            /\ \A p \in Writers : pc'[p] = "store" => reg'[p] = buf'
            /\ buf' \in prog.main.first .. z
        BY <1>2, <2>1 DEF LockInv
      <3> QED
        BY <3>1, LockInvNext
    <2>2. CASE program \notin LockPrograms
      BY <2>2 DEF LockInv
    <2> QED
      BY <2>1, <2>2
  <1> QED
    BY <1>3, <1>4 DEF LockStep

\* A child goes out: by itself, killed where the kernel undoes what it did, or
\* because the semaphores are gone.
LEMMA GoesOut ==
    ASSUME TypeOK, PlacesInv, LockInv, program \in LockPrograms, program' = program,
           NEW p \in Children, pc[p] \in Lockers, NEW to, to \notin Lockers, Goto(p, to), died' = died,
           UNCHANGED <<buf, reg, removed>>,
           NEW r, r = Cardinality(Holding(Reading)), NEW w, w = Cardinality(Holding(Writing)),
           ~removed => sem' = IF pc[p] \in Reading THEN SemsWith(r - 1, w) ELSE SemsWith(r, w - 1)
    PROVE  LockStep
  <1>0. /\ \A q \in Children : pc'[q] = IF q = p THEN to ELSE pc[q]
        /\ died[p] = "none" /\ "none" \notin Lockers
    BY Roles DEF TypeOK, GroupTypeOK, Goto, Lockers, Reading, Writing
  <1>1. \A places \in SUBSET Lockers : Holding(places)' = Holding(places) \ {p}
    BY <1>0 DEF Holding
  <1>2. /\ Reading \in SUBSET Lockers /\ Writing \in SUBSET Lockers
        /\ {"load", "store"} \in SUBSET Lockers /\ {"stop_write"} \in SUBSET Lockers
    BY DEF Lockers, Reading, Writing
  <1>3. /\ Holding(Reading)' = Holding(Reading) \ {p} /\ Holding(Writing)' = Holding(Writing) \ {p}
        /\ Holding({"load", "store"})' = Holding({"load", "store"}) \ {p}
        /\ Holding({"stop_write"})' = Holding({"stop_write"}) \ {p}
    BY <1>1, <1>2
  <1>4. prog' = prog /\ \A q \in Writers : pc'[q] = "store" => reg'[q] = buf'
    <2>1. prog' = prog
      BY DEF prog
    <2>2. \A q \in Writers : pc'[q] = "store" => reg'[q] = buf'
      BY <1>0 DEF LockInv, Lockers, Writing, Writers, Children
    <2> QED
      BY <2>1, <2>2
  <1>5. /\ buf' \in prog.main.first .. z
        /\ \A q \in Holding(Writing)' : Holding(Writing)' = {q} /\ Holding(Reading)' = {}
    BY <1>3 DEF LockInv
  <1>6. CASE pc[p] \in Reading
    <2>1. p \in Readers /\ p \in Holding(Reading) /\ pc[p] \notin Writing
      BY <1>6, Roles DEF Holding
    <2>2. Holding(Writing) = {}
      BY <2>1 DEF LockInv
    <2>3. Holding({"load", "store"}) = {} /\ Holding({"stop_write"}) = {}
      BY <2>2 DEF Holding, Writing
    <2>4. Lock!EndRead(p)
      BY <1>3, <1>4, <2>1, <2>3 DEF Lock!EndRead
    <2>5. Cardinality(Holding(Reading)') = r - 1 /\ Cardinality(Holding(Writing)') = w
      BY <1>3, <2>1, <2>2, HoldingIsFinite, FS_RemoveElement
    <2>6. LockInv'
      BY <1>4, <1>5, <1>6, <2>5, LockInvNext
    <2> QED
      BY <2>1, <2>4, <2>6 DEF LockStep, Lock!Next
  <1>7. CASE pc[p] \in Writing
    <2>1. p \in Writers /\ p \in Holding(Writing) /\ pc[p] \notin Reading
      BY <1>7, Roles DEF Holding
    <2>2. Holding(Writing) = {p} /\ Holding(Reading) = {}
      BY <2>1 DEF LockInv
    <2>3. Holding({"load", "store"}) \cup Holding({"stop_write"}) = {p}
      BY <2>2 DEF Holding, Writing
    <2>4. Lock!EndWrite(p)
      BY <1>3, <1>4, <2>2, <2>3 DEF Lock!EndWrite
    <2>5. Cardinality(Holding(Reading)') = r /\ Cardinality(Holding(Writing)') = w - 1
      BY <1>3, <2>1, <2>2, HoldingIsFinite, FS_RemoveElement
    <2>6. LockInv'
      BY <1>4, <1>5, <2>1, <2>5, LockInvNext
    <2> QED
      BY <2>1, <2>4, <2>6 DEF LockStep, Lock!Next
  <1> QED
    BY <1>6, <1>7 DEF Lockers

\* A child comes in by its first semop.
LEMMA ComesIn ==
    ASSUME TypeOK, PlacesInv, LockInv, program \in LockPrograms, program' = program,
           NEW p \in Children, Start(p), died' = died
    PROVE  LockStep
  <1> DEFINE r == Cardinality(Holding(Reading))
             w == Cardinality(Holding(Writing))
             to == NextPlace(p)
  <1>0. /\ pc[p] = "P" /\ CanSemop(start_of(p)) /\ ~removed /\ removed' = removed
        /\ sem' = Values(sem, start_of(p))[Len(start_of(p))]
        /\ UNCHANGED <<buf, reg>>
    BY DEF Start, Semop, CanSemop, shm, Advances, Moves
  <1>1. /\ to = IF p \in Writers THEN "load" ELSE "read"
        /\ \A q \in Children : pc'[q] = IF q = p THEN to ELSE pc[q]
    <2>1. program \in Programs /\ pc[p] \in ToSet(loop(p)) /\ program # "les_pc"
      BY <1>0, LoopPlaces DEF TypeOK
    <2>2. Goto(p, to)
      BY <2>1, AdvancesTo DEF Start, Moves
    <2>3. to = IF p \in Writers THEN "load" ELSE "read"
      BY <1>0, <2>1 DEF NextPlace
    <2> QED
      BY <2>2, <2>3 DEF Goto, TypeOK, GroupTypeOK
  <1>2. r \in Nat /\ w \in {0, 1} /\ (r = 0 <=> Holding(Reading) = {}) /\ (w = 0 <=> Holding(Writing) = {})
    BY InsideCounts
  <1>3. sem = SemsWith(r, w)
    BY <1>0 DEF LockInv
  <1> HIDE DEF r, w
  <1>4. LockArrays(prog.ops, r, w)
    BY <1>2, <1>3, LockNet
  <1>5. died[p] = "none" /\ p \notin Holding(Reading) /\ p \notin Holding(Writing) /\ died' = died
    <2>1. died[p] = "none"
      BY <1>0 DEF PlacesInv
    <2> QED
      BY <1>0, <2>1 DEF Holding, Reading, Writing
  <1>6. prog' = prog /\ buf' \in prog.main.first .. z
    BY <1>0 DEF prog, LockInv
  <1>7. \A q \in Writers : pc'[q] = "store" => reg'[q] = buf'
    <2>1. to # "store"
      BY <1>1
    <2> QED
      BY <1>0, <1>1, <2>1 DEF LockInv, Writers, Children
  <1>8. CASE p \in Writers
    <2>1. start_of(p) = prog.ops.start_write
      BY <1>8, LockParts DEF start_of
    <2>2. r = 0 /\ w = 0 /\ sem' = SemsWith(r, w + 1)
      BY <1>0, <1>4, <2>1 DEF LockArrays
    <2>3. Holding(Reading) = {} /\ Holding(Writing) = {}
      BY <1>2, <2>2
    <2>4. /\ Holding(Reading)' = {} /\ Holding(Writing)' = {p}
          /\ Holding({"load", "store"})' = {p} /\ Holding({"stop_write"})' = {}
          /\ Holding({"load", "store"}) = {} /\ Holding({"stop_write"}) = {}
      BY <1>1, <1>5, <1>8, <2>3 DEF Holding, Reading, Writing
    <2>5. Lock!BeginWrite(p)
      BY <1>0, <1>6, <2>3, <2>4 DEF Lock!BeginWrite
    <2>6. Cardinality(Holding(Reading)') = 0 /\ Cardinality(Holding(Writing)') = 1
      BY <2>4, FS_EmptySet, FS_Singleton
    <2>7. sem' = SemsWith(0, 1)
      <3>1. 0 + 1 = 1
        OBVIOUS
      <3> QED
        BY <2>2, <3>1
    <2>8. LockInv'
      BY <1>6, <1>7, <2>4, <2>6, <2>7, LockInvNext
    <2> QED
      BY <1>8, <2>5, <2>8 DEF LockStep, Lock!Next
  <1>9. CASE p \notin Writers
    <2>0. p \in Readers
      BY <1>9 DEF Readers, Writers, Children
    <2>1. start_of(p) = prog.ops.start_read
      BY <1>9, LockParts DEF start_of
    <2>2. w = 0 /\ sem' = SemsWith(r + 1, w)
      BY <1>0, <1>4, <2>1 DEF LockArrays
    <2>3. Holding(Writing) = {}
      BY <1>2, <2>2
    <2>4. /\ Holding(Reading)' = Holding(Reading) \cup {p} /\ Holding(Writing)' = {}
          /\ Holding({"load", "store"})' = {} /\ Holding({"stop_write"})' = {}
          /\ Holding({"load", "store"}) = {} /\ Holding({"stop_write"}) = {}
      BY <1>1, <1>5, <1>9, <2>3 DEF Holding, Reading, Writing
    <2>5. Lock!BeginRead(p)
      BY <1>0, <1>6, <2>4 DEF Lock!BeginRead
    <2>6. Cardinality(Holding(Reading)') = r + 1 /\ Cardinality(Holding(Writing)') = w
      BY <1>5, <2>2, <2>4, HoldingIsFinite, FS_AddElement, FS_EmptySet DEF r
    <2>7. LockInv'
      BY <1>6, <1>7, <2>2, <2>4, <2>6, LockInvNext
    <2> QED
      BY <2>0, <2>5, <2>7 DEF LockStep, Lock!Next
  <1> QED
    BY <1>8, <1>9

\* The letter after a letter, in a circle.
LEMMA NextLetter ==
    ASSUME program \in LockPrograms, NEW b \in prog.main.first .. z
    PROVE  LET value(c) == (c - prog.main.first) % NLetters
               next == prog.writer.next[b]
           IN  /\ next \in prog.main.first .. z /\ next \in Letters
               /\ value(next) = IF value(b) = NLetters - 1 THEN 0 ELSE value(b) + 1
  <1>0. NLetters \in Nat \ {0} /\ z = NLetters - 1 /\ a = 0 /\ Letters = -1 .. z
    BY DraftsAssumption DEF a, z, Letters
  <1>1. /\ \A n \in 0 .. NLetters - 1 : n % NLetters = n
        /\ NLetters % NLetters = 0
    BY <1>0
  <1>2. /\ b \in Letters
        /\ prog.writer.next[b] = IF program = "tmp_wr" THEN (IF b = z THEN -1 ELSE b) + 1
                                 ELSE IF b = z THEN 0 ELSE b + 1
        /\ prog.main.first = IF program = "tmp_wr" THEN -1 ELSE 0
    <2>0. prog.main.first = (IF program = "tmp_wr" THEN -1 ELSE 0) /\ b \in Letters
      BY <1>0, LockParts
    <2>1. CASE program = "tmp"
      BY <1>0, <2>0, <2>1 DEF prog, AllPrograms, tmp, tmp_writer
    <2>2. CASE program = "tmp_wr"
      BY <1>0, <2>0, <2>2 DEF prog, AllPrograms, tmp_wr, tmp_wr_writer
    <2>3. CASE program = "wr_old"
      BY <1>0, <2>0, <2>3 DEF prog, AllPrograms, wr_old, wr_old_writer
    <2>4. CASE program = "tmp_pc"
      <3>1. prog.writer.next[b] = (b + 1) % NLetters
        BY <2>0, <2>4 DEF prog, AllPrograms, tmp_pc, tmp_pc_writer
      <3>2. b \in 0 .. z
        BY <2>0, <2>4
      <3>3. b = z => b + 1 = NLetters
        BY <1>0
      <3>4. b # z => b + 1 \in 0 .. NLetters - 1
        BY <1>0, <3>2
      <3> QED
        BY <1>1, <2>0, <2>4, <3>1, <3>3, <3>4
    <2> QED
      BY <2>1, <2>2, <2>3, <2>4 DEF LockPrograms
  <1>3. CASE program = "tmp_wr"
    <2>1. b = z => (b + 1) % NLetters = 0
      BY <1>0, <1>1
    <2>2. b # z => b + 1 \in 0 .. NLetters - 1 /\ (b + 1) % NLetters = b + 1
      <3>1. b # z => b + 1 \in 0 .. NLetters - 1
        BY <1>0, <1>2, <1>3
      <3> QED
        BY <1>1, <3>1
    <2> DEFINE next == prog.writer.next[b]
    <2>3. next = (IF b = z THEN 0 ELSE b + 1) /\ next \in 0 .. z /\ b \in -1 .. z
      BY <1>0, <1>2, <1>3
    <2>4. b - prog.main.first = b + 1 /\ next - prog.main.first = next + 1
      BY <1>0, <1>2, <1>3, <2>3
    <2>5. next # z => (next + 1) % NLetters = next + 1
      <3>1. next # z => next + 1 \in 0 .. NLetters - 1
        BY <1>0, <2>3
      <3> QED
        BY <1>1, <3>1
    <2>6. next = z => (next + 1) % NLetters = 0
      <3>1. next = z => next + 1 = NLetters
        BY <1>0
      <3> QED
        BY <1>1, <3>1
    <2> HIDE DEF next
    <2>7. (next + 1) % NLetters = IF (b + 1) % NLetters = NLetters - 1 THEN 0 ELSE ((b + 1) % NLetters) + 1
      BY <1>0, <2>1, <2>2, <2>3, <2>5, <2>6
    <2>8. next \in prog.main.first .. z /\ next \in Letters
      BY <1>0, <1>2, <1>3, <2>3
    <2> QED
      BY <2>4, <2>7, <2>8 DEF next
  <1>4. CASE program # "tmp_wr"
    <2> DEFINE next == prog.writer.next[b]
    <2>1. next = (IF b = z THEN 0 ELSE b + 1) /\ next \in 0 .. z /\ b \in 0 .. z /\ prog.main.first = 0
      BY <1>0, <1>2, <1>4
    <2>2. b - 0 = b /\ next - 0 = next /\ b % NLetters = b /\ next % NLetters = next
      BY <1>0, <1>1, <2>1
    <2>3. next \in Letters
      BY <1>0, <2>1
    <2> HIDE DEF next
    <2>4. (next - 0) % NLetters = IF (b - 0) % NLetters = NLetters - 1 THEN 0 ELSE ((b - 0) % NLetters) + 1
      BY <1>0, <2>1, <2>2
    <2> QED
      BY <2>1, <2>3, <2>4 DEF next
  <1> QED
    BY <1>3, <1>4

\* A child inside goes on: only the store is a step of the lock.
LEMMA GoesOnInside ==
    ASSUME TypeOK, PlacesInv, LockInv, program \in LockPrograms, program' = program,
           NEW p \in Children, Works(p)
    PROVE  LockStep
  <1> DEFINE to == NextPlace(p)
  <1>0. /\ died' = died /\ removed' = removed /\ prog' = prog /\ sem' = sem
        /\ \A q \in Children : pc'[q] = IF q = p THEN to ELSE pc[q]
        /\ pc[p] \in ToSet(loop(p))
    <2>1. Goto(p, to) /\ died' = died /\ removed' = removed /\ pc[p] \in ToSet(loop(p))
      BY WorkMoves
    <2>2. sem' = sem
      BY DEF Works, Read, Load, Store, Put, AdvanceProducer, Take, sems
    <2> QED
      BY <2>1, <2>2 DEF prog, Goto, TypeOK, GroupTypeOK
  <1>1. Read(p) \/ Load(p) \/ Store(p)
    BY Roles DEF Works, Put, AdvanceProducer, Take
  <1>2. ASSUME pc[p] \in Reading, to \in Reading, UNCHANGED <<buf, reg>> PROVE LockStep
    <2>2. /\ p \in Readers /\ p \notin Writers /\ p \in Holding(Reading)
      BY <1>2, Roles DEF Holding
    <2>3. Holding(Writing) = {}
      BY <2>2 DEF LockInv
    <2>4. /\ Holding(Reading)' = Holding(Reading) /\ Holding(Writing)' = {}
          /\ Holding({"load", "store"})' = {} /\ Holding({"stop_write"})' = {}
          /\ Holding({"load", "store"}) = {} /\ Holding({"stop_write"}) = {}
      BY <1>0, <1>2, <2>3 DEF Holding, Reading, Writing
    <2>5. UNCHANGED Lock!lvars
      BY <1>0, <1>2, <2>4 DEF Lock!lvars
    <2>6. /\ ~removed' => sem' = SemsWith(Cardinality(Holding(Reading)'), Cardinality(Holding(Writing)'))
          /\ buf' \in prog.main.first .. z
      BY <1>0, <1>2, <2>3, <2>4 DEF LockInv
    <2>7. \A q \in Writers : pc'[q] = "store" => reg'[q] = buf'
      BY <1>0, <1>2, <2>2 DEF LockInv, Writers, Children
    <2>8. LockInv'
      BY <2>4, <2>6, <2>7, LockInvNext
    <2> QED
      BY <2>5, <2>8 DEF LockStep
  <1>3. CASE Read(p)
    <2>1. pc[p] = "read" /\ to = "stop_read" /\ UNCHANGED <<buf, reg>>
      BY <1>3 DEF Read, NextPlace, shm
    <2> QED
      BY <1>2, <2>1 DEF Reading
  <1>4. CASE Load(p) \/ Store(p)
    <2>0. /\ pc[p] \in Writing /\ to = IF pc[p] = "load" THEN "store" ELSE "stop_write"
          /\ pc[p] = "load" => Load(p)
          /\ pc[p] # "load" => Store(p) /\ pc[p] = "store"
      BY <1>4 DEF Load, Store, NextPlace, Writing
    <2>1. p \in Writers /\ died[p] = "none" /\ p \in Holding(Writing)
      BY <2>0, Roles DEF Holding
    <2>2. Holding(Writing) = {p} /\ Holding(Reading) = {}
      BY <2>1 DEF LockInv
    <2>3. Holding(Writing)' = {p} /\ Holding(Reading)' = {}
      BY <1>0, <2>0, <2>1, <2>2 DEF Holding, Reading, Writing
    <2>4. \A q \in Writers : pc'[q] = "store" => q = p
      <3> SUFFICES ASSUME NEW q \in Writers, pc'[q] = "store" PROVE q = p
        OBVIOUS
      <3>1. q \in Holding(Writing)'
        BY DEF Holding, Writing, Writers, Children
      <3> QED
        BY <2>3, <3>1
    <2>5. ~removed' => sem' = SemsWith(Cardinality(Holding(Reading)'), Cardinality(Holding(Writing)'))
      BY <1>0, <2>2, <2>3 DEF LockInv
    <2>6. CASE pc[p] = "load"
      <3>1. reg' = [reg EXCEPT ![p] = buf] /\ buf' = buf
        BY <2>0, <2>6 DEF Load
      <3>2. reg'[p] = buf' /\ buf' \in prog.main.first .. z
        BY <2>1, <3>1 DEF LockInv, TypeOK
      <3>3. LockInv'
        BY <2>3, <2>4, <2>5, <3>2, LockInvNext
      <3>4. /\ Holding({"load", "store"})' = Holding({"load", "store"})
            /\ Holding({"stop_write"})' = Holding({"stop_write"})
        BY <1>0, <2>0, <2>1, <2>2, <2>6 DEF Holding, Reading, Writing
      <3>5. UNCHANGED Lock!lvars
        BY <1>0, <2>2, <2>3, <3>1, <3>4 DEF Lock!lvars
      <3> QED
        BY <3>3, <3>5 DEF LockStep
    <2>7. CASE pc[p] # "load"
      <3>0. pc[p] = "store" /\ to = "stop_write" /\ reg[p] = buf
        BY <2>0, <2>1, <2>7 DEF LockInv
      <3>1. buf' = prog.writer.next[buf] /\ buf \in prog.main.first .. z
        BY <2>0, <2>7, <3>0 DEF Store, LockInv
      <3>2. /\ buf' \in prog.main.first .. z
            /\ (buf' - prog.main.first) % NLetters =
                   IF (buf - prog.main.first) % NLetters = NLetters - 1 THEN 0
                   ELSE ((buf - prog.main.first) % NLetters) + 1
        BY <3>1, NextLetter
      <3>3. \A q \in Writers : pc'[q] = "store" => reg'[q] = buf'
        BY <1>0, <2>1, <2>4, <3>0
      <3>4. LockInv'
        BY <2>3, <2>5, <3>2, <3>3, LockInvNext
      <3>5. /\ Holding({"load", "store"}) = {p} /\ Holding({"load", "store"})' = {}
            /\ Holding({"stop_write"}) = {} /\ Holding({"stop_write"})' = {p}
        BY <1>0, <2>1, <2>2, <3>0 DEF Holding, Reading, Writing
      <3>6. Lock!Write(p)
        BY <1>0, <2>2, <2>3, <3>2, <3>5 DEF Lock!Write
      <3> QED
        BY <2>1, <3>4, <3>6 DEF LockStep, Lock!Next
    <2> QED
      BY <2>6, <2>7
  <1> QED
    BY <1>1, <1>3, <1>4

\* Without SEM_UNDO the end of a child leaves the semaphores alone.
LEMMA UndoNothing ==
    ASSUME TypeOK, AdjInv, NEW p \in Children, ~prog.ops.undo
    PROVE  Undo(sem, adj[p]) = sem
  <1>1. adj[p] = Taken(p) /\ sem \in [Sems -> Nat]
    BY DEF AdjInv, TypeOK
  <1>2. \A s \in Sems : adj[p][s] = 0
    BY <1>1 DEF Taken
  <1>3. Undo(sem, adj[p]) = [s \in Sems |-> sem[s]]
    BY <1>1, <1>2 DEF Undo
  <1> QED
    BY <1>1, <1>3

\* With it, the kernel gives back what the child had taken.
LEMMA UndoTaken ==
    ASSUME TypeOK, AdjInv, NEW p \in Children, prog.ops.undo, program \in LockPrograms,
           NEW r \in Nat, NEW w \in {0, 1}, sem = SemsWith(r, w)
    PROVE  /\ pc[p] \in Reading /\ r > 0 => Undo(sem, adj[p]) = SemsWith(r - 1, w)
           /\ pc[p] \in Writing /\ w = 1 => Undo(sem, adj[p]) = SemsWith(r, w - 1)
           /\ pc[p] \notin Lockers => Undo(sem, adj[p]) = sem
  <1>0. program = "tmp_wr" /\ adj[p] = Taken(p) /\ sem \in [Sems -> Nat]
    BY LockParts DEF AdjInv, TypeOK
  <1>1. \A x, y : SemsWith(x, y) =
            [s \in 0 .. 4 |-> IF s = 1 THEN x ELSE IF s = 3 THEN 1 - y ELSE IF s = 4 THEN y ELSE 0]
    BY <1>0 DEF SemsWith
  <1>2. Sems = 0 .. 4
    BY <1>1, LockParts
  <1>3. \A s \in 0 .. 4 : adj[p][s] =
            IF s = 1 THEN IF pc[p] \in Reading THEN -1 ELSE 0
            ELSE IF s = 3 THEN IF pc[p] \in Writing THEN 1 ELSE 0
            ELSE IF s = 4 THEN IF pc[p] \in Writing THEN -1 ELSE 0
            ELSE 0
    BY <1>0, <1>1, <1>2 DEF Taken
  <1>4. Undo(sem, adj[p]) = [s \in 0 .. 4 |-> IF sem[s] + adj[p][s] < 0 THEN 0 ELSE sem[s] + adj[p][s]]
    BY <1>0, <1>2 DEF Undo
  <1>5. \A s \in 0 .. 4 : sem[s] = IF s = 1 THEN r ELSE IF s = 3 THEN 1 - w ELSE IF s = 4 THEN w ELSE 0
    BY <1>1
  <1>6. ASSUME pc[p] \in Reading, r > 0 PROVE Undo(sem, adj[p]) = SemsWith(r - 1, w)
    <2>1. pc[p] \notin Writing
      BY <1>6 DEF Reading, Writing
    <2>2. \A s \in 0 .. 4 : (IF sem[s] + adj[p][s] < 0 THEN 0 ELSE sem[s] + adj[p][s])
              = IF s = 1 THEN r - 1 ELSE IF s = 3 THEN 1 - w ELSE IF s = 4 THEN w ELSE 0
      BY <1>3, <1>5, <1>6, <2>1
    <2> QED
      BY <1>1, <1>4, <2>2
  <1>7. ASSUME pc[p] \in Writing, w = 1 PROVE Undo(sem, adj[p]) = SemsWith(r, w - 1)
    <2>1. pc[p] \notin Reading
      BY <1>7 DEF Reading, Writing
    <2>2. \A s \in 0 .. 4 : (IF sem[s] + adj[p][s] < 0 THEN 0 ELSE sem[s] + adj[p][s])
              = IF s = 1 THEN r ELSE IF s = 3 THEN 1 - (w - 1) ELSE IF s = 4 THEN w - 1 ELSE 0
      BY <1>3, <1>5, <1>7, <2>1
    <2> QED
      BY <1>1, <1>4, <2>2
  <1>8. ASSUME pc[p] \notin Lockers PROVE Undo(sem, adj[p]) = sem
    <2>1. pc[p] \notin Reading /\ pc[p] \notin Writing
      BY <1>8 DEF Lockers
    <2>2. \A s \in 0 .. 4 : (IF sem[s] + adj[p][s] < 0 THEN 0 ELSE sem[s] + adj[p][s])
              = IF s = 1 THEN r ELSE IF s = 3 THEN 1 - w ELSE IF s = 4 THEN w ELSE 0
      BY <1>3, <1>5, <2>1
    <2> QED
      BY <1>1, <1>4, <2>2
  <1> QED
    BY <1>6, <1>7, <1>8

\* A child ends, where it holds nothing or something.
LEMMA EndsLock ==
    ASSUME TypeOK, PlacesInv, AdjInv, LockInv, program' = program,
           NEW p \in Children, ComesToNothing(p)
    PROVE  LockStep
  <1> DEFINE undo == prog.ops.undo
  <1>0. /\ pc[p] # "gone" /\ died[p] = "none" /\ removed' = removed /\ UNCHANGED <<buf, reg>>
        /\ \A q \in Children : pc'[q] = IF q = p THEN "gone" ELSE pc[q]
        /\ sem' = IF removed THEN sem ELSE Undo(sem, adj[p])
    BY DEF ComesToNothing, SemUndo, Goto, TypeOK, GroupTypeOK, PlacesInv, shm
  <1>1. /\ \A q \in Children \ {p} : died'[q] = died[q]
        /\ \/ died'[p] = "none" /\ (pc[p] \in Lockers => removed \/ undo)
           \/ died'[p] = pc[p] /\ pc[p] \in Lockers /\ ~undo
    <2>1. died \in [Children -> Reading \cup Writing \cup {"none"}]
      BY DEF TypeOK
    <2>2. CASE died' = died /\ (pc[p] \in Inside => removed)
      BY <1>0, <2>2 DEF Lockers, Inside
    <2>3. CASE Dies(p)
      BY <1>0, <2>1, <2>3 DEF Dies, Lockers
    <2> QED
      BY <2>2, <2>3 DEF ComesToNothing
  <1>2. pc[p] \in Lockers => program \in LockPrograms
    <2>1. pc[p] \in ToSet(loop(p)) \cup {"unborn", "loop", "eintr", "gone"} /\ program \in Programs
      BY DEF PlacesInv, TypeOK
    <2> QED
      BY <2>1, LoopPlaces DEF Lockers, Reading, Writing
  <1>3. "none" \notin Lockers /\ "gone" \notin Lockers
    BY DEF Lockers, Reading, Writing
  <1>4. CASE pc[p] \notin Lockers \/ (~undo /\ died'[p] = pc[p])
    <2>1. \A places \in SUBSET Lockers : Holding(places)' = Holding(places)
      BY <1>0, <1>1, <1>3, <1>4 DEF Holding
    <2>2. sem' = sem \/ removed'
      <3>1. CASE ~undo
        BY <1>0, <3>1, UndoNothing
      <3>2. CASE undo /\ ~removed /\ program \in LockPrograms
        <4>1. /\ Cardinality(Holding(Reading)) \in Nat /\ Cardinality(Holding(Writing)) \in {0, 1}
              /\ sem = SemsWith(Cardinality(Holding(Reading)), Cardinality(Holding(Writing)))
          BY <3>2, InsideCounts DEF LockInv
        <4>2. pc[p] \notin Lockers
          BY <1>4, <3>2
        <4>3. Undo(sem, adj[p]) = sem
          BY <3>2, <4>1, <4>2, UndoTaken
        <4> QED
          BY <1>0, <4>3
      <3>3. program \notin LockPrograms => ~undo
        BY LesParts, LoopPlaces DEF TypeOK
      <3> QED
        BY <1>0, <3>1, <3>2, <3>3
    <2>3. \A q \in Writers : pc'[q] = "store" => pc[q] = "store" /\ reg'[q] = reg[q]
      BY <1>0 DEF Writers, Children
    <2> QED
      BY <1>0, <2>1, <2>2, <2>3, Keeps
  <1>5. CASE pc[p] \in Lockers /\ died'[p] = "none"
    <2> DEFINE r == Cardinality(Holding(Reading))
               w == Cardinality(Holding(Writing))
    <2>0. program \in LockPrograms
      BY <1>2, <1>5
    <2>1. died' = died
      <3>1. \A q \in Children : died'[q] = died[q]
        BY <1>0, <1>1, <1>5
      <3>2. died' = died \/ (\E d : died' = [died EXCEPT ![p] = d])
        BY DEF ComesToNothing, Dies
      <3> QED
        BY <3>1, <3>2 DEF TypeOK
    <2>2. ~removed => undo
      BY <1>1, <1>3, <1>5
    <2>3. ~removed => sem' = IF pc[p] \in Reading THEN SemsWith(r - 1, w) ELSE SemsWith(r, w - 1)
      <3> SUFFICES ASSUME ~removed
                   PROVE  sem' = IF pc[p] \in Reading THEN SemsWith(r - 1, w) ELSE SemsWith(r, w - 1)
        OBVIOUS
      <3>1. r \in Nat /\ w \in {0, 1} /\ sem = SemsWith(r, w)
        BY <2>0, InsideCounts DEF LockInv
      <3>2. /\ pc[p] \in Reading => r # 0
            /\ pc[p] \in Writing => w # 0
        BY <2>0, InsideCounts DEF Holding
      <3> HIDE DEF r, w
      <3>3. /\ pc[p] \in Reading => Undo(sem, adj[p]) = SemsWith(r - 1, w)
            /\ pc[p] \in Writing => Undo(sem, adj[p]) = SemsWith(r, w - 1)
        BY <2>0, <2>2, <3>1, <3>2, UndoTaken
      <3> QED
        BY <1>0, <1>5, <3>3 DEF Lockers
    <2>4. Goto(p, "gone")
      BY DEF ComesToNothing
    <2> HIDE DEF r, w
    <2>5. r = Cardinality(Holding(Reading)) /\ w = Cardinality(Holding(Writing))
      BY DEF r, w
    <2>6. UNCHANGED <<buf, reg, removed>>
      BY <1>0
    <2> QED
      BY <1>3, <1>5, <2>0, <2>1, <2>3, <2>4, <2>5, <2>6, GoesOut
  <1> HIDE DEF undo
  <1> QED
    BY <1>1, <1>4, <1>5, Zenon

\* A child goes out by its second semop.
LEMMA StopsInLock ==
    ASSUME TypeOK, PlacesInv, LockInv, program \in LockPrograms, program' = program,
           NEW p \in Children, Stop(p), died' = died
    PROVE  LockStep
  <1> DEFINE r == Cardinality(Holding(Reading))
             w == Cardinality(Holding(Writing))
  <1>0. /\ pc[p] \in {"stop_read", "stop_write"} /\ ~removed
        /\ sem' = Values(sem, prog.ops[pc[p]])[Len(prog.ops[pc[p]])]
        /\ UNCHANGED <<buf, reg, removed>>
    BY Roles DEF Stop, Semop, CanSemop, shm, Advances, Moves
  <1>1. Goto(p, "loop") /\ pc[p] \in Lockers /\ "loop" \notin Lockers
    <2>1. pc[p] \in ToSet(loop(p)) /\ program \in Programs
      BY <1>0 DEF PlacesInv, TypeOK
    <2>2. Moves(p, NextPlace(p))
      BY <2>1, AdvancesTo DEF Stop
    <2>3. NextPlace(p) = "loop"
      BY <1>0 DEF NextPlace
    <2> QED
      BY <1>0, <2>2, <2>3 DEF Moves, Lockers, Reading, Writing
  <1>2. r \in Nat /\ w \in {0, 1} /\ sem = SemsWith(r, w)
    BY <1>0, InsideCounts DEF LockInv
  <1> HIDE DEF r, w
  <1>3. LockArrays(prog.ops, r, w)
    BY <1>2, LockNet
  <1>4. sem' = IF pc[p] \in Reading THEN SemsWith(r - 1, w) ELSE SemsWith(r, w - 1)
    <2>1. CASE pc[p] = "stop_read"
      <3>1. sem' = Values(sem, prog.ops.stop_read)[Len(prog.ops.stop_read)]
        BY <1>0, <2>1
      <3> QED
        BY <1>3, <2>1, <3>1 DEF LockArrays, Reading
    <2>2. CASE pc[p] = "stop_write"
      <3>1. sem' = Values(sem, prog.ops.stop_write)[Len(prog.ops.stop_write)]
        BY <1>0, <2>2
      <3> QED
        BY <1>3, <2>2, <3>1 DEF LockArrays, Reading
    <2> QED
      BY <1>0, <2>1, <2>2
  <1>5. r = Cardinality(Holding(Reading)) /\ w = Cardinality(Holding(Writing))
    BY DEF r, w
  <1> QED
    BY <1>0, <1>1, <1>4, <1>5, GoesOut

\* Every step keeps the invariant of the lock and is a step of it or none.
LEMMA EveryLockStep == ASSUME TypeOK, PlacesInv, AdjInv, LockInv, [Next]_vars PROVE LockStep
  <1>0. program' = program /\ program \in Programs
    BY KindsOfSteps DEF TypeOK
  <1>1. ASSUME removed => removed', sem' = sem, died' = died, buf' = buf, reg' = reg,
               \A q \in Children : (pc[q] \in Lockers \/ pc'[q] \in Lockers) => pc'[q] = pc[q]
        PROVE  LockStep
    <2>1. \A places \in SUBSET Lockers : Holding(places)' = Holding(places)
      BY <1>1 DEF Holding
    <2>2. \A q \in Writers : pc'[q] = "store" => pc[q] = "store" /\ reg'[q] = reg[q]
      BY <1>1 DEF Writers, Children, Lockers, Writing
    <2> QED
      BY <1>0, <1>1, <2>1, <2>2, Keeps
  <1>2. CASE Still
    BY <1>1, <1>2 DEF Still, sems, shm
  <1>3. ASSUME NEW p \in Children, Shifts(p) PROVE LockStep
    <2>1. PICK to \in {"loop", "sleep", "P", "eintr"} : Goto(p, to)
      BY <1>3 DEF Shifts
    <2>2. \A q \in Children : pc'[q] = IF q = p THEN to ELSE pc[q]
      BY <2>1 DEF Goto, TypeOK, GroupTypeOK
    <2>3. pc[p] \notin Lockers /\ to \notin Lockers
      BY <1>3 DEF Shifts, Inside, Lockers, Reading, Writing
    <2>4. UNCHANGED <<sem, died, buf, reg, removed>>
      BY <1>3 DEF Shifts, sems, shm
    <2> QED
      BY <1>1, <2>2, <2>3, <2>4
  <1>4. ASSUME NEW p \in Children, Works(p) \/ Semops(p) PROVE LockStep
    <2>1. CASE program \in LockPrograms
      BY <1>0, <1>4, <2>1, GoesOnInside, ComesIn, StopsInLock DEF Semops
    <2>2. CASE program \notin LockPrograms
      <3>1. /\ pc[p] \in ToSet(loop(p)) /\ Goto(p, NextPlace(p)) /\ died' = died /\ removed' = removed
            /\ program = "les_pc"
        BY <1>0, <1>4, <2>2, WorkMoves, LoopPlaces
      <3>2. NextPlace(p) \in ToSet(loop(p)) \cup {"loop"}
        BY <1>0, <3>1, NextIsOwn
      <3>3. pc[p] \notin Lockers /\ NextPlace(p) \notin Lockers
        BY <1>0, <3>1, <3>2, LoopPlaces DEF Lockers, Reading, Writing
      <3>4. \A q \in Children : pc'[q] = IF q = p THEN NextPlace(p) ELSE pc[q]
        BY <3>1 DEF Goto, TypeOK, GroupTypeOK
      <3>5. buf' = buf
        BY <1>4, <3>3
           DEF Works, Semops, Read, Load, Store, Put, AdvanceProducer, Take, Start, Stop, shm,
               Lockers, Reading, Writing
      <3>6. \A places \in SUBSET Lockers : Holding(places)' = Holding(places)
        BY <3>1, <3>3, <3>4 DEF Holding
      <3>7. UNCHANGED Lock!lvars
        <4>1. /\ {"load", "store"} \in SUBSET Lockers /\ {"stop_write"} \in SUBSET Lockers
              /\ Reading \in SUBSET Lockers
          BY DEF Lockers, Reading, Writing
        <4>2. prog' = prog
          BY <1>0 DEF prog
        <4> QED
          BY <3>5, <3>6, <4>1, <4>2 DEF Lock!lvars
      <3> QED
        BY <1>0, <2>2, <3>7 DEF LockStep, LockInv
    <2> QED
      BY <2>1, <2>2
  <1> QED
    BY <1>0, <1>2, <1>3, <1>4, EndsLock, KindsOfSteps

(***************************************************************************)
(* The adjustments of SEM_UNDO.                                            *)
(***************************************************************************)
\* What rd places of a reader and wr of a writer take.
TakenBy(rd, wr) ==
    [s \in Sems |-> IF prog.ops.undo THEN SemsWith(0, 0)[s] - SemsWith(rd, wr)[s] ELSE 0]

\* Taken, before and after a step, and what it comes to in tmp_wr.c.
LEMMA TakenIs ==
    ASSUME program' = program, program \in Programs
    PROVE  /\ \A q \in Children : Taken(q) = TakenBy(IF pc[q] \in Reading THEN 1 ELSE 0,
                                                     IF pc[q] \in Writing THEN 1 ELSE 0)
           /\ \A q \in Children : Taken(q)' = TakenBy(IF pc'[q] \in Reading THEN 1 ELSE 0,
                                                      IF pc'[q] \in Writing THEN 1 ELSE 0)
           /\ TakenBy(0, 0) = [s \in Sems |-> 0]
           /\ ~prog.ops.undo => \A rd, wr : TakenBy(rd, wr) = [s \in Sems |-> 0]
           /\ prog.ops.undo =>
                 /\ program = "tmp_wr" /\ Sems = 0 .. 4
                 /\ \A rd, wr \in Int : TakenBy(rd, wr) =
                       [s \in 0 .. 4 |-> IF s = 1 THEN 0 - rd ELSE IF s = 3 THEN wr ELSE IF s = 4 THEN 0 - wr ELSE 0]
                 /\ \A rd, wr \in Int : SemsWith(rd, wr) =
                       [s \in 0 .. 4 |-> IF s = 1 THEN rd ELSE IF s = 3 THEN 1 - wr ELSE IF s = 4 THEN wr ELSE 0]
  <1>1. prog' = prog
    BY DEF prog
  <1>2. \A q \in Children : Taken(q) = TakenBy(IF pc[q] \in Reading THEN 1 ELSE 0,
                                               IF pc[q] \in Writing THEN 1 ELSE 0)
    BY DEF Taken, TakenBy
  <1>3. \A q \in Children : Taken(q)' = TakenBy(IF pc'[q] \in Reading THEN 1 ELSE 0,
                                                IF pc'[q] \in Writing THEN 1 ELSE 0)
    BY <1>1 DEF Taken, TakenBy, SemsWith, Sems
  <1>4. ASSUME prog.ops.undo
        PROVE  /\ program = "tmp_wr" /\ Sems = 0 .. 4
               /\ \A rd, wr \in Int : TakenBy(rd, wr) =
                     [s \in 0 .. 4 |-> IF s = 1 THEN 0 - rd ELSE IF s = 3 THEN wr ELSE IF s = 4 THEN 0 - wr ELSE 0]
               /\ \A rd, wr \in Int : SemsWith(rd, wr) =
                     [s \in 0 .. 4 |-> IF s = 1 THEN rd ELSE IF s = 3 THEN 1 - wr ELSE IF s = 4 THEN wr ELSE 0]
    <2>1. program = "tmp_wr"
      BY <1>4, DraftsAssumption, LockParts, LesParts DEF LockPrograms
    <2>2. \A rd, wr : SemsWith(rd, wr) =
              [s \in 0 .. 4 |-> IF s = 1 THEN rd ELSE IF s = 3 THEN 1 - wr ELSE IF s = 4 THEN wr ELSE 0]
      BY <2>1 DEF SemsWith
    <2>3. Sems = 0 .. 4
      BY <2>1, <2>2, LockParts DEF LockPrograms
    <2>4. ASSUME NEW rd \in Int, NEW wr \in Int
          PROVE  TakenBy(rd, wr) =
                     [s \in 0 .. 4 |-> IF s = 1 THEN 0 - rd ELSE IF s = 3 THEN wr ELSE IF s = 4 THEN 0 - wr ELSE 0]
      <3>1. \A s \in 0 .. 4 : SemsWith(0, 0)[s] - SemsWith(rd, wr)[s] =
                IF s = 1 THEN 0 - rd ELSE IF s = 3 THEN wr ELSE IF s = 4 THEN 0 - wr ELSE 0
        BY <2>2
      <3> QED
        BY <1>4, <2>3, <3>1 DEF TakenBy
    <2> QED
      BY <2>1, <2>2, <2>3, <2>4
  <1>5. ASSUME ~prog.ops.undo PROVE \A rd, wr : TakenBy(rd, wr) = [s \in Sems |-> 0]
    BY <1>5 DEF TakenBy
  <1>6. TakenBy(0, 0) = [s \in Sems |-> 0]
    <2>1. CASE prog.ops.undo
      <3>1. /\ Sems = 0 .. 4 /\ TakenBy(0, 0) = [s \in 0 .. 4 |->
                   IF s = 1 THEN 0 - 0 ELSE IF s = 3 THEN 0 ELSE IF s = 4 THEN 0 - 0 ELSE 0]
        BY <1>4, <2>1
      <3> QED
        BY <3>1
    <2>2. CASE ~prog.ops.undo
      BY <1>5, <2>2
    <2> QED
      BY <2>1, <2>2
  <1> QED
    BY <1>2, <1>3, <1>4, <1>5, <1>6

\* A semop of tmp_wr.c is kept in the adjustment as what it takes.
LEMMA SemopTakes ==
    ASSUME TypeOK, PlacesInv, AdjInv, LockInv, program' = program, prog.ops.undo,
           NEW p \in Children, Semops(p)
    PROVE  /\ \A q \in Children \ {p} : adj'[q] = adj[q]
           /\ adj'[p] = Taken(p)'
           /\ DOMAIN adj' = Children
  <1> DEFINE r == Cardinality(Holding(Reading))
             w == Cardinality(Holding(Writing))
             rd == IF pc[p] \in Reading THEN 1 ELSE 0
             wr == IF pc[p] \in Writing THEN 1 ELSE 0
             rd1 == IF pc'[p] \in Reading THEN 1 ELSE 0
             wr1 == IF pc'[p] \in Writing THEN 1 ELSE 0
             rr == r + rd1 - rd
             ww == w + wr1 - wr
  <1>0. /\ program \in Programs /\ program = "tmp_wr" /\ program \in LockPrograms
        /\ adj \in [Children -> [Sems -> Int]] /\ Sems = 0 .. 4
    BY TakenIs DEF TypeOK, LockPrograms
  <1>1. ~removed /\ adj' = [adj EXCEPT ![p] = [s \in Sems |-> adj[p][s] + sem[s] - sem'[s]]]
    BY DEF Semops, Start, Stop, Semop, CanSemop
  <1>2. r \in Nat /\ w \in {0, 1} /\ sem = SemsWith(r, w)
    BY <1>0, <1>1, InsideCounts DEF LockInv
  <1> HIDE DEF r, w
  <1>3. LockArrays(prog.ops, r, w)
    BY <1>0, <1>2, LockNet
  <1>4. sem' = SemsWith(rr, ww)
    <2>1. /\ pc[p] \in ToSet(loop(p)) /\ Goto(p, NextPlace(p))
      BY WorkMoves
    <2>2. pc'[p] = NextPlace(p)
      BY <2>1 DEF Goto, TypeOK, GroupTypeOK
    <2>3. CASE Start(p) /\ p \in Writers
      <3>1. sem' = Values(sem, prog.ops.start_write)[Len(prog.ops.start_write)] /\ pc[p] = "P"
        BY <1>0, <2>3, LockParts DEF Start, Semop, start_of
      <3>2. pc'[p] = "load"
        BY <1>0, <2>2, <2>3, <3>1 DEF NextPlace
      <3>3. rr = r /\ ww = w + 1
        BY <1>2, <3>1, <3>2 DEF Reading, Writing
      <3> QED
        BY <1>3, <3>1, <3>3 DEF LockArrays
    <2>4. CASE Start(p) /\ p \notin Writers
      <3>1. sem' = Values(sem, prog.ops.start_read)[Len(prog.ops.start_read)] /\ pc[p] = "P"
        BY <1>0, <2>4, LockParts DEF Start, Semop, start_of
      <3>2. pc'[p] = "read"
        BY <1>0, <2>2, <2>4, <3>1 DEF NextPlace
      <3>3. rr = r + 1 /\ ww = w
        BY <1>2, <3>1, <3>2 DEF Reading, Writing
      <3> QED
        BY <1>3, <3>1, <3>3 DEF LockArrays
    <2>5. CASE Stop(p)
      <3>0. pc[p] \in {"stop_read", "stop_write"} /\ pc'[p] = "loop"
        BY <1>0, <2>2, <2>5, Roles DEF Stop, NextPlace
      <3>1. CASE pc[p] = "stop_read"
        <4>1. sem' = Values(sem, prog.ops.stop_read)[Len(prog.ops.stop_read)]
          BY <2>5, <3>1 DEF Stop, Semop
        <4>2. rr = r - 1 /\ ww = w
          BY <1>2, <3>0, <3>1 DEF Reading, Writing
        <4> QED
          BY <1>3, <4>1, <4>2 DEF LockArrays
      <3>2. CASE pc[p] = "stop_write"
        <4>1. sem' = Values(sem, prog.ops.stop_write)[Len(prog.ops.stop_write)]
          BY <2>5, <3>2 DEF Stop, Semop
        <4>2. rr = r /\ ww = w - 1
          BY <1>2, <3>0, <3>2 DEF Reading, Writing
        <4> QED
          BY <1>3, <4>1, <4>2 DEF LockArrays
      <3> QED
        BY <3>0, <3>1, <3>2
    <2> QED
      BY <2>3, <2>4, <2>5 DEF Semops
  <1>5. rd \in Int /\ wr \in Int /\ rd1 \in Int /\ wr1 \in Int /\ rr \in Int /\ ww \in Int
    BY <1>2
  <1>6. adj[p] = TakenBy(rd, wr) /\ Taken(p)' = TakenBy(rd1, wr1)
    BY <1>0, TakenIs DEF AdjInv
  <1>7. rr = r + rd1 - rd /\ ww = w + wr1 - wr /\ r \in Int /\ w \in Int
    BY <1>2
  <1> HIDE DEF rd, wr, rd1, wr1, rr, ww
  <1>8. adj'[p] = Taken(p)'
    <2>1. /\ \A s \in 0 .. 4 : adj[p][s] =
                IF s = 1 THEN 0 - rd ELSE IF s = 3 THEN wr ELSE IF s = 4 THEN 0 - wr ELSE 0
          /\ Taken(p)' = [s \in 0 .. 4 |->
                IF s = 1 THEN 0 - rd1 ELSE IF s = 3 THEN wr1 ELSE IF s = 4 THEN 0 - wr1 ELSE 0]
      <3>1. \A x, y \in Int : TakenBy(x, y) =
                [s \in 0 .. 4 |-> IF s = 1 THEN 0 - x ELSE IF s = 3 THEN y ELSE IF s = 4 THEN 0 - y ELSE 0]
        BY <1>0, TakenIs
      <3>2. adj[p] = [s \in 0 .. 4 |-> IF s = 1 THEN 0 - rd ELSE IF s = 3 THEN wr ELSE IF s = 4 THEN 0 - wr ELSE 0]
        BY <1>5, <1>6, <3>1
      <3>3. Taken(p)' = [s \in 0 .. 4 |->
                IF s = 1 THEN 0 - rd1 ELSE IF s = 3 THEN wr1 ELSE IF s = 4 THEN 0 - wr1 ELSE 0]
        BY <1>5, <1>6, <3>1
      <3> QED
        BY <3>2, <3>3
    <2>2. /\ \A s \in 0 .. 4 : sem[s] = IF s = 1 THEN r ELSE IF s = 3 THEN 1 - w ELSE IF s = 4 THEN w ELSE 0
          /\ \A s \in 0 .. 4 : sem'[s] = IF s = 1 THEN rr ELSE IF s = 3 THEN 1 - ww ELSE IF s = 4 THEN ww ELSE 0
      <3>1. \A x, y \in Int : SemsWith(x, y) =
                [s \in 0 .. 4 |-> IF s = 1 THEN x ELSE IF s = 3 THEN 1 - y ELSE IF s = 4 THEN y ELSE 0]
        BY <1>0, TakenIs
      <3> QED
        BY <1>2, <1>4, <1>5, <1>7, <3>1
    <2>3. \A s \in 0 .. 4 : adj[p][s] + sem[s] - sem'[s] =
                IF s = 1 THEN 0 - rd1 ELSE IF s = 3 THEN wr1 ELSE IF s = 4 THEN 0 - wr1 ELSE 0
      BY <1>5, <1>7, <2>1, <2>2
    <2>4. adj'[p] = [s \in 0 .. 4 |-> adj[p][s] + sem[s] - sem'[s]]
      BY <1>0, <1>1
    <2> QED
      BY <2>1, <2>3, <2>4
  <1> QED
    BY <1>0, <1>1, <1>8

\* A child's adjustment stays what it has taken and not given back.
LEMMA AdjStep ==
    ASSUME TypeOK, PlacesInv, AdjInv, LockInv, [Next]_vars
    PROVE  AdjInv' /\ adj' \in [Children -> [Sems -> Int]]
  <1>0. /\ program' = program /\ program \in Programs
        /\ adj \in [Children -> [Sems -> Int]] /\ pc \in [Children -> Places]
    BY KindsOfSteps DEF TypeOK, GroupTypeOK
  <1>1. SUFFICES /\ adj' \in [Children -> [Sems -> Int]]
                 /\ \A q \in Children : adj'[q] = Taken(q)'
    BY DEF AdjInv
  <1>2. \A q \in Children : adj[q] = Taken(q)
    BY DEF AdjInv
  <1>3. ASSUME NEW q \in Children, pc'[q] \in Reading <=> pc[q] \in Reading,
               pc'[q] \in Writing <=> pc[q] \in Writing
        PROVE  Taken(q)' = Taken(q)
    <2>1. /\ (IF pc'[q] \in Reading THEN 1 ELSE 0) = (IF pc[q] \in Reading THEN 1 ELSE 0)
          /\ (IF pc'[q] \in Writing THEN 1 ELSE 0) = (IF pc[q] \in Writing THEN 1 ELSE 0)
      BY <1>3
    <2> QED
      BY <1>0, <2>1, TakenIs
  <1>4. ASSUME NEW p \in Children, NEW to, Goto(p, to), adj' = adj,
               ~prog.ops.undo \/ ((to \in Reading <=> pc[p] \in Reading) /\ (to \in Writing <=> pc[p] \in Writing))
        PROVE  \A q \in Children : adj'[q] = Taken(q)'
    <2>1. \A q \in Children : pc'[q] = IF q = p THEN to ELSE pc[q]
      BY <1>0, <1>4 DEF Goto
    <2>2. ASSUME NEW q \in Children, q # p PROVE adj'[q] = Taken(q)'
      BY <1>2, <1>3, <1>4, <2>1, <2>2
    <2>3. CASE ~prog.ops.undo
      <3>1. Taken(p) = [s \in Sems |-> 0] /\ Taken(p)' = [s \in Sems |-> 0]
        BY <1>0, <2>3, TakenIs
      <3> QED
        BY <1>2, <1>4, <2>2, <3>1
    <2>4. CASE (to \in Reading <=> pc[p] \in Reading) /\ (to \in Writing <=> pc[p] \in Writing)
      <3>1. Taken(p)' = Taken(p)
        BY <1>3, <2>1, <2>4
      <3> QED
        BY <1>2, <1>4, <2>2, <3>1
    <2> QED
      BY <1>4, <2>3, <2>4
  <1>5. CASE Still
    <2>1. pc' = pc /\ adj' = adj
      BY <1>5 DEF Still, sems
    <2> QED
      BY <1>0, <1>2, <1>3, <2>1
  <1>6. ASSUME NEW p \in Children, Shifts(p)
        PROVE  adj' \in [Children -> [Sems -> Int]] /\ \A q \in Children : adj'[q] = Taken(q)'
    <2>1. PICK to \in {"loop", "sleep", "P", "eintr"} : Goto(p, to)
      BY <1>6 DEF Shifts
    <2>2. pc[p] \notin Reading \cup Writing /\ to \notin Reading \cup Writing
      BY <1>6 DEF Shifts, Inside, Reading, Writing
    <2>3. adj' = adj
      BY <1>6 DEF Shifts, sems
    <2> QED
      BY <1>0, <1>4, <2>1, <2>2, <2>3
  <1>7. ASSUME NEW p \in Children, ComesToNothing(p)
        PROVE  adj' \in [Children -> [Sems -> Int]] /\ \A q \in Children : adj'[q] = Taken(q)'
    <2>1. /\ adj' = [adj EXCEPT ![p] = [s \in Sems |-> 0]]
          /\ \A q \in Children : pc'[q] = IF q = p THEN "gone" ELSE pc[q]
      BY <1>0, <1>7 DEF ComesToNothing, SemUndo, Goto
    <2>2. Taken(p)' = [s \in Sems |-> 0]
      <3>1. pc'[p] \notin Reading /\ pc'[p] \notin Writing
        BY <2>1 DEF Reading, Writing
      <3> QED
        BY <1>0, <3>1, TakenIs
    <2>3. ASSUME NEW q \in Children, q # p PROVE adj'[q] = Taken(q)'
      BY <1>0, <1>2, <1>3, <2>1, <2>3
    <2>4. adj' \in [Children -> [Sems -> Int]] /\ adj'[p] = [s \in Sems |-> 0]
      BY <1>0, <2>1
    <2> QED
      BY <2>2, <2>3, <2>4
  <1>8. ASSUME NEW p \in Children, Works(p)
        PROVE  adj' \in [Children -> [Sems -> Int]] /\ \A q \in Children : adj'[q] = Taken(q)'
    <2>1. Goto(p, NextPlace(p))
      BY <1>8, WorkMoves
    <2>2. adj' = adj
      BY <1>8 DEF Works, Read, Load, Store, Put, AdvanceProducer, Take, sems
    <2>3. /\ NextPlace(p) \in Reading <=> pc[p] \in Reading
          /\ NextPlace(p) \in Writing <=> pc[p] \in Writing
      BY <1>8 DEF Works, Read, Load, Store, Put, AdvanceProducer, Take, NextPlace, Reading, Writing
    <2> QED
      BY <1>0, <1>4, <2>1, <2>2, <2>3
  <1>9. ASSUME NEW p \in Children, Semops(p)
        PROVE  adj' \in [Children -> [Sems -> Int]] /\ \A q \in Children : adj'[q] = Taken(q)'
    <2>0. Goto(p, NextPlace(p))
      BY <1>9, WorkMoves
    <2>1. CASE ~prog.ops.undo
      <3>1. adj' = adj
        BY <1>9, <2>1 DEF Semops, Start, Stop, Semop
      <3> QED
        BY <1>0, <1>4, <2>0, <2>1, <3>1
    <2>2. CASE prog.ops.undo
      <3>1. \A q \in Children \ {p} : adj'[q] = adj[q]
        BY <1>0, <1>9, <2>2, SemopTakes
      <3>2. adj'[p] = Taken(p)' /\ \E d : adj' = [adj EXCEPT ![p] = d]
        BY <1>0, <1>9, <2>2, SemopTakes DEF Semops, Start, Stop, Semop
      <3>3. Taken(p)' \in [Sems -> Int]
        <4> DEFINE rd1 == IF pc'[p] \in Reading THEN 1 ELSE 0
                   wr1 == IF pc'[p] \in Writing THEN 1 ELSE 0
        <4>1. rd1 \in Int /\ wr1 \in Int
          OBVIOUS
        <4>2. Taken(p)' = TakenBy(rd1, wr1)
          BY <1>0, TakenIs
        <4> HIDE DEF rd1, wr1
        <4>3. Sems = 0 .. 4 /\ TakenBy(rd1, wr1) =
                 [s \in 0 .. 4 |-> IF s = 1 THEN 0 - rd1 ELSE IF s = 3 THEN wr1 ELSE IF s = 4 THEN 0 - wr1 ELSE 0]
          BY <1>0, <2>2, <4>1, TakenIs
        <4> QED
          BY <4>1, <4>2, <4>3
      <3>4. ASSUME NEW q \in Children, q # p PROVE adj'[q] = Taken(q)'
        <4>1. pc'[q] = pc[q]
          BY <1>0, <2>0, <3>4 DEF Goto
        <4> QED
          BY <1>2, <1>3, <3>1, <3>4, <4>1
      <3>5. adj' \in [Children -> [Sems -> Int]]
        <4>1. PICK d : adj' = [adj EXCEPT ![p] = d]
          BY <3>2
        <4>2. adj'[p] = d
          BY <1>0, <4>1
        <4>3. d \in [Sems -> Int]
          BY <3>2, <3>3, <4>2
        <4> QED
          BY <1>0, <4>1, <4>3
      <3> QED
        BY <3>2, <3>4, <3>5
    <2> QED
      BY <2>1, <2>2
  <1> QED
    BY <1>0, <1>5, <1>6, <1>7, <1>8, <1>9, KindsOfSteps DEF Still, sems

(***************************************************************************)
(* The producers and consumers of les_pc.c.                                *)
(***************************************************************************)
\* The three semaphores with these values.
Three(bin, full, empty) == [s \in 0 .. 2 |-> IF s = 0 THEN bin ELSE IF s = 1 THEN full ELSE empty]

\* Its arrays, of two operations each.
LEMMA LesNet ==
    ASSUME program = "les_pc", NEW b \in Nat, NEW f \in Nat, NEW e \in Nat, sem = Three(b, f, e)
    PROVE  LET ops == prog.ops
               after(array) == Values(sem, array)[Len(array)]
           IN  /\ CanSemop(ops.start_produce) => e > 0 /\ b > 0
               /\ after(ops.start_produce) = Three(b - 1, f, e - 1)
               /\ after(ops.stop_produce) = Three(b + 1, f + 1, e)
               /\ CanSemop(ops.start_consume) => f > 0 /\ b > 0
               /\ after(ops.start_consume) = Three(b - 1, f - 1, e)
               /\ after(ops.stop_consume) = Three(b + 1, f, e + 1)
  <1> DEFINE S == 0 .. 2
             sp == les_pc_ops.start_produce
             ep == les_pc_ops.stop_produce
             sc == les_pc_ops.start_consume
             ec == les_pc_ops.stop_consume
  <1>0. prog.ops = les_pc_ops
    BY LesParts
  <1>1. /\ sem \in [S -> Int] /\ sem[0] = b /\ sem[1] = f /\ sem[2] = e
    BY DEF Three
  <1>2. /\ sp[1] = Sembuf(2, -1) /\ sp[2] = Sembuf(0, -1)
        /\ ep[1] = Sembuf(0, 1) /\ ep[2] = Sembuf(1, 1)
        /\ sc[1] = Sembuf(1, -1) /\ sc[2] = Sembuf(0, -1)
        /\ ec[1] = Sembuf(0, 1) /\ ec[2] = Sembuf(2, 1)
    BY DEF les_pc_ops, P, V
  <1>3. IsArray(sp, 2, S) /\ IsArray(ep, 2, S) /\ IsArray(sc, 2, S) /\ IsArray(ec, 2, S)
    BY DEF IsArray, les_pc_ops, P, V, Operations, Sembuf
  <1>4. Len(sp) = 2 /\ Len(ep) = 2 /\ Len(sc) = 2 /\ Len(ec) = 2
    BY DEF les_pc_ops
  <1> HIDE DEF sp, ep, sc, ec
  <1>5. /\ Three(b - 1, f, e - 1) \in [S -> Int] /\ Three(b + 1, f + 1, e) \in [S -> Int]
        /\ Three(b - 1, f - 1, e) \in [S -> Int] /\ Three(b + 1, f, e + 1) \in [S -> Int]
    BY DEF Three
  <1>6. /\ \A s \in S : Three(b - 1, f, e - 1)[s] = sem[s] + Total(sp, 2, s)
        /\ \A s \in S : Three(b + 1, f + 1, e)[s] = sem[s] + Total(ep, 2, s)
    BY <1>1, <1>2 DEF Three, Total, Added, Sembuf
  <1>7. /\ \A s \in S : Three(b - 1, f - 1, e)[s] = sem[s] + Total(sc, 2, s)
        /\ \A s \in S : Three(b + 1, f, e + 1)[s] = sem[s] + Total(ec, 2, s)
    BY <1>1, <1>2 DEF Three, Total, Added, Sembuf
  <1> HIDE DEF S
  <1>8. /\ Values(sem, sp)[2] = Three(b - 1, f, e - 1)
        /\ CanSemop(sp) => \A n \in 1 .. 2 :
               (\A m \in 1 .. n - 1 : sp[m].num # sp[n].num) => Ready(sem, sp[n])
    <2> DEFINE v == Three(b - 1, f, e - 1)
    <2>1. sem \in [S -> Int] /\ IsArray(sp, 2, S) /\ v \in [S -> Int]
          /\ \A s \in S : v[s] = sem[s] + Total(sp, 2, s)
      BY <1>1, <1>3, <1>5, <1>6
    <2> HIDE DEF v
    <2>2. Values(sem, sp)[2] = v
      BY <2>1, ArrayNet
    <2>3. CanSemop(sp) => \A n \in 1 .. 2 :
               (\A m \in 1 .. n - 1 : sp[m].num # sp[n].num) => Ready(sem, sp[n])
      BY <2>1, ArrayNet
    <2> QED
      BY <2>2, <2>3 DEF v
  <1>9. /\ Values(sem, sc)[2] = Three(b - 1, f - 1, e)
        /\ CanSemop(sc) => \A n \in 1 .. 2 :
               (\A m \in 1 .. n - 1 : sc[m].num # sc[n].num) => Ready(sem, sc[n])
    <2> DEFINE v == Three(b - 1, f - 1, e)
    <2>1. sem \in [S -> Int] /\ IsArray(sc, 2, S) /\ v \in [S -> Int]
          /\ \A s \in S : v[s] = sem[s] + Total(sc, 2, s)
      BY <1>1, <1>3, <1>5, <1>7
    <2> HIDE DEF v
    <2>2. Values(sem, sc)[2] = v
      BY <2>1, ArrayNet
    <2>3. CanSemop(sc) => \A n \in 1 .. 2 :
               (\A m \in 1 .. n - 1 : sc[m].num # sc[n].num) => Ready(sem, sc[n])
      BY <2>1, ArrayNet
    <2> QED
      BY <2>2, <2>3 DEF v
  <1>10. Values(sem, ep)[2] = Three(b + 1, f + 1, e)
    BY <1>1, <1>3, <1>5, <1>6, ArrayNet
  <1>11. Values(sem, ec)[2] = Three(b + 1, f, e + 1)
    BY <1>1, <1>3, <1>5, <1>7, ArrayNet
  <1>12. CanSemop(sp) => e > 0 /\ b > 0
    <2>1. CanSemop(sp) => /\ (\A m \in 1 .. 1 - 1 : sp[m].num # sp[1].num) => Ready(sem, sp[1])
                          /\ (\A m \in 1 .. 2 - 1 : sp[m].num # sp[2].num) => Ready(sem, sp[2])
      BY <1>8
    <2> QED
      BY <1>1, <1>2, <2>1 DEF Ready, Sembuf
  <1>13. CanSemop(sc) => f > 0 /\ b > 0
    <2>1. CanSemop(sc) => /\ (\A m \in 1 .. 1 - 1 : sc[m].num # sc[1].num) => Ready(sem, sc[1])
                          /\ (\A m \in 1 .. 2 - 1 : sc[m].num # sc[2].num) => Ready(sem, sc[2])
      BY <1>9
    <2> QED
      BY <1>1, <1>2, <2>1 DEF Ready, Sembuf
  <1> QED
    BY <1>0, <1>4, <1>8, <1>9, <1>10, <1>11, <1>12, <1>13 DEF sp, ep, sc, ec

\* The letter that is stored after k others.
LEMMA LetterAfter ==
    ASSUME NEW k \in 0 .. 3 * NLetters
    PROVE  k % NLetters = IF k < NLetters THEN k ELSE IF k < 2 * NLetters THEN k - NLetters
                          ELSE IF k < 3 * NLetters THEN k - 2 * NLetters ELSE 0
  <1>0. NLetters \in Nat \ {0}
    BY DraftsAssumption
  <1>1. ASSUME NEW N \in Nat \ {0}, NEW q \in Int, NEW r \in 0 .. N - 1
        PROVE  (N * q + r) % N = r
    OBVIOUS
  <1>2. CASE k < NLetters
    <2>1. k \in 0 .. NLetters - 1 /\ k = NLetters * 0 + k
      BY <1>0, <1>2
    <2>2. (NLetters * 0 + k) % NLetters = k
      BY <1>0, <1>1, <2>1
    <2> QED
      BY <1>2, <2>1, <2>2
  <1>3. CASE NLetters <= k /\ k < 2 * NLetters
    <2>1. k - NLetters \in 0 .. NLetters - 1 /\ k = NLetters * 1 + (k - NLetters)
      BY <1>0, <1>3
    <2>2. (NLetters * 1 + (k - NLetters)) % NLetters = k - NLetters
      BY <1>0, <1>1, <2>1
    <2> QED
      BY <1>0, <1>3, <2>1, <2>2
  <1>4. CASE 2 * NLetters <= k /\ k < 3 * NLetters
    <2>1. k - 2 * NLetters \in 0 .. NLetters - 1 /\ k = NLetters * 2 + (k - 2 * NLetters)
      BY <1>0, <1>4
    <2>2. (NLetters * 2 + (k - 2 * NLetters)) % NLetters = k - 2 * NLetters
      BY <1>0, <1>1, <2>1
    <2> QED
      BY <1>0, <1>4, <2>1, <2>2
  <1>5. CASE k = 3 * NLetters
    <2>1. 0 \in 0 .. NLetters - 1 /\ k = NLetters * 3 + 0
      BY <1>0, <1>5
    <2>2. (NLetters * 3 + 0) % NLetters = 0
      BY <1>0, <1>1, <2>1
    <2> QED
      BY <1>0, <1>5, <2>1, <2>2
  <1> QED
    BY <1>0, <1>2, <1>3, <1>4, <1>5

Buffered == Producing \cup Consuming

\* Who is in the buffer is of the kind whose loop has the place.
LEMMA LesRoles ==
    ASSUME TypeOK, PlacesInv, program = "les_pc", NEW p \in Children
    PROVE  /\ pc[p] \in Producing => p \in Writers
           /\ pc[p] \in Consuming => p \in Readers /\ p \notin Writers
           /\ pc[p] \in Stopping => pc[p] \in {"stop_produce", "stop_consume"}
           /\ pc[p] \notin {"read", "load", "store"}
  <1>1. pc[p] \in (IF p \in Writers THEN {"sleep", "P", "put", "advance", "stop_produce"}
                   ELSE {"sleep", "P", "take", "stop_consume"}) \cup {"unborn", "loop", "eintr", "gone"}
    BY LoopPlaces DEF PlacesInv, TypeOK
  <1>2. p \notin Writers => p \in Readers
    BY DEF Children, Writers, Readers
  <1> QED
    BY <1>1, <1>2 DEF Producing, Consuming, Stopping

\* What Stored says when at most p is in the buffer.
StoredWith(k, p) ==
    /\ takes <= k
    /\ cell[-1] = k % NLetters /\ ptr_prod = PlaceOf(k)
    /\ Wild <=> k > 2 * NLetters \/ (k = 2 * NLetters /\ pc[p] = "advance")
    /\ ~Wild => \A i \in 0 .. NLetters - 1 :
          cell[i] = CellAfter(IF pc[p] = "advance" THEN k + 1 ELSE k, i)
    /\ \/ ptr_cons = PlaceOf(takes)
       \/ takes > NLetters /\ ptr_cons <= takes - 2 * NLetters - 2
    /\ sem[0] = 1 => sem[1] = k - takes /\ sem[2] = NLetters - (k - takes)
    /\ pc[p] \in {"put", "advance", "stop_consume"} =>
          sem[1] = k - takes /\ sem[2] = NLetters - (k - takes) - 1
    /\ pc[p] \in {"stop_produce", "take"} =>
          sem[1] = (k - takes) - 1 /\ sem[2] = NLetters - (k - takes)
    /\ pc[p] = "advance" => k < 3 * NLetters

LEMMA StoredIs ==
    ASSUME TypeOK, PlacesInv, program = "les_pc", NEW p \in Children, InBuffer \subseteq {p}, NEW k
    PROVE  Stored(k) <=> StoredWith(k, p)
  <1>1. \A q \in Children : pc[q] \in Buffered => q = p
    BY DEF InBuffer, Buffered
  <1>2. (\E q \in Writers : pc[q] = "advance") <=> pc[p] = "advance"
    BY <1>1, LesRoles DEF Buffered, Producing, Writers, Children
  <1>3. \A q \in Children : pc[q] \in {"put", "advance", "stop_consume", "stop_produce", "take"} => q = p
    BY <1>1 DEF Buffered, Producing, Consuming
  <1>4. ASSUME Stored(k) PROVE StoredWith(k, p)
    BY <1>2, <1>4 DEF Stored, StoredWith
  <1>5. ASSUME StoredWith(k, p) PROVE Stored(k)
    BY <1>2, <1>3, <1>5 DEF Stored, StoredWith
  <1> QED
    BY <1>4, <1>5

\* The places of les_pc.c after a step are also of its loops.
LEMMA StoredNext ==
    ASSUME TypeOK, PlacesInv, PlacesInv', program = "les_pc", program' = program,
           NEW p \in Children, InBuffer' \subseteq {p}, NEW k, StoredWith(k, p)'
    PROVE  Stored(k)'
  <1>0. prog' = prog /\ program \in Programs
    BY DEF prog, TypeOK
  <1>1. \A q \in Children : pc'[q] \in Buffered => q = p
    BY DEF InBuffer, Buffered
  <1>2. \A q \in Children : pc'[q] = "advance" => q \in Writers
    <2> SUFFICES ASSUME NEW q \in Children, pc'[q] = "advance" PROVE q \in Writers
      OBVIOUS
    <2>1. pc'[q] \in ToSet(loop(q)) \cup {"unborn", "loop", "eintr", "gone"}
      BY <1>0 DEF PlacesInv, loop
    <2> QED
      BY <1>0, <2>1, LoopPlaces
  <1>3. (\E q \in Writers : pc'[q] = "advance") <=> pc'[p] = "advance"
    BY <1>1, <1>2 DEF Buffered, Producing, Writers, Children
  <1>4. \A q \in Children : pc'[q] \in {"put", "advance", "stop_consume", "stop_produce", "take"} => q = p
    BY <1>1 DEF Buffered, Producing, Consuming
  <1> QED
    BY <1>3, <1>4 DEF Stored, StoredWith

\* The invariant after a step that leaves at most p in the buffer.
LEMMA BufferNext ==
    ASSUME TypeOK, PlacesInv, PlacesInv', program = "les_pc", program' = program,
           NEW p \in Children, \A q \in Children \ {p} : pc'[q] \notin Buffered,
           sem'[0] = IF pc'[p] \in Buffered THEN 0 ELSE 1,
           takes' <= 2 * NLetters, NEW k \in 0 .. 3 * NLetters, StoredWith(k, p)'
    PROVE  BufferInv'
  <1>1. InBuffer' = IF pc'[p] \in Buffered THEN {p} ELSE {}
    BY DEF InBuffer, Buffered
  <1>2. Stored(k)'
    BY <1>1, StoredNext
  <1> QED
    BY <1>1, <1>2 DEF BufferInv

\* Nobody else is in the buffer of a child that is.
LEMMA AloneInBuffer ==
    ASSUME TypeOK, PlacesInv, BufferInv, program = "les_pc", NEW p \in Children,
           pc[p] \in Buffered \/ (sem[0] # 0)
    PROVE  /\ \A q \in Children \ {p} : pc[q] \notin Buffered
           /\ pc[p] \in Buffered <=> sem[0] = 0
           /\ sem[0] \in {0, 1} /\ takes <= 2 * NLetters
           /\ \E k \in 0 .. 3 * NLetters : StoredWith(k, p)
  <1>1. \A q \in Children : pc[q] \in Buffered <=> q \in InBuffer
    BY DEF InBuffer, Buffered
  <1>2. /\ sem[0] \in {0, 1} /\ takes <= 2 * NLetters
        /\ \A q \in InBuffer : InBuffer = {q} /\ sem[0] = 0
    BY DEF BufferInv
  <1>3. InBuffer \subseteq {p}
    BY <1>1, <1>2
  <1>4. PICK k \in 0 .. 3 * NLetters : Stored(k)
    BY <1>1, <1>2 DEF BufferInv
  <1>5. StoredWith(k, p)
    BY <1>3, <1>4, StoredIs
  <1> QED
    BY <1>1, <1>2, <1>3, <1>5

\* A step outside the buffer.
LEMMA KeepsBuffer ==
    ASSUME BufferInv, program' = program, sem' = sem, UNCHANGED les,
           \A q \in Children : pc[q] \in Buffered \/ pc'[q] \in Buffered => pc'[q] = pc[q]
    PROVE  BufferInv'
  <1>1. InBuffer' = InBuffer
    BY DEF InBuffer, Buffered
  <1>2. \A k : Stored(k) => Stored(k)'
    <2>1. \A q \in Children : pc'[q] = "advance" <=> pc[q] = "advance"
      BY DEF Buffered, Producing
    <2>2. (\E q \in Writers : pc'[q] = "advance") <=> (\E q \in Writers : pc[q] = "advance")
      BY <2>1 DEF Writers, Children
    <2>3. \A q \in Children : pc'[q] \in {"put", "advance", "stop_consume", "stop_produce", "take"} => pc'[q] = pc[q]
      BY DEF Buffered, Producing, Consuming
    <2> QED
      BY <2>2, <2>3 DEF Stored, Wild, les
  <1> QED
    BY <1>1, <1>2 DEF BufferInv, les

\* A child ends, in the buffer or not.
LEMMA EndsBuffer ==
    ASSUME TypeOK, PlacesInv, AdjInv, BufferInv, program = "les_pc", program' = program,
           NEW p \in Children, ComesToNothing(p)
    PROVE  BufferInv'
  <1>0. /\ \A q \in Children : pc'[q] = IF q = p THEN "gone" ELSE pc[q]
        /\ UNCHANGED les /\ "gone" \notin Buffered
    BY DEF ComesToNothing, SemUndo, Goto, TypeOK, GroupTypeOK, shm, Buffered, Producing, Consuming
  <1>1. sem' = sem
    BY LesParts, UndoNothing DEF ComesToNothing, Dies, SemUndo
  <1>2. CASE pc[p] \in Buffered
    <2>1. sem[0] = 0 /\ \A q \in Children \ {p} : pc[q] \notin Buffered
      BY <1>2, AloneInBuffer
    <2>2. InBuffer' = {}
      BY <1>0, <2>1 DEF InBuffer, Buffered
    <2> QED
      BY <1>0, <1>1, <2>1, <2>2 DEF BufferInv, les
  <1>3. CASE pc[p] \notin Buffered
    BY <1>0, <1>1, <1>3, KeepsBuffer
  <1> QED
    BY <1>2, <1>3

\* A child's first semop takes BIN_SEM and a cell, its second gives them back.
LEMMA SemopsBuffer ==
    ASSUME TypeOK, PlacesInv, PlacesInv', BufferInv, program = "les_pc", program' = program,
           NEW p \in Children, Semops(p)
    PROVE  BufferInv' /\ sem' \in [Sems -> Nat]
  <1> DEFINE b == sem[0]
             f == sem[1]
             e == sem[2]
             to == NextPlace(p)
  <1>0. /\ \A q \in Children : pc'[q] = IF q = p THEN to ELSE pc[q]
        /\ UNCHANGED les
    <2>1. Goto(p, to)
      BY WorkMoves
    <2>2. UNCHANGED les
      BY DEF Semops, Start, Stop, shm
    <2> QED
      BY <2>1, <2>2 DEF Goto, TypeOK, GroupTypeOK
  <1>1. /\ Sems = 0 .. 2 /\ b \in Nat /\ f \in Nat /\ e \in Nat /\ sem = Three(b, f, e)
    BY LesParts DEF TypeOK, Three
  <1> HIDE DEF b, f, e
  <1>2. LET ops == prog.ops
            after(array) == Values(sem, array)[Len(array)]
        IN  /\ CanSemop(ops.start_produce) => e > 0 /\ b > 0
            /\ after(ops.start_produce) = Three(b - 1, f, e - 1)
            /\ after(ops.stop_produce) = Three(b + 1, f + 1, e)
            /\ CanSemop(ops.start_consume) => f > 0 /\ b > 0
            /\ after(ops.start_consume) = Three(b - 1, f - 1, e)
            /\ after(ops.stop_consume) = Three(b + 1, f, e + 1)
    BY <1>1, LesNet
  <1>3. ASSUME NEW k, StoredWith(k, p), NEW bb, NEW ff, NEW ee, sem' = Three(bb, ff, ee),
               to # "advance", pc[p] # "advance",
               bb = 1 => ff = k - takes /\ ee = NLetters - (k - takes),
               to \in {"put", "stop_consume"} => ff = k - takes /\ ee = NLetters - (k - takes) - 1,
               to \in {"stop_produce", "take"} => ff = (k - takes) - 1 /\ ee = NLetters - (k - takes)
        PROVE  StoredWith(k, p)'
    <2>1. sem'[0] = bb /\ sem'[1] = ff /\ sem'[2] = ee
      BY <1>3 DEF Three
    <2>2. pc'[p] = to
      BY <1>0
    <2>3. UNCHANGED <<cell, ptr_prod, ptr_cons, takes>>
      BY <1>0 DEF les
    <2> QED
      BY <1>3, <2>1, <2>2, <2>3 DEF StoredWith, Wild
  <1>4. ASSUME b = 1 \/ pc[p] \in Buffered
        PROVE  /\ \A q \in Children \ {p} : pc'[q] \notin Buffered
               /\ pc[p] \in Buffered <=> b = 0
               /\ b \in {0, 1}
               /\ \E k \in 0 .. 3 * NLetters : StoredWith(k, p)
    <2>1. pc[p] \in Buffered \/ (sem[0] # 0)
      BY <1>4 DEF b
    <2> QED
      BY <1>0, <2>1, AloneInBuffer DEF b
  <1>5. b \in {0, 1}
    BY DEF BufferInv, b
  <1>6. ASSUME NEW k \in 0 .. 3 * NLetters, StoredWith(k, p)', \A q \in Children \ {p} : pc'[q] \notin Buffered,
               sem'[0] = IF to \in Buffered THEN 0 ELSE 1
        PROVE  BufferInv'
    <2>1. pc'[p] = to /\ takes' <= 2 * NLetters
      BY <1>0 DEF BufferInv, les
    <2> QED
      BY <1>6, <2>1, BufferNext
  <1>7. NLetters \in Nat /\ takes \in Nat
    BY DraftsAssumption DEF TypeOK
  <1>8. \A x, y, v \in Nat : Three(x, y, v) \in [Sems -> Nat] /\ Three(x, y, v)[0] = x
    BY <1>1 DEF Three
  <1>9. CASE Start(p) /\ p \in Writers
    <2>1. pc[p] = "P" /\ start_of(p) = prog.ops.start_produce /\ Semop(p, start_of(p)) /\ to = "put"
      BY <1>9, LesParts DEF Start, start_of, NextPlace
    <2>2. b > 0 /\ e > 0 /\ sem' = Three(b - 1, f, e - 1)
      BY <1>2, <2>1 DEF Semop
    <2>3. b = 1
      BY <1>5, <2>2
    <2>4. PICK k \in 0 .. 3 * NLetters : StoredWith(k, p)
      BY <1>4, <2>3
    <2>5. f = k - takes /\ e = NLetters - (k - takes)
      BY <2>3, <2>4 DEF StoredWith, b, f, e
    <2>6. StoredWith(k, p)'
      BY <1>3, <2>1, <2>2, <2>3, <2>4, <2>5
    <2>7. sem'[0] = 0 /\ sem' \in [Sems -> Nat]
      <3>1. b - 1 = 0 /\ b - 1 \in Nat /\ e - 1 \in Nat
        BY <1>1, <2>2, <2>3
      <3> QED
        BY <1>1, <1>8, <2>2, <3>1
    <2>8. to \in Buffered
      BY <2>1 DEF Buffered, Producing
    <2> QED
      BY <1>4, <1>6, <2>3, <2>4, <2>6, <2>7, <2>8
  <1>10. CASE Start(p) /\ p \notin Writers
    <2>1. pc[p] = "P" /\ start_of(p) = prog.ops.start_consume /\ Semop(p, start_of(p)) /\ to = "take"
      BY <1>10, LesParts DEF Start, start_of, NextPlace
    <2>2. b > 0 /\ f > 0 /\ sem' = Three(b - 1, f - 1, e)
      BY <1>2, <2>1 DEF Semop
    <2>3. b = 1
      BY <1>5, <2>2
    <2>4. PICK k \in 0 .. 3 * NLetters : StoredWith(k, p)
      BY <1>4, <2>3
    <2>5. f = k - takes /\ e = NLetters - (k - takes)
      BY <2>3, <2>4 DEF StoredWith, b, f, e
    <2>6. StoredWith(k, p)'
      BY <1>3, <2>1, <2>2, <2>3, <2>4, <2>5
    <2>7. sem'[0] = 0 /\ sem' \in [Sems -> Nat]
      <3>1. b - 1 = 0 /\ b - 1 \in Nat /\ f - 1 \in Nat
        BY <1>1, <2>2, <2>3
      <3> QED
        BY <1>1, <1>8, <2>2, <3>1
    <2>8. to \in Buffered
      BY <2>1 DEF Buffered, Consuming
    <2> QED
      BY <1>4, <1>6, <2>3, <2>4, <2>6, <2>7, <2>8
  <1>11. CASE Stop(p)
    <2>1. /\ pc[p] \in {"stop_produce", "stop_consume"} /\ to = "loop"
          /\ sem' = Values(sem, prog.ops[pc[p]])[Len(prog.ops[pc[p]])]
      BY <1>11, LesRoles DEF Stop, Semop, NextPlace
    <2>2. pc[p] \in Buffered /\ to \notin Buffered
      BY <2>1 DEF Buffered, Producing, Consuming
    <2>3. b = 0
      BY <1>4, <2>2
    <2>4. PICK k \in 0 .. 3 * NLetters : StoredWith(k, p)
      BY <1>4, <2>2
    <2>5. \E ff, ee \in Nat : sem' = Three(b + 1, ff, ee) /\ ff = k - takes /\ ee = NLetters - (k - takes)
      <3>1. CASE pc[p] = "stop_produce"
        <4>1. f = (k - takes) - 1 /\ e = NLetters - (k - takes)
          BY <2>4, <3>1 DEF StoredWith, f, e
        <4>2. sem' = Three(b + 1, f + 1, e)
          BY <1>2, <2>1, <3>1
        <4>3. f + 1 = k - takes /\ f + 1 \in Nat
          BY <1>1, <1>7, <4>1
        <4> QED
          BY <1>1, <4>1, <4>2, <4>3
      <3>2. CASE pc[p] = "stop_consume"
        <4>1. f = k - takes /\ e = NLetters - (k - takes) - 1
          BY <2>4, <3>2 DEF StoredWith, f, e
        <4>2. sem' = Three(b + 1, f, e + 1)
          BY <1>2, <2>1, <3>2
        <4>3. e + 1 = NLetters - (k - takes) /\ e + 1 \in Nat
          BY <1>1, <1>7, <4>1
        <4> QED
          BY <1>1, <4>1, <4>2, <4>3
      <3> QED
        BY <2>1, <3>1, <3>2
    <2>6. PICK ff, ee \in Nat : sem' = Three(b + 1, ff, ee) /\ ff = k - takes /\ ee = NLetters - (k - takes)
      BY <2>5
    <2>7. StoredWith(k, p)'
      <3>1. to \notin {"put", "stop_consume", "stop_produce", "take", "advance"} /\ pc[p] # "advance"
        BY <2>1
      <3> QED
        BY <1>3, <2>4, <2>6, <3>1
    <2>8. sem'[0] = 1 /\ sem' \in [Sems -> Nat]
      <3>1. b + 1 = 1 /\ b + 1 \in Nat
        BY <2>3
      <3> QED
        BY <1>8, <2>6, <3>1
    <2> QED
      BY <1>4, <1>6, <2>2, <2>4, <2>7, <2>8
  <1> QED
    BY <1>9, <1>10, <1>11 DEF Semops

\* What a consumer finds where *ptr_cons points, when k letters were stored.
LEMMA Found ==
    ASSUME TypeOK, NEW p, pc[p] = "take", NEW k \in 0 .. 3 * NLetters, StoredWith(k, p)
    PROVE  /\ takes < k /\ k <= takes + NLetters
           /\ Wild <=> k > 2 * NLetters
           /\ ~Wild => IF ptr_cons \in DOMAIN cell
                       THEN /\ ptr_cons = PlaceOf(takes)
                            /\ cell[ptr_cons] = IF takes = NLetters THEN cell[-1]
                                                ELSE IF takes < NLetters THEN takes ELSE takes - NLetters
                       ELSE takes > NLetters /\ ptr_cons <= takes - 2 * NLetters - 2
  <1>0. /\ NLetters \in Nat \ {0} /\ takes \in Nat /\ ptr_cons \in Int
        /\ DOMAIN cell = -2 .. NLetters - 1
    BY DraftsAssumption DEF TypeOK
  <1>1. sem[1] \in Nat /\ sem[2] \in Nat
    <2>1. program = "les_pc" => 1 \in Sems /\ 2 \in Sems
      BY LesParts
    <2>2. program # "les_pc" => 1 \in Sems /\ 2 \in Sems
      BY LockParts, DraftsAssumption DEF TypeOK, LockPrograms
    <2> QED
      BY <2>1, <2>2 DEF TypeOK
  <1>2. /\ sem[1] = (k - takes) - 1 /\ sem[2] = NLetters - (k - takes)
        /\ Wild <=> k > 2 * NLetters
        /\ ~Wild => \A i \in 0 .. NLetters - 1 : cell[i] = CellAfter(k, i)
        /\ ptr_cons = PlaceOf(takes) \/ (takes > NLetters /\ ptr_cons <= takes - 2 * NLetters - 2)
    BY DEF StoredWith
  <1>3. takes < k /\ k <= takes + NLetters
    BY <1>0, <1>1, <1>2
  <1>4. ASSUME ~Wild, ptr_cons = PlaceOf(takes)
        PROVE  /\ ptr_cons \in DOMAIN cell
               /\ cell[ptr_cons] = IF takes = NLetters THEN cell[-1]
                                   ELSE IF takes < NLetters THEN takes ELSE takes - NLetters
    <2>0. k <= 2 * NLetters /\ takes < 2 * NLetters
      BY <1>0, <1>2, <1>3, <1>4
    <2>1. CASE takes < NLetters
      <3>1. ptr_cons = takes /\ takes \in 0 .. NLetters - 1
        BY <1>0, <1>4, <2>1 DEF PlaceOf
      <3>2. cell[ptr_cons] = CellAfter(k, takes)
        BY <1>2, <1>4, <3>1
      <3>3. CellAfter(k, takes) = takes
        BY <1>0, <1>3, <2>1 DEF CellAfter
      <3> QED
        BY <1>0, <2>1, <3>1, <3>2, <3>3
    <2>2. CASE takes = NLetters
      BY <1>0, <1>4, <2>2 DEF PlaceOf
    <2>3. CASE takes > NLetters
      <3>1. ptr_cons = takes - NLetters - 1 /\ takes - NLetters - 1 \in 0 .. NLetters - 1
        BY <1>0, <1>4, <2>0, <2>3 DEF PlaceOf
      <3>2. cell[ptr_cons] = CellAfter(k, takes - NLetters - 1)
        BY <1>2, <1>4, <3>1
      <3>3. (takes - NLetters - 1) + NLetters + 1 < k /\ (takes - NLetters - 1) + 1 = takes - NLetters
        BY <1>0, <1>3
      <3>4. cell[ptr_cons] = takes - NLetters
        BY <3>2, <3>3 DEF CellAfter
      <3> QED
        BY <1>0, <2>3, <3>1, <3>4
    <2> QED
      BY <1>0, <2>1, <2>2, <2>3
  <1>5. ASSUME ~Wild, ptr_cons # PlaceOf(takes)
        PROVE  /\ ptr_cons \notin DOMAIN cell
               /\ takes > NLetters /\ ptr_cons <= takes - 2 * NLetters - 2
    BY <1>0, <1>2, <1>3, <1>5
  <1> QED
    BY <1>2, <1>3, <1>4, <1>5

\* A child in the buffer stores a letter, goes on to the next, or takes one.
LEMMA WorksBuffer ==
    ASSUME TypeOK, PlacesInv, PlacesInv', BufferInv, program = "les_pc", program' = program,
           NEW p \in Children, Works(p)
    PROVE  BufferInv'
  <1> DEFINE to == NextPlace(p)
  <1>0. /\ \A q \in Children : pc'[q] = IF q = p THEN to ELSE pc[q]
        /\ sem' = sem /\ pc'[p] = to
    <2>1. Goto(p, to)
      BY WorkMoves
    <2>2. sem' = sem
      BY DEF Works, Read, Load, Store, Put, AdvanceProducer, Take, sems
    <2> QED
      BY <2>1, <2>2 DEF Goto, TypeOK, GroupTypeOK
  <1>1. Put(p) \/ AdvanceProducer(p) \/ Take(p)
    BY LesRoles DEF Works, Read, Load, Store
  <1>2. pc[p] \in Buffered /\ to \in Buffered
    BY <1>1 DEF Put, AdvanceProducer, Take, NextPlace, Buffered, Producing, Consuming
  <1>3. /\ \A q \in Children \ {p} : pc'[q] \notin Buffered
        /\ sem[0] = 0 /\ takes <= 2 * NLetters /\ \E k \in 0 .. 3 * NLetters : StoredWith(k, p)
    BY <1>0, <1>2, AloneInBuffer
  <1>4. PICK k \in 0 .. 3 * NLetters : StoredWith(k, p)
    BY <1>3
  <1>5. ASSUME NEW kk \in 0 .. 3 * NLetters, StoredWith(kk, p)', takes' <= 2 * NLetters PROVE BufferInv'
    BY <1>0, <1>2, <1>3, <1>5, BufferNext
  <1>6. /\ NLetters \in Nat \ {0} /\ takes \in Nat /\ ptr_prod \in Int /\ ptr_cons \in Int
        /\ cell \in [-2 .. NLetters - 1 -> Letters] /\ z = NLetters - 1 /\ a = 0 /\ NoLetter = -1
        /\ DOMAIN cell = -2 .. NLetters - 1
    BY DraftsAssumption DEF TypeOK, z, a, NoLetter
  <1>7. /\ takes <= k /\ cell[-1] = k % NLetters /\ ptr_prod = PlaceOf(k)
        /\ Wild <=> k > 2 * NLetters \/ (k = 2 * NLetters /\ pc[p] = "advance")
        /\ ~Wild => \A i \in 0 .. NLetters - 1 :
              cell[i] = CellAfter(IF pc[p] = "advance" THEN k + 1 ELSE k, i)
        /\ \/ ptr_cons = PlaceOf(takes)
           \/ takes > NLetters /\ ptr_cons <= takes - 2 * NLetters - 2
    BY <1>4 DEF StoredWith
  <1>8. k % NLetters = IF k < NLetters THEN k ELSE IF k < 2 * NLetters THEN k - NLetters
                       ELSE IF k < 3 * NLetters THEN k - 2 * NLetters ELSE 0
    BY LetterAfter
  <1>9. CASE Put(p)
    <2>1. /\ pc[p] = "put" /\ to = "advance"
          /\ cell' = [cell EXCEPT ![ptr_prod] = cell[-1]]
          /\ UNCHANGED <<ptr_prod, ptr_cons, takes>>
      BY <1>9 DEF Put, NextPlace
    <2>2. sem[1] = k - takes /\ sem[2] = NLetters - (k - takes) - 1
      BY <1>4, <2>1 DEF StoredWith
    <2>3. k < 3 * NLetters
      <3>1. sem[2] \in Nat
        BY LesParts DEF TypeOK
      <3> QED
        BY <1>3, <1>6, <2>2, <3>1
    <2>4. ptr_prod \in -2 .. NLetters - 1 /\ (ptr_prod = -2 <=> k = 2 * NLetters)
      <3>1. CASE k < NLetters
        BY <1>6, <1>7, <3>1 DEF PlaceOf
      <3>2. CASE NLetters <= k /\ k < 2 * NLetters
        <4>1. ptr_prod = k - NLetters - 1
          BY <1>6, <1>7, <3>2 DEF PlaceOf
        <4> QED
          BY <1>6, <3>2, <4>1
      <3>3. CASE 2 * NLetters <= k
        <4>1. ptr_prod = k - 2 * NLetters - 2
          BY <1>6, <1>7, <2>3, <3>3 DEF PlaceOf
        <4> QED
          BY <1>6, <2>3, <3>3, <4>1
      <3> QED
        BY <1>6, <3>1, <3>2, <3>3
    <2>5. \A i \in -2 .. NLetters - 1 : cell'[i] = IF i = ptr_prod THEN k % NLetters ELSE cell[i]
      BY <1>6, <1>7, <2>1, <2>4
    <2>6. cell'[-1] = k % NLetters /\ (Wild' <=> k >= 2 * NLetters)
      <3>1. -1 \in -2 .. NLetters - 1 /\ -2 \in -2 .. NLetters - 1
        BY <1>6
      <3>2. cell'[-1] = k % NLetters
        BY <1>7, <2>5, <3>1
      <3>3. cell'[-2] = IF k = 2 * NLetters THEN k % NLetters ELSE cell[-2]
        BY <2>4, <2>5, <3>1
      <3>4. CASE k = 2 * NLetters
        <4>1. k % NLetters = 0
          BY <1>6, <1>8, <2>3, <3>4
        <4> QED
          BY <1>6, <3>2, <3>3, <3>4, <4>1 DEF Wild
      <3>5. CASE k # 2 * NLetters
        <4>1. Wild' <=> Wild
          BY <3>3, <3>5 DEF Wild
        <4>2. Wild <=> k > 2 * NLetters
          BY <1>7, <2>1
        <4> QED
          BY <1>6, <3>2, <3>5, <4>1, <4>2
      <3> QED
        BY <3>4, <3>5
    <2>7. ASSUME ~Wild', NEW i \in 0 .. NLetters - 1 PROVE cell'[i] = CellAfter(k + 1, i)
      <3>0. k < 2 * NLetters /\ i \in -2 .. NLetters - 1
        BY <1>6, <2>6, <2>7
      <3>1. cell[i] = CellAfter(k, i)
        BY <1>6, <1>7, <2>1, <3>0
      <3>2. CASE i = ptr_prod
        <4>1. cell'[i] = k % NLetters
          BY <2>5, <3>0, <3>2
        <4>2. CASE k < NLetters
          <5>1. i = k /\ k % NLetters = k
            BY <1>7, <1>8, <3>2, <4>2 DEF PlaceOf
          <5> QED
            BY <1>6, <4>1, <5>1 DEF CellAfter
        <4>3. CASE k >= NLetters
          <5>1. i = k - NLetters - 1 /\ k % NLetters = k - NLetters
            BY <1>6, <1>7, <1>8, <3>0, <3>2, <4>3 DEF PlaceOf
          <5>2. i + NLetters + 1 < k + 1 /\ i + 1 = k - NLetters
            BY <1>6, <5>1
          <5>3. CellAfter(k + 1, i) = i + 1
            BY <5>2 DEF CellAfter
          <5> QED
            BY <4>1, <5>1, <5>2, <5>3
        <4> QED
          BY <1>6, <4>2, <4>3
      <3>3. CASE i # ptr_prod
        <4>1. cell'[i] = CellAfter(k, i)
          BY <2>5, <3>0, <3>1, <3>3
        <4>2. (i + NLetters + 1 < k + 1 <=> i + NLetters + 1 < k) /\ (i < k + 1 <=> i < k)
          <5>1. CASE k < NLetters
            BY <1>6, <1>7, <3>3, <5>1 DEF PlaceOf
          <5>2. CASE k >= NLetters
            <6>1. i # k - NLetters - 1
              BY <1>6, <1>7, <3>0, <3>3, <5>2 DEF PlaceOf
            <6> QED
              BY <1>6, <5>2, <6>1
          <5> QED
            BY <1>6, <5>1, <5>2
        <4> QED
          BY <4>1, <4>2 DEF CellAfter
      <3> QED
        BY <3>2, <3>3
    <2>8. Wild' <=> k > 2 * NLetters \/ (k = 2 * NLetters /\ to = "advance")
      BY <1>6, <2>1, <2>6
    <2>9. StoredWith(k, p)'
      BY <1>0, <1>3, <1>7, <2>1, <2>2, <2>3, <2>6, <2>7, <2>8 DEF StoredWith
    <2> QED
      BY <1>3, <1>5, <2>1, <2>9
  <1>10. CASE AdvanceProducer(p)
    <2>1. /\ pc[p] = "advance" /\ to = "stop_produce"
          /\ IF cell[-1] = z
             THEN ptr_prod' = ptr_prod - NLetters /\ cell' = [cell EXCEPT ![-1] = a]
             ELSE ptr_prod' = ptr_prod + 1 /\ cell' = [cell EXCEPT ![-1] = cell[-1] + 1]
          /\ UNCHANGED <<ptr_cons, takes>>
      BY <1>10 DEF AdvanceProducer, NextPlace
    <2>2. k < 3 * NLetters /\ sem[1] = k - takes /\ sem[2] = NLetters - (k - takes) - 1
      BY <1>4, <2>1 DEF StoredWith
    <2>3. k + 1 \in 0 .. 3 * NLetters
      BY <1>6, <2>2
    <2>4. (k + 1) % NLetters = IF k + 1 < NLetters THEN k + 1
                               ELSE IF k + 1 < 2 * NLetters THEN (k + 1) - NLetters
                               ELSE IF k + 1 < 3 * NLetters THEN (k + 1) - 2 * NLetters ELSE 0
      BY <2>3, LetterAfter
    <2>5. ptr_prod' = PlaceOf(k + 1)
      <3>1. CASE k < NLetters - 1
        BY <1>6, <1>7, <1>8, <2>1, <3>1 DEF PlaceOf
      <3>2. CASE k = NLetters - 1
        <4>1. ptr_prod' = k - NLetters
          BY <1>6, <1>7, <1>8, <2>1, <3>2 DEF PlaceOf
        <4>2. PlaceOf(k + 1) = (k + 1) - NLetters - 1
          BY <1>6, <3>2 DEF PlaceOf
        <4> QED
          BY <1>6, <4>1, <4>2
      <3>3. CASE NLetters <= k /\ k < 2 * NLetters - 1
        <4>1. ptr_prod' = (k - NLetters - 1) + 1
          BY <1>6, <1>7, <1>8, <2>1, <3>3 DEF PlaceOf
        <4>2. PlaceOf(k + 1) = (k + 1) - NLetters - 1
          BY <1>6, <3>3 DEF PlaceOf
        <4> QED
          BY <1>6, <4>1, <4>2
      <3>4. CASE k = 2 * NLetters - 1
        <4>1. ptr_prod' = (k - NLetters - 1) - NLetters
          BY <1>6, <1>7, <1>8, <2>1, <3>4 DEF PlaceOf
        <4>2. PlaceOf(k + 1) = -2
          BY <1>6, <3>4 DEF PlaceOf
        <4> QED
          BY <1>6, <3>4, <4>1, <4>2
      <3>5. CASE 2 * NLetters <= k /\ k < 3 * NLetters - 1
        <4>1. ptr_prod' = (k - 2 * NLetters - 2) + 1
          BY <1>6, <1>7, <1>8, <2>1, <3>5 DEF PlaceOf
        <4>2. PlaceOf(k + 1) = (k + 1) - 2 * NLetters - 2
          BY <1>6, <3>5 DEF PlaceOf
        <4> QED
          BY <1>6, <4>1, <4>2
      <3>6. CASE k = 3 * NLetters - 1
        <4>1. ptr_prod' = (k - 2 * NLetters - 2) - NLetters
          BY <1>6, <1>7, <1>8, <2>1, <3>6 DEF PlaceOf
        <4>2. PlaceOf(k + 1) = -3
          BY <1>6, <3>6 DEF PlaceOf
        <4> QED
          BY <1>6, <3>6, <4>1, <4>2
      <3> QED
        BY <1>6, <2>2, <3>1, <3>2, <3>3, <3>4, <3>5, <3>6
    <2>6. cell'[-1] = (k + 1) % NLetters /\ (Wild' <=> k + 1 > 2 * NLetters)
      <3>1. -1 \in DOMAIN cell /\ -2 \in DOMAIN cell
        BY <1>6
      <3>2. /\ cell'[-1] = IF cell[-1] = z THEN 0 ELSE cell[-1] + 1
            /\ cell'[-2] = cell[-2]
        BY <1>6, <2>1, <3>1
      <3>3. cell'[-1] = (k + 1) % NLetters
        BY <1>6, <1>7, <1>8, <2>2, <2>4, <3>2
      <3>4. Wild' <=> Wild
        BY <3>2 DEF Wild
      <3>5. Wild <=> k + 1 > 2 * NLetters
        BY <1>6, <1>7, <2>1
      <3> QED
        BY <3>3, <3>4, <3>5
    <2>7. ASSUME ~Wild', NEW i \in 0 .. NLetters - 1 PROVE cell'[i] = CellAfter(k + 1, i)
      <3>1. cell'[i] = cell[i]
        BY <1>6, <2>1
      <3>2. ~Wild
        BY <1>6, <1>7, <2>1, <2>6, <2>7
      <3> QED
        BY <1>7, <2>1, <3>1, <3>2
    <2>8. /\ takes <= k + 1 /\ sem[1] = ((k + 1) - takes) - 1
          /\ sem[2] = NLetters - ((k + 1) - takes)
      BY <1>6, <1>7, <2>2
    <2>9. StoredWith(k + 1, p)'
      BY <1>0, <1>3, <1>7, <2>1, <2>5, <2>6, <2>7, <2>8 DEF StoredWith
    <2> QED
      BY <1>3, <1>5, <2>1, <2>3, <2>9
  <1>11. CASE Take(p)
    <2>1. /\ pc[p] = "take" /\ to = "stop_consume" /\ ~Wild
          /\ \E byte : /\ byte = cell[ptr_cons] \/ ptr_cons \notin DOMAIN cell
                       /\ ptr_cons' = IF byte = z THEN ptr_cons - NLetters ELSE ptr_cons + 1
          /\ takes' = takes + 1
          /\ UNCHANGED <<cell, ptr_prod>>
      BY <1>11 DEF Take, NextPlace
    <2>2. takes < k /\ k <= takes + NLetters /\ k <= 2 * NLetters
      BY <1>4, <1>6, <2>1, Found
    <2>3. /\ sem[1] = k - takes' /\ sem[2] = NLetters - (k - takes') - 1
          /\ takes' <= k /\ takes' <= 2 * NLetters
      <3>1. sem[1] = (k - takes) - 1 /\ sem[2] = NLetters - (k - takes)
        BY <1>4, <2>1 DEF StoredWith
      <3> QED
        BY <1>6, <2>1, <2>2, <3>1
    <2>4. \/ ptr_cons' = PlaceOf(takes')
          \/ takes' > NLetters /\ ptr_cons' <= takes' - 2 * NLetters - 2
      <3>1. CASE ptr_cons \in DOMAIN cell
        <4>1. /\ ptr_cons = PlaceOf(takes)
              /\ cell[ptr_cons] = IF takes = NLetters THEN cell[-1]
                                  ELSE IF takes < NLetters THEN takes ELSE takes - NLetters
          BY <1>4, <2>1, <3>1, Found
        <4>2. ptr_cons' = IF cell[ptr_cons] = z THEN ptr_cons - NLetters ELSE ptr_cons + 1
          BY <2>1, <3>1
        <4>3. CASE takes < NLetters
          <5>1. ptr_cons = takes /\ cell[ptr_cons] = takes
            BY <1>6, <4>1, <4>3 DEF PlaceOf
          <5> QED
            BY <1>6, <2>1, <4>2, <4>3, <5>1 DEF PlaceOf
        <4>4. CASE takes = NLetters
          <5>1. ptr_cons = -1
            BY <1>6, <4>1, <4>4 DEF PlaceOf
          <5>2. CASE cell[ptr_cons] = z
            BY <1>6, <2>1, <4>2, <4>4, <5>1, <5>2
          <5>3. CASE cell[ptr_cons] # z
            <6>1. ptr_cons' = 0
              BY <4>2, <5>1, <5>3
            <6>2. NLetters # 1
              BY <1>6, <1>7, <1>8, <2>2, <4>4, <5>1, <5>3
            <6> QED
              BY <1>6, <2>1, <4>4, <6>1, <6>2 DEF PlaceOf
          <5> QED
            BY <5>2, <5>3
        <4>5. CASE takes > NLetters
          <5>1. ptr_cons = takes - NLetters - 1 /\ cell[ptr_cons] = takes - NLetters
            BY <1>6, <2>2, <4>1, <4>5 DEF PlaceOf
          <5>2. CASE takes = 2 * NLetters - 1
            <6>1. ptr_cons' = (takes - NLetters - 1) - NLetters
              BY <1>6, <4>2, <5>1, <5>2
            <6>2. takes' = 2 * NLetters /\ PlaceOf(2 * NLetters) = -2
              BY <1>6, <2>1, <5>2 DEF PlaceOf
            <6> QED
              BY <1>6, <5>2, <6>1, <6>2
          <5>3. CASE takes # 2 * NLetters - 1
            <6>1. ptr_cons' = (takes - NLetters - 1) + 1
              BY <1>6, <4>2, <5>1, <5>3
            <6>2. PlaceOf(takes + 1) = (takes + 1) - NLetters - 1
              BY <1>6, <2>2, <4>5, <5>3 DEF PlaceOf
            <6> QED
              BY <1>6, <2>1, <6>1, <6>2
          <5> QED
            BY <5>2, <5>3
        <4> QED
          BY <1>6, <4>3, <4>4, <4>5
      <3>2. CASE ptr_cons \notin DOMAIN cell
        <4>1. takes > NLetters /\ ptr_cons <= takes - 2 * NLetters - 2
          BY <1>4, <2>1, <3>2, Found
        <4>2. ptr_cons' = ptr_cons - NLetters \/ ptr_cons' = ptr_cons + 1
          BY <2>1
        <4> QED
          BY <1>6, <2>1, <4>1, <4>2
      <3> QED
        BY <3>1, <3>2
    <2>5. Wild' = Wild /\ cell'[-1] = k % NLetters /\ ptr_prod' = PlaceOf(k)
      BY <1>7, <2>1 DEF Wild
    <2>6. ~Wild' => \A i \in 0 .. NLetters - 1 : cell'[i] = CellAfter(k, i)
      BY <1>7, <2>1
    <2>7. Wild' <=> k > 2 * NLetters
      BY <1>7, <2>1, <2>5
    <2>8. StoredWith(k, p)'
      BY <1>0, <1>3, <2>1, <2>3, <2>4, <2>5, <2>6, <2>7 DEF StoredWith
    <2> QED
      BY <1>5, <2>3, <2>8
  <1> QED
    BY <1>1, <1>9, <1>10, <1>11

\* Every step keeps the invariant of the buffer.
LEMMA EveryBufferStep ==
    ASSUME TypeOK, PlacesInv, AdjInv, BufferInv, [Next]_vars
    PROVE  BufferInv'
  <1>0. program' = program /\ program \in Programs /\ PlacesInv'
    BY KindsOfSteps, PlacesStep DEF TypeOK
  <1>1. CASE program # "les_pc"
    <2>1. ASSUME NEW p \in Children, Works(p) PROVE takes' = takes
      <3>1. pc[p] # "take" /\ pc[p] # "put" /\ pc[p] # "advance"
        BY <1>0, <1>1, Roles, DraftsAssumption DEF LockPrograms
      <3> QED
        BY <2>1, <3>1 DEF Works, Read, Load, Store, Put, AdvanceProducer, Take, shm, les
    <2>2. takes' = takes
      BY <2>1, KindsOfSteps DEF Still, Shifts, ComesToNothing, SemUndo, Semops, Start, Stop, shm, les
    <2> QED
      BY <1>0, <1>1, <2>2 DEF BufferInv
  <1>2. CASE program = "les_pc"
    <2>1. CASE Still
      BY <1>0, <2>1, KeepsBuffer DEF Still, sems, shm
    <2>2. ASSUME NEW p \in Children, Shifts(p) PROVE BufferInv'
      <3>1. PICK to \in {"loop", "sleep", "P", "eintr"} : Goto(p, to)
        BY <2>2 DEF Shifts
      <3>2. \A q \in Children : pc'[q] = IF q = p THEN to ELSE pc[q]
        BY <3>1 DEF Goto, TypeOK, GroupTypeOK
      <3>3. pc[p] \notin Buffered /\ to \notin Buffered
        BY <2>2 DEF Shifts, Inside, Buffered, Producing, Consuming
      <3>4. sem' = sem /\ UNCHANGED les
        BY <2>2 DEF Shifts, sems, shm
      <3> QED
        BY <1>0, <3>2, <3>3, <3>4, KeepsBuffer
    <2> QED
      BY <1>0, <1>2, <2>1, <2>2, EndsBuffer, WorksBuffer, SemopsBuffer, KindsOfSteps
  <1> QED
    BY <1>1, <1>2

(***************************************************************************)
(* The group: types, and main's count of the ends.                         *)
(***************************************************************************)
\* Every step of a program is a step of the group; main of tmp_wr.c is told of
\* ends only.
LEMMA StepsOfGroup ==
    ASSUME TypeOK, PlacesInv, [Next]_vars
    PROVE  \/ \E p \in Children : ChildGroupStep(p) \/ Fork(p)
           \/ \E p \in Children : Wait(p) /\ (program = "tmp_wr" => report[p] = "exited")
           \/ OthersGroupStep \/ MainKilledBySigint \/ UNCHANGED group
  <1>1. ASSUME NEW p \in Children, ChildStep(p) PROVE ChildGroupStep(p)
    <2>0. Alive(p) /\ program \in Programs
      BY <1>1 DEF ChildStep, Running, TypeOK
    <2>1. ASSUME NEW to, Moves(p, to), to \notin {"unborn", "gone"} PROVE ChildGroupStep(p)
      BY <2>0, <2>1 DEF ChildGroupStep, GoesOn
    <2>2. ASSUME Quits(p) \/ QuitsInterrupted(p) PROVE ChildGroupStep(p)
      BY <2>0, <2>2 DEF ChildGroupStep, ComesToEnd
    <2>3. CASE LoopTest(p)
      <3>1. loop(p)[1] = "sleep"
        BY <2>0, LoopPlaces, LockParts, LesParts DEF loop
      <3> QED
        BY <2>1, <2>2, <2>3, <3>1 DEF LoopTest
    <2>4. CASE Interrupted(p) \/ SemopFails(p) \/ Segfaults(p)
      BY <2>2, <2>4 DEF Interrupted, SemopFails, Segfaults
    <2>5. CASE Handles(p)
      BY <2>5 DEF Handles, ChildGroupStep
    <2>6. CASE /\ Advances(p)
               /\ pc[p] \notin {"unborn", "loop", "eintr", "gone"}
      <3>1. pc[p] \in ToSet(loop(p))
        BY <2>6 DEF PlacesInv
      <3>2. Moves(p, NextPlace(p))
        BY <2>0, <2>6, <3>1, AdvancesTo
      <3>3. NextPlace(p) \notin {"unborn", "gone"}
        BY DEF NextPlace
      <3> QED
        BY <2>1, <3>2, <3>3
    <2>7. \/ Advances(p) /\ pc[p] \notin {"unborn", "loop", "eintr", "gone"}
          \/ LoopTest(p) \/ Interrupted(p) \/ SemopFails(p) \/ Segfaults(p) \/ Handles(p)
      BY <1>1 DEF ChildStep, Sleep, Start, Read, Load, Store, Put, AdvanceProducer, Take, Stop, Stopping
    <2> QED
      BY <2>3, <2>4, <2>5, <2>6, <2>7
  <1>2. CASE MainGoesOn
    <2>1. ASSUME NEW p \in Children, WaitNext(p)
          PROVE  Wait(p) /\ (program = "tmp_wr" => report[p] = "exited")
      <3>1. program = "tmp_wr" => prog.main.counts = {"exited"}
        BY DEF prog, AllPrograms, tmp_wr, tmp_wr_main
      <3> QED
        BY <2>1, <3>1 DEF WaitNext
    <2> QED
      BY <1>2, <2>1 DEF MainGoesOn, ForkNext, OthersGroupStep
  <1>3. CASE Environment
    <2>1. ASSUME NEW p \in Children, Killed(p) \/ KilledBySigint(p) PROVE ChildGroupStep(p)
      BY <2>1 DEF Killed, Sigkill, KilledBySigint, Running, ChildGroupStep, ComesToEnd
    <2>2. ASSUME NEW p \in Children, Sigstop(p, Waiting(p)) \/ Sigcont(p)
          PROVE  ChildGroupStep(p)
      BY <2>2 DEF ChildGroupStep, Waiting
    <2> QED
      BY <1>3, <2>1, <2>2 DEF Environment, OthersGroupStep
  <1>4. UNCHANGED vars => UNCHANGED group
    BY DEF vars
  <1> QED
    BY <1>1, <1>2, <1>3, <1>4 DEF Next

\* The group keeps its types.
LEMMA GroupTypeStep ==
    ASSUME TypeOK, PlacesInv, [Next]_vars
    PROVE  GroupTypeOK(Places)'
  <1>0. /\ GroupTypeOK(Places) /\ program \in Programs /\ program' = program /\ PlacesInv'
        /\ {"unborn", "loop", "sleep", "P", "eintr", "gone"} \subseteq Places
    BY KindsOfSteps, PlacesStep DEF TypeOK, Places
  <1>1. ASSUME NEW p \in Children, ChildGroupStep(p) PROVE GroupTypeOK(Places)'
    <2>1. CASE GoesOn(p)
      <3>1. PICK to : Moves(p, to)
        BY <2>1 DEF GoesOn
      <3>2. to \in Places
        <4>1. pc'[p] = to
          BY <1>0, <3>1 DEF Moves, Goto, GroupTypeOK
        <4>2. pc'[p] \in ToSet(loop(p)) \cup {"unborn", "loop", "eintr", "gone"}
          <5>1. loop(p)' = loop(p)
            BY <1>0 DEF loop, prog
          <5> QED
            BY <1>0, <5>1 DEF PlacesInv
        <4>3. ToSet(loop(p)) \subseteq Places
          BY <1>0, LoopPlaces DEF Places, Reading, Writing, Stopping
        <4> QED
          BY <1>0, <4>1, <4>2, <4>3
      <3> QED
        BY <1>0, <3>1, <3>2, GroupSteps
    <2>2. CASE ComesToEnd(p)
      BY <1>0, <2>2, GroupSteps DEF ComesToEnd
    <2>3. CASE ChildHandler(p) \/ Sigcont(p)
      BY <1>0, <2>3, GroupSteps
    <2>4. CASE \E w \in BOOLEAN : Sigstop(p, w)
      BY <1>0, <2>4, GroupSteps
    <2> QED
      BY <1>1, <2>1, <2>2, <2>3, <2>4 DEF ChildGroupStep
  <1>2. CASE \/ \E p \in Children : Fork(p) \/ Wait(p)
             \/ OthersGroupStep
    BY <1>0, <1>2, ParentSteps DEF OthersGroupStep, MainStep
  <1>3. CASE MainKilledBySigint
    BY <1>0, <1>3 DEF MainKilledBySigint, GroupTypeOK, env
  <1>4. CASE UNCHANGED group
    BY <1>0, <1>4 DEF group, GroupTypeOK
  <1> QED
    BY <1>1, <1>2, <1>3, <1>4, StepsOfGroup

\* Main's count stays bounded, and in tmp_wr.c, where ends only are counted, true.
LEMMA DraftsCountStep ==
    ASSUME TypeOK, PlacesInv, DraftsCountInv, [Next]_vars
    PROVE  DraftsCountInv'
  <1>0. program' = program /\ GroupTypeOK(Places)
    BY KindsOfSteps DEF TypeOK
  <1>1. ReportsTrue /\ CleanupAfterCount /\ MiscountBounded /\ (program = "tmp_wr" => EndsCounted)
    BY DEF DraftsCountInv, CountInv
  <1>2. ASSUME NEW p \in Children, ChildGroupStep(p) PROVE DraftsCountInv'
    <2>1. ReportsTrue' /\ Reaped' = Reaped /\ MiscountBounded' /\ UNCHANGED <<mpc, waited, removed>>
      BY <1>0, <1>1, <1>2, ChildCount
    <2>2. CleanupAfterCount'
      BY <1>1, <2>1 DEF CleanupAfterCount
    <2>3. EndsCounted => EndsCounted'
      BY <2>1 DEF EndsCounted
    <2> QED
      BY <1>0, <1>1, <2>1, <2>2, <2>3 DEF DraftsCountInv, CountInv
  <1>3. CASE OthersGroupStep \/ (\E p \in Children : Fork(p)) \/ UNCHANGED group
    <2>1. /\ ReportsTrue' /\ Reaped' = Reaped /\ CleanupAfterCount'
          /\ waited' = waited /\ MiscountBounded'
      BY <1>0, <1>1, <1>3, OthersCount
    <2>2. EndsCounted => EndsCounted'
      BY <2>1 DEF EndsCounted
    <2> QED
      BY <1>0, <1>1, <2>1, <2>2 DEF DraftsCountInv, CountInv
  <1>4. ASSUME NEW p \in Children, Wait(p), program = "tmp_wr" => report[p] = "exited"
        PROVE  DraftsCountInv'
    <2>1. /\ ReportsTrue' /\ CleanupAfterCount' /\ MiscountBounded'
          /\ EndsCounted /\ report[p] = "exited" => EndsCounted'
      BY <1>0, <1>1, <1>4, WaitCount
    <2> QED
      BY <1>0, <1>1, <1>4, <2>1 DEF DraftsCountInv, CountInv
  <1>5. CASE MainKilledBySigint
    <2>1. /\ mpc \in {"fork", "wait", "cleanup"} /\ mpc' = "failed"
          /\ UNCHANGED <<pc, stopped, report, waited, removed, stops>>
      BY <1>5 DEF MainKilledBySigint, env
    <2>2. Reaped' = Reaped /\ ToTellStopped' = ToTellStopped /\ ToTellContinued' = ToTellContinued
      BY <2>1 DEF Reaped, ToTellStopped, ToTellContinued
    <2>3. MiscountBounded' /\ (EndsCounted => EndsCounted')
      BY <1>1, <2>1, <2>2 DEF MiscountBounded, EndsCounted
    <2>4. ReportsTrue' /\ CleanupAfterCount'
      BY <1>1, <2>1 DEF ReportsTrue, CleanupAfterCount, Alive
    <2> QED
      BY <1>0, <1>1, <2>3, <2>4 DEF DraftsCountInv, CountInv
  <1> QED
    BY <1>2, <1>3, <1>4, <1>5, StepsOfGroup

(***************************************************************************)
(* The theorems.                                                           *)
(***************************************************************************)
\* The semaphores stay natural, and nobody changes them once removed.
LEMMA SemType ==
    ASSUME TypeOK, PlacesInv, AdjInv, LockInv, BufferInv, [Next]_vars
    PROVE  sem' \in [Sems -> Nat]
  <1>0. program' = program /\ program \in Programs /\ PlacesInv' /\ sem \in [Sems -> Nat]
    BY KindsOfSteps, PlacesStep DEF TypeOK
  <1>1. CASE program \in LockPrograms /\ ~removed'
    <2>1. LockInv'
      BY EveryLockStep DEF LockStep
    <2> DEFINE r == Cardinality(Holding(Reading))
               w == Cardinality(Holding(Writing))
    <2>2. r' \in Nat /\ w' \in {0, 1} /\ sem' = SemsWith(r, w)'
      <3>1. (program \in LockPrograms)'
        BY <1>0, <1>1 DEF LockPrograms
      <3>2. r' \in Nat /\ w' \in {0, 1}
        <4>1. IsFiniteSet(Holding(Reading)') /\ IsFiniteSet(Holding(Writing)')
          BY GroupAssumption, FS_Subset DEF Holding
        <4>2. Holding(Writing)' = {} \/ \E q : Holding(Writing)' = {q}
          BY <2>1, <3>1 DEF LockInv
        <4> QED
          BY <4>1, <4>2, FS_CardinalityType, FS_EmptySet, FS_Singleton
      <3> QED
        BY <1>1, <2>1, <3>1, <3>2 DEF LockInv
    <2>3. SemsWith(r, w)' = SemsWith(r', w')
      BY <1>0 DEF SemsWith
    <2> HIDE DEF r, w
    <2>4. SemsWith(r', w') \in [DOMAIN SemsWith(r', w') -> Nat]
      BY <2>2 DEF SemsWith
    <2>5. DOMAIN SemsWith(r', w') = Sems
      BY <1>1, LockParts
    <2> QED
      BY <2>2, <2>3, <2>4, <2>5
  <1>2. ASSUME NEW p \in Children, ComesToNothing(p), removed' PROVE sem' = sem
    BY <1>2 DEF ComesToNothing, SemUndo
  <1>3. ASSUME NEW p \in Children, Works(p) PROVE sem' = sem
    BY <1>3 DEF Works, Read, Load, Store, Put, AdvanceProducer, Take, sems
  <1>4. ASSUME NEW p \in Children, Semops(p) PROVE ~removed'
    BY <1>4 DEF Semops, Start, Stop, Semop, CanSemop
  <1>5. CASE removed'
    BY <1>0, <1>2, <1>3, <1>4, <1>5, KindsOfSteps DEF Still, Shifts, sems
  <1>6. CASE program = "les_pc"
    <2>1. ASSUME NEW p \in Children, ComesToNothing(p) PROVE sem' = sem
      BY <1>6, <2>1, LesParts, UndoNothing DEF ComesToNothing, Dies, SemUndo
    <2>2. ASSUME NEW p \in Children, Semops(p) PROVE sem' \in [Sems -> Nat]
      BY <1>0, <1>6, <2>2, SemopsBuffer
    <2> QED
      BY <1>0, <1>3, <2>1, <2>2, KindsOfSteps DEF Still, Shifts, sems
  <1> QED
    BY <1>0, <1>1, <1>5, <1>6, LoopPlaces, DraftsAssumption DEF LockPrograms

\* Every variable keeps its type.
LEMMA TypeStep ==
    ASSUME TypeOK, PlacesInv, AdjInv, LockInv, BufferInv, [Next]_vars
    PROVE  TypeOK'
  <1>0. /\ GroupTypeOK(Places)' /\ program' = program /\ program \in Programs
        /\ sem' \in [Sems -> Nat] /\ adj' \in [Children -> [Sems -> Int]]
    BY GroupTypeStep, KindsOfSteps, SemType, AdjStep DEF TypeOK
  <1>1. Sems' = Sems
    BY <1>0 DEF Sems, prog
  <1>2. /\ NLetters \in Nat \ {0} /\ z = NLetters - 1 /\ a = 0 /\ Letters = -1 .. z
        /\ prog.main.first \in {-1, 0}
    <2>1. prog.main.first \in {-1, 0}
      BY <1>0, LoopPlaces, LockParts, LesParts, DraftsAssumption DEF LockPrograms
    <2> QED
      BY <2>1, DraftsAssumption DEF z, a, Letters
  <1>3. /\ buf \in Letters /\ reg \in [Writers -> Letters] /\ cell \in [-2 .. z -> Letters]
        /\ ptr_prod \in Int /\ ptr_cons \in Int /\ takes \in Nat
        /\ died \in [Children -> Reading \cup Writing \cup {"none"}]
    BY <1>2 DEF TypeOK
  <1> DEFINE Memory == /\ reg' \in [Writers -> Letters] /\ cell' \in [-2 .. z -> Letters]
                       /\ ptr_prod' \in Int /\ ptr_cons' \in Int /\ takes' \in Nat
                       /\ buf' = buf \/ \E p \in Children : Store(p)
             Dead == died' \in [Children -> Reading \cup Writing \cup {"none"}]
  <1>4. ASSUME UNCHANGED shm PROVE Memory
    BY <1>3, <1>4 DEF shm, les
  <1>5. ASSUME Still PROVE Memory /\ Dead
    BY <1>3, <1>4, <1>5 DEF Still
  <1>6. ASSUME NEW p \in Children, Shifts(p) PROVE Memory /\ Dead
    BY <1>3, <1>4, <1>6 DEF Shifts
  <1>7. ASSUME NEW p \in Children, ComesToNothing(p) PROVE Memory /\ Dead
    <2>1. Memory
      BY <1>4, <1>7 DEF ComesToNothing, SemUndo
    <2>2. Dead
      BY <1>3, <1>7 DEF ComesToNothing, Dies
    <2> QED
      BY <2>1, <2>2
  <1>8. ASSUME NEW p \in Children, Works(p) PROVE Memory /\ Dead
    <2>0. Dead
      BY <1>3, <1>8 DEF Works
    <2>1. CASE Read(p)
      BY <1>4, <2>0, <2>1 DEF Read
    <2>2. CASE Load(p)
      BY <1>3, <2>0, <2>2 DEF Load, les
    <2>3. CASE Store(p)
      <3>1. prog.main.first \in Letters
        BY <1>2
      <3>2. reg' \in [Writers -> Letters]
        BY <1>3, <2>3, <3>1 DEF Store
      <3>3. UNCHANGED les
        BY <2>3 DEF Store
      <3>4. Memory
        BY <1>3, <2>3, <3>2, <3>3 DEF les
      <3> QED
        BY <2>0, <3>4
    <2>4. CASE Put(p)
      <3>1. cell[-1] \in Letters
        BY <1>2, <1>3
      <3> QED
        BY <1>3, <2>0, <2>4, <3>1 DEF Put
    <2>5. CASE AdvanceProducer(p)
      <3>1. cell[-1] \in -1 .. z
        BY <1>2, <1>3
      <3>2. cell' \in [-2 .. z -> Letters] /\ ptr_prod' \in Int
        <4>1. CASE cell[-1] = z
          <5>1. cell' = [cell EXCEPT ![-1] = a] /\ ptr_prod' = ptr_prod - NLetters
            BY <2>5, <4>1 DEF AdvanceProducer
          <5>2. a \in Letters
            BY <1>2
          <5> QED
            BY <1>2, <1>3, <5>1, <5>2
        <4>2. CASE cell[-1] # z
          <5>1. cell' = [cell EXCEPT ![-1] = @ + 1] /\ ptr_prod' = ptr_prod + 1
            BY <2>5, <4>2 DEF AdvanceProducer
          <5>2. cell[-1] + 1 \in Letters /\ -1 \in -2 .. z
            BY <1>2, <3>1, <4>2
          <5>3. cell' = [cell EXCEPT ![-1] = cell[-1] + 1]
            BY <1>3, <5>1, <5>2
          <5>4. cell' \in [-2 .. z -> Letters]
            BY <1>3, <5>2, <5>3
          <5>5. ptr_prod' \in Int
            BY <1>3, <5>1
          <5> QED
            BY <5>4, <5>5
        <4> QED
          BY <4>1, <4>2
      <3> QED
        BY <1>3, <2>0, <2>5, <3>2 DEF AdvanceProducer
    <2>6. CASE Take(p)
      <3>1. takes' = takes + 1 /\ (ptr_cons' = ptr_cons - NLetters \/ ptr_cons' = ptr_cons + 1)
        BY <2>6 DEF Take
      <3>2. ptr_cons' \in Int /\ takes' \in Nat
        BY <1>2, <1>3, <3>1
      <3> QED
        BY <1>3, <2>0, <2>6, <3>2 DEF Take
    <2> QED
      BY <1>8, <2>1, <2>2, <2>3, <2>4, <2>5, <2>6 DEF Works
  <1>9. ASSUME NEW p \in Children, Semops(p) PROVE Memory /\ Dead
    <2>1. Dead
      BY <1>3, <1>9 DEF Semops
    <2>2. UNCHANGED shm
      BY <1>9 DEF Semops, Start, Stop
    <2>3. Memory
      BY <1>4, <2>2
    <2> QED
      BY <2>1, <2>3
  <1>10. Memory /\ Dead
    <2> HIDE DEF Memory, Dead
    <2> QED
      BY <1>5, <1>6, <1>7, <1>8, <1>9, KindsOfSteps
  <1>11. buf' \in Letters
    <2>1. CASE program \in LockPrograms
      <3>1. LockInv'
        BY EveryLockStep DEF LockStep
      <3>2. buf' \in prog.main.first .. z
        BY <1>0, <2>1, <3>1 DEF LockInv, LockPrograms, prog
      <3> QED
        BY <1>2, <3>2
    <2>2. CASE program = "les_pc"
      <3>1. \A p \in Children : ~Store(p)
        BY <2>2, LesRoles DEF Store
      <3> QED
        BY <1>3, <1>10, <3>1
    <2> QED
      BY <1>0, <2>1, <2>2, LoopPlaces, DraftsAssumption DEF LockPrograms
  <1> QED
    BY <1>0, <1>1, <1>2, <1>10, <1>11 DEF TypeOK

\* The types hold at the start.
LEMMA TypeInit == ASSUME Init PROVE TypeOK
  <1>1. GroupTypeOK(Places)
    BY GroupInitType DEF Init, Places
  <1>2. /\ NLetters \in Nat \ {0} /\ z = NLetters - 1 /\ a = 0 /\ Letters = -1 .. z /\ NoLetter = -1
        /\ program \in Programs
    BY DraftsAssumption DEF Init, z, a, Letters, NoLetter
  <1>3. sem \in [Sems -> Nat] /\ prog.main.first \in {-1, 0}
    <2>1. CASE program \in LockPrograms
      <3>1. prog.sems = SemsWith(0, 0) /\ DOMAIN SemsWith(0, 0) = Sems /\ prog.main.first \in {-1, 0}
        BY <2>1, LockParts
      <3>2. SemsWith(0, 0) \in [DOMAIN SemsWith(0, 0) -> Nat]
        BY DEF SemsWith
      <3> QED
        BY <3>1, <3>2 DEF Init
    <2>2. CASE program = "les_pc"
      <3>1. sem = [s \in 0 .. 2 |-> IF s = 0 THEN 1 ELSE IF s = 1 THEN 0 ELSE NLetters]
        BY <2>2, LesParts DEF Init
      <3>2. sem \in [0 .. 2 -> Nat]
        BY <1>2, <3>1
      <3> QED
        BY <2>2, <3>2, LesParts
    <2> QED
      BY <1>2, <2>1, <2>2, DraftsAssumption DEF LockPrograms
  <1>4. adj \in [Children -> [Sems -> Int]]
    BY DEF Init
  <1>5. buf \in Letters /\ reg \in [Writers -> Letters]
    BY <1>2, <1>3 DEF Init
  <1>6. /\ cell \in [-2 .. NLetters - 1 -> Letters]
        /\ ptr_prod \in Int /\ ptr_cons \in Int /\ takes \in Nat
        /\ died \in [Children -> Reading \cup Writing \cup {"none"}]
    BY <1>2 DEF Init
  <1> QED
    BY <1>1, <1>2, <1>3, <1>4, <1>5, <1>6 DEF TypeOK

\* So does the invariant: nobody is inside and nothing is stored.
LEMMA DraftsInit == ASSUME Init, TypeOK PROVE DraftsInv
  <1>0. /\ program \in Programs /\ NLetters \in Nat \ {0} /\ z = NLetters - 1 /\ a = 0
        /\ \A p \in Children : pc[p] = "unborn" /\ died[p] = "none"
    BY DraftsAssumption DEF Init, GroupInit, z, a
  <1>1. PlacesInv
    BY <1>0 DEF PlacesInv
  <1>2. AdjInv
    <2> SUFFICES ASSUME NEW p \in Children PROVE adj[p] = Taken(p)
      BY DEF AdjInv
    <2>1. Taken(p) = [s \in Sems |-> IF prog.ops.undo THEN SemsWith(0, 0)[s] - SemsWith(0, 0)[s] ELSE 0]
      BY <1>0 DEF Taken, Reading, Writing
    <2>2. \A s \in Sems : prog.ops.undo => SemsWith(0, 0)[s] - SemsWith(0, 0)[s] = 0
      <3> SUFFICES ASSUME NEW s \in Sems, prog.ops.undo PROVE SemsWith(0, 0)[s] - SemsWith(0, 0)[s] = 0
        OBVIOUS
      <3>1. program \in LockPrograms
        BY <1>0, LesParts, DraftsAssumption DEF LockPrograms
      <3>2. SemsWith(0, 0) = sem /\ sem[s] \in Nat
        BY <3>1, LockParts DEF Init, TypeOK
      <3> QED
        BY <3>2
    <2>3. Taken(p) = [s \in Sems |-> 0]
      BY <2>1, <2>2
    <2> QED
      BY <2>3 DEF Init
  <1>3. LockInv
    <2> SUFFICES ASSUME program \in LockPrograms PROVE LockInv
      BY DEF LockInv
    <2>1. Holding(Writing) = {} /\ Holding(Reading) = {}
      BY <1>0 DEF Holding, Reading, Writing
    <2>2. sem = SemsWith(0, 0) /\ prog.main.first \in {-1, 0}
      BY LockParts DEF Init
    <2>3. sem = SemsWith(Cardinality(Holding(Reading)), Cardinality(Holding(Writing)))
      BY <2>1, <2>2, FS_EmptySet
    <2>4. \A p \in Writers : pc[p] # "store"
      BY <1>0 DEF Writers, Children
    <2>5. buf \in prog.main.first .. z
      BY <1>0, <2>2 DEF Init
    <2> QED
      BY <2>1, <2>3, <2>4, <2>5 DEF LockInv
  <1>4. BufferInv
    <2> SUFFICES ASSUME program = "les_pc" PROVE BufferInv
      BY DEF Init, BufferInv
    <2>1. sem[0] = 1 /\ sem[1] = 0 /\ sem[2] = NLetters
      BY LesParts DEF Init
    <2>2. InBuffer = {}
      BY <1>0 DEF InBuffer, Producing, Consuming
    <2>3. /\ takes = 0 /\ ptr_prod = 0 /\ ptr_cons = 0
          /\ cell = [i \in -2 .. NLetters - 1 |-> IF i = -1 THEN 0 ELSE NoLetter]
      BY <1>0 DEF Init
    <2>4. PlaceOf(0) = 0 /\ 0 % NLetters = 0 /\ \A i \in 0 .. NLetters - 1 : CellAfter(0, i) = NoLetter
      BY <1>0 DEF PlaceOf, CellAfter
    <2>5. cell[-1] = 0 /\ ~Wild /\ \A i \in 0 .. NLetters - 1 : cell[i] = NoLetter
      BY <1>0, <2>3 DEF Wild
    <2>6. ~ \E p \in Writers : pc[p] = "advance"
      BY <1>0 DEF Writers, Children
    <2>7. Stored(0)
      BY <1>0, <2>1, <2>3, <2>4, <2>5, <2>6 DEF Stored
    <2> QED
      BY <1>0, <2>1, <2>2, <2>3, <2>7 DEF BufferInv
  <1>5. DraftsCountInv
    BY CountInit DEF Init, DraftsCountInv
  <1> QED
    BY <1>1, <1>2, <1>3, <1>4, <1>5 DEF DraftsInv

\* Invariance: DraftsInv, from which the properties below follow, holds in every
\* state of each of the five programs, whatever dies, is stopped or interrupted.
THEOREM Invariance == Spec => [](TypeOK /\ DraftsInv)
  <1>1. Init => TypeOK /\ DraftsInv
    BY TypeInit, DraftsInit
  <1>2. TypeOK /\ DraftsInv /\ [Next]_vars => (TypeOK /\ DraftsInv)'
    <2> SUFFICES ASSUME TypeOK, DraftsInv, [Next]_vars PROVE (TypeOK /\ DraftsInv)'
      OBVIOUS
    <2>1. PlacesInv /\ AdjInv /\ LockInv /\ BufferInv /\ DraftsCountInv
      BY DEF DraftsInv
    <2>2. TypeOK'
      BY <2>1, TypeStep
    <2>3. PlacesInv'
      BY <2>1, PlacesStep
    <2>4. AdjInv'
      BY <2>1, AdjStep DEF AdjInv
    <2>5. LockInv'
      BY <2>1, EveryLockStep DEF LockStep
    <2>6. BufferInv'
      BY <2>1, EveryBufferStep
    <2>7. DraftsCountInv'
      BY <2>1, DraftsCountStep
    <2> QED
      BY <2>2, <2>3, <2>4, <2>5, <2>6, <2>7 DEF DraftsInv
  <1> QED
    BY <1>1, <1>2, PTL DEF Spec

\* TypeCorrect: the variables keep their types; no semaphore, which semop moves
\* and SEM_UNDO moves back, gets below zero (tmp_wr.c 23-47).
THEOREM TypeCorrect == Spec => []TypeOK
  BY Invariance, PTL

\* Refinement: the four programs of readers and writers implement the lock, for
\* any numbers of readers, writers and letters, whoever is killed where (tmp.c
\* 33-50, tmp_wr.c 23-47, wr_old.c 23-39, tmp_pc.c 21-42).
THEOREM Refinement == Spec => ImplementLock
  <1>1. Init => Lock!Init
    <2> SUFFICES ASSUME Init PROVE Lock!Init
      OBVIOUS
    <2>1. TypeOK /\ NLetters \in Nat \ {0}
      BY TypeInit, DraftsAssumption
    <2>2. /\ Holding(Reading) = {} /\ Holding({"load", "store"}) = {}
          /\ Holding({"stop_write"}) = {}
      BY DEF Init, GroupInit, Holding, Reading
    <2>3. buf - prog.main.first = 0
      BY <2>1 DEF Init, TypeOK, Letters, z, a
    <2>4. 0 % NLetters = 0
      BY <2>1
    <2> QED
      BY <2>2, <2>3, <2>4 DEF Lock!Init
  <1>2. TypeOK /\ DraftsInv /\ [Next]_vars => [Lock!Next]_(Lock!lvars)
    BY EveryLockStep DEF DraftsInv, LockStep
  <1> QED
    BY <1>1, <1>2, Invariance, PTL DEF Spec, ImplementLock, Lock!Spec

\* RemovedAfterAll: when one of the five removes its semaphores, at most two of
\* its children for each SIGSTOP have not ended (tmp.c 230, wr_old.c 182), and in
\* tmp_wr.c (193) all have, however they were stopped and continued.
THEOREM RemovedAfterAll == Spec => []CleanupAfterAll
  <1>1. TypeOK /\ DraftsInv => CleanupAfterAll
    <2> SUFFICES ASSUME TypeOK, DraftsInv PROVE CleanupAfterAll
      OBVIOUS
    <2>1. GroupTypeOK(Places) /\ CountInv /\ (program = "tmp_wr" => EndsCounted)
      BY DEF TypeOK, DraftsInv, DraftsCountInv
    <2>2. CleanupLast
      BY <2>1, CountBounds
    <2>3. program = "tmp_wr" => WaitsForEnds
      BY <2>1, CountTells DEF WaitsForEnds, CountInv
    <2> QED
      BY <2>2, <2>3 DEF CleanupAfterAll
  <1> QED
    BY <1>1, Invariance, PTL

\* FreeOfTheDead: with SEM_UNDO (tmp_wr.c 23-47) the semaphores are as at the
\* start whenever nobody who lives is inside, whoever was killed where.
THEOREM FreeOfTheDead == Spec => []NothingKeptByTheDead
  <1>1. TypeOK /\ DraftsInv => NothingKeptByTheDead
    <2> SUFFICES ASSUME TypeOK, DraftsInv, program = "tmp_wr", ~removed,
                        \A p \in Children : pc[p] \notin Reading \cup Writing
                 PROVE  sem = prog.sems
      BY DEF NothingKeptByTheDead
    <2>1. program \in LockPrograms
      BY DEF LockPrograms
    <2>2. \A p \in Children : died[p] = "none"
      BY <2>1, LockParts DEF DraftsInv, PlacesInv
    <2>3. Holding(Reading) = {} /\ Holding(Writing) = {}
      BY <2>2 DEF Holding, Reading, Writing
    <2>4. sem = SemsWith(Cardinality(Holding(Reading)), Cardinality(Holding(Writing)))
      BY <2>1 DEF DraftsInv, LockInv
    <2>5. sem = SemsWith(0, 0)
      BY <2>3, <2>4, FS_EmptySet
    <2> QED
      BY <2>1, <2>5, LockParts
  <1> QED
    BY <1>1, Invariance, PTL

\* ReadInOrder: for any SIZE_BUF, however often they are killed and stopped, the
\* consumers of les_pc.c read the alphabet once, and a second time but for its
\* first letter unless they or the producers have got among the pointers, and no
\* third time; nobody stores below *ptr_cons (les_pc.c 55, 74, 102, 118).
THEOREM ReadInOrder == Spec => []AlphabetButOneLetter
  <1>1. TypeOK /\ DraftsInv => AlphabetButOneLetter
    <2> SUFFICES ASSUME TypeOK, DraftsInv PROVE AlphabetButOneLetter
      OBVIOUS
    <2>0. /\ PlacesInv /\ BufferInv /\ program \in Programs /\ takes \in Nat /\ ptr_cons \in Int
          /\ NLetters \in Nat \ {0} /\ DOMAIN cell = -2 .. NLetters - 1
      BY DraftsAssumption DEF DraftsInv, TypeOK
    <2>1. ASSUME NEW p \in Children, pc[p] \in {"take", "put"} PROVE program = "les_pc"
      <3>1. program \in LockPrograms => pc[p] \notin {"take", "put"}
        BY <2>0, Roles
      <3> QED
        BY <2>0, <2>1, <3>1, DraftsAssumption DEF LockPrograms
    <2>2. takes <= 2 * NLetters
      <3>1. CASE program = "les_pc"
        BY <2>0, <3>1 DEF BufferInv
      <3>2. CASE program # "les_pc"
        BY <2>0, <3>2 DEF BufferInv
      <3> QED
        BY <3>1, <3>2
    <2>3. ASSUME NEW p \in Readers, pc[p] = "take"
          PROVE  /\ takes <= NLetters => ptr_cons \in DOMAIN cell /\ ~Wild
                 /\ ptr_cons \in DOMAIN cell /\ ~Wild =>
                       cell[ptr_cons] = IF takes = NLetters THEN cell[-1] ELSE takes % NLetters
      <3>1. p \in Children /\ program = "les_pc"
        BY <2>1, <2>3 DEF Children, Readers
      <3>2. PICK k \in 0 .. 3 * NLetters : StoredWith(k, p)
        BY <2>0, <2>3, <3>1, AloneInBuffer DEF Buffered, Consuming
      <3>3. /\ takes < k /\ k <= takes + NLetters
            /\ Wild <=> k > 2 * NLetters
            /\ ~Wild => IF ptr_cons \in DOMAIN cell
                        THEN /\ ptr_cons = PlaceOf(takes)
                             /\ cell[ptr_cons] = IF takes = NLetters THEN cell[-1]
                                                 ELSE IF takes < NLetters THEN takes ELSE takes - NLetters
                        ELSE takes > NLetters
        BY <2>3, <3>2, Found
      <3>4. takes <= NLetters => ptr_cons \in DOMAIN cell /\ ~Wild
        BY <2>0, <3>3
      <3>5. ~Wild => takes < 2 * NLetters
        BY <2>0, <3>3
      <3>6. takes % NLetters = IF takes < NLetters THEN takes ELSE IF takes < 2 * NLetters THEN takes - NLetters
                               ELSE IF takes < 3 * NLetters THEN takes - 2 * NLetters ELSE 0
        <4>1. takes \in 0 .. 3 * NLetters
          BY <2>0, <2>2
        <4> QED
          BY <4>1, LetterAfter
      <3> QED
        BY <3>3, <3>4, <3>5, <3>6
    <2>4. ASSUME NEW p \in Writers, pc[p] = "put" PROVE ptr_prod \in DOMAIN cell
      <3>1. p \in Children /\ program = "les_pc"
        BY <2>1, <2>4 DEF Children, Writers
      <3>2. PICK k \in 0 .. 3 * NLetters : StoredWith(k, p)
        BY <2>0, <2>4, <3>1, AloneInBuffer DEF Buffered, Producing
      <3>3. ptr_prod = PlaceOf(k) /\ sem[2] = NLetters - (k - takes) - 1
        BY <2>4, <3>2 DEF StoredWith
      <3>4. sem[2] \in Nat
        BY <3>1, LesParts DEF TypeOK
      <3>5. k < 3 * NLetters
        BY <2>0, <2>2, <3>3, <3>4
      <3> QED
        BY <2>0, <3>3, <3>5 DEF PlaceOf
    <2> QED
      BY <2>2, <2>3, <2>4 DEF AlphabetButOneLetter
  <1> QED
    BY <1>1, Invariance, PTL
=============================================================================
