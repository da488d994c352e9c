----------------------------- MODULE RpcProofs -----------------------------
(***************************************************************************)
(* Theorems about the servers of os_lab_rpc, for any numbers of clients,   *)
(* calls, datagrams and threads, any size of the ring, of the dictionary   *)
(* and of the alphabet, and any words.                                     *)
(***************************************************************************)
EXTENDS RpcServers, FiniteSetTheorems, SequenceTheorems, WellFoundedInduction, TLAPS

(***************************************************************************)
(* Sequences.                                                              *)
(***************************************************************************)
\* What remains when one is removed.
LEMMA RemoveAtIs ==
    ASSUME NEW S, NEW s \in Seq(S), NEW i \in 1 .. Len(s)
    PROVE  /\ RemoveAt(s, i) \in Seq(S)
           /\ Len(RemoveAt(s, i)) = Len(s) - 1
           /\ \A j \in 1 .. Len(s) - 1 : RemoveAt(s, i)[j] = IF j < i THEN s[j] ELSE s[j + 1]
  <1> DEFINE u == SubSeq(s, 1, i - 1)
             v == SubSeq(s, i + 1, Len(s))
  <1>1. u \in Seq(S) /\ Len(u) = i - 1 /\ \A j \in 1 .. i - 1 : u[j] = s[j]
    OBVIOUS
  <1>2. v \in Seq(S) /\ Len(v) = Len(s) - i /\ \A j \in 1 .. Len(s) - i : v[j] = s[i + j]
    OBVIOUS
  <1>3. RemoveAt(s, i) = u \o v
    BY DEF RemoveAt
  <1> HIDE DEF u, v
  <1>4. /\ u \o v \in Seq(S)
        /\ Len(u \o v) = Len(s) - 1
        /\ \A j \in 1 .. Len(s) - 1 : (u \o v)[j] = IF j <= i - 1 THEN u[j] ELSE v[j - (i - 1)]
    <2>1. /\ u \o v \in Seq(S)
          /\ Len(u \o v) = Len(u) + Len(v)
          /\ \A j \in 1 .. Len(u) + Len(v) : (u \o v)[j] = IF j <= Len(u) THEN u[j] ELSE v[j - Len(u)]
      BY <1>1, <1>2, ConcatProperties
    <2>2. Len(u) = i - 1 /\ Len(u) + Len(v) = Len(s) - 1
      BY <1>1, <1>2
    <2> QED
      BY <2>1, <2>2
  <1>5. ASSUME NEW j \in 1 .. Len(s) - 1 PROVE (u \o v)[j] = IF j < i THEN s[j] ELSE s[j + 1]
    <2>1. CASE j < i
      BY <1>1, <1>4, <2>1
    <2>2. CASE ~(j < i)
      <3>1. j - (i - 1) \in 1 .. Len(s) - i /\ i + (j - (i - 1)) = j + 1
        BY <2>2
      <3>2. v[j - (i - 1)] = s[i + (j - (i - 1))]
        BY <1>2, <3>1
      <3>3. (u \o v)[j] = v[j - (i - 1)]
        BY <1>4, <2>2
      <3>4. (u \o v)[j] = s[j + 1]
        BY <3>1, <3>2, <3>3
      <3> QED
        BY <2>2, <3>4
    <2> QED
      BY <2>1, <2>2
  <1> QED
    BY <1>3, <1>4, <1>5

\* One more step after those of a procedure.
LEMMA AndReply ==
    ASSUME NEW S, NEW s \in Seq(S), NEW a \in S
    PROVE  /\ s \o <<a>> \in Seq(S) /\ Len(s \o <<a>>) = Len(s) + 1
           /\ \A n \in 1 .. Len(s) : (s \o <<a>>)[n] = s[n]
           /\ (s \o <<a>>)[Len(s) + 1] = a
  <1>1. <<a>> \in Seq(S) /\ Len(<<a>>) = 1 /\ <<a>>[1] = a
    OBVIOUS
  <1> DEFINE t == <<a>>
  <1>2. t \in Seq(S) /\ Len(t) = 1 /\ t[1] = a
    BY <1>1
  <1> HIDE DEF t
  <1>3. /\ s \o t \in Seq(S) /\ Len(s \o t) = Len(s) + 1
        /\ \A n \in 1 .. Len(s) + 1 : (s \o t)[n] = IF n <= Len(s) THEN s[n] ELSE t[n - Len(s)]
    BY <1>2, ConcatProperties
  <1>4. Len(s) \in Nat /\ (Len(s) + 1) - Len(s) = 1
    OBVIOUS
  <1>5. (s \o t)[Len(s) + 1] = a
    BY <1>2, <1>3, <1>4
  <1>6. \A n \in 1 .. Len(s) : (s \o t)[n] = s[n]
    BY <1>3, <1>4
  <1> QED
    BY <1>3, <1>5, <1>6 DEF t

\* A sequence is s followed by t if it has their elements.
LEMMA Joined ==
    ASSUME NEW S, NEW s \in Seq(S), NEW t \in Seq(S), NEW y \in Seq(S),
           Len(y) = Len(s) + Len(t),
           \A n \in 1 .. Len(s) : y[n] = s[n],
           \A n \in 1 .. Len(t) : y[Len(s) + n] = t[n]
    PROVE  s \o t = y
  <1>1. /\ s \o t \in Seq(S) /\ Len(s \o t) = Len(y)
        /\ \A i \in 1 .. Len(y) : (s \o t)[i] = IF i <= Len(s) THEN s[i] ELSE t[i - Len(s)]
    BY ConcatProperties
  <1>2. ASSUME NEW i \in 1 .. Len(y) PROVE y[i] = (s \o t)[i]
    <2>1. CASE i <= Len(s)
      BY <1>1, <2>1
    <2>2. CASE ~(i <= Len(s))
      <3>1. i - Len(s) \in 1 .. Len(t) /\ Len(s) + (i - Len(s)) = i
        BY <2>2
      <3> QED
        BY <1>1, <2>2, <3>1
    <2> QED
      BY <2>1, <2>2
  <1> QED
    BY <1>1, <1>2, SeqEqual

(***************************************************************************)
(* The tables of the programs.                                             *)
(***************************************************************************)
\* The lists of RpcPrograms, put together.
LEMMA Lists ==
    /\ \A a, b : <<a>> \o <<b>> = <<a, b>>
    /\ \A a, b, c, d : <<a>> \o <<b, c, d>> = <<a, b, c, d>>
    /\ \A a, b, c, d, e : <<a>> \o <<b, c, d, e>> = <<a, b, c, d, e>>
    /\ \A a, b, c : <<a, b>> \o <<c>> = <<a, b, c>>
    /\ \A a, b, c, d, e : <<a, b, c>> \o <<d, e>> = <<a, b, c, d, e>>
    /\ \A a, b, c, d, e : <<a, b, c, d>> \o <<e>> = <<a, b, c, d, e>>
    /\ \A a, b, c, d, e, f : <<a, b, c, d, e>> \o <<f>> = <<a, b, c, d, e, f>>
    /\ \A a, b, c, d, e, f, g : <<a, b, c, d, e>> \o <<f, g>> = <<a, b, c, d, e, f, g>>
  <1>1. ASSUME NEW a, NEW b
        PROVE  <<a>> \o <<b>> = <<a, b>>
    <2> DEFINE s == <<a>>
               t == <<b>>
               u == <<a, b>>
               S == {a, b}
    <2>1. s \in Seq(S) /\ t \in Seq(S) /\ u \in Seq(S)
      OBVIOUS
    <2>2. Len(s) = 1 /\ Len(t) = 1 /\ Len(u) = 2
      OBVIOUS
    <2>3. \A n \in 1 .. 1 : u[n] = s[n]
      OBVIOUS
    <2>4. \A n \in 1 .. 1 : u[1 + n] = t[n]
      OBVIOUS
    <2> HIDE DEF s, t, u, S
    <2>5. /\ Len(u) = Len(s) + Len(t)
          /\ \A n \in 1 .. Len(s) : u[n] = s[n]
          /\ \A n \in 1 .. Len(t) : u[Len(s) + n] = t[n]
      BY <2>2, <2>3, <2>4
    <2>6. s \o t = u
      BY <2>1, <2>5, Joined
    <2> QED
      BY <2>6 DEF s, t, u
  <1>2. ASSUME NEW a, NEW b, NEW c, NEW d
        PROVE  <<a>> \o <<b, c, d>> = <<a, b, c, d>>
    <2> DEFINE s == <<a>>
               t == <<b, c, d>>
               u == <<a, b, c, d>>
               S == {a, b, c, d}
    <2>1. s \in Seq(S) /\ t \in Seq(S) /\ u \in Seq(S)
      OBVIOUS
    <2>2. Len(s) = 1 /\ Len(t) = 3 /\ Len(u) = 4
      OBVIOUS
    <2>3. \A n \in 1 .. 1 : u[n] = s[n]
      OBVIOUS
    <2>4. \A n \in 1 .. 3 : u[1 + n] = t[n]
      OBVIOUS
    <2> HIDE DEF s, t, u, S
    <2>5. /\ Len(u) = Len(s) + Len(t)
          /\ \A n \in 1 .. Len(s) : u[n] = s[n]
          /\ \A n \in 1 .. Len(t) : u[Len(s) + n] = t[n]
      BY <2>2, <2>3, <2>4
    <2>6. s \o t = u
      BY <2>1, <2>5, Joined
    <2> QED
      BY <2>6 DEF s, t, u
  <1>3. ASSUME NEW a, NEW b, NEW c, NEW d, NEW e
        PROVE  <<a>> \o <<b, c, d, e>> = <<a, b, c, d, e>>
    <2> DEFINE s == <<a>>
               t == <<b, c, d, e>>
               u == <<a, b, c, d, e>>
               S == {a, b, c, d, e}
    <2>1. s \in Seq(S) /\ t \in Seq(S) /\ u \in Seq(S)
      OBVIOUS
    <2>2. Len(s) = 1 /\ Len(t) = 4 /\ Len(u) = 5
      OBVIOUS
    <2>3. \A n \in 1 .. 1 : u[n] = s[n]
      OBVIOUS
    <2>4. \A n \in 1 .. 4 : u[1 + n] = t[n]
      OBVIOUS
    <2> HIDE DEF s, t, u, S
    <2>5. /\ Len(u) = Len(s) + Len(t)
          /\ \A n \in 1 .. Len(s) : u[n] = s[n]
          /\ \A n \in 1 .. Len(t) : u[Len(s) + n] = t[n]
      BY <2>2, <2>3, <2>4
    <2>6. s \o t = u
      BY <2>1, <2>5, Joined
    <2> QED
      BY <2>6 DEF s, t, u
  <1>4. ASSUME NEW a, NEW b, NEW c
        PROVE  <<a, b>> \o <<c>> = <<a, b, c>>
    <2> DEFINE s == <<a, b>>
               t == <<c>>
               u == <<a, b, c>>
               S == {a, b, c}
    <2>1. s \in Seq(S) /\ t \in Seq(S) /\ u \in Seq(S)
      OBVIOUS
    <2>2. Len(s) = 2 /\ Len(t) = 1 /\ Len(u) = 3
      OBVIOUS
    <2>3. \A n \in 1 .. 2 : u[n] = s[n]
      OBVIOUS
    <2>4. \A n \in 1 .. 1 : u[2 + n] = t[n]
      OBVIOUS
    <2> HIDE DEF s, t, u, S
    <2>5. /\ Len(u) = Len(s) + Len(t)
          /\ \A n \in 1 .. Len(s) : u[n] = s[n]
          /\ \A n \in 1 .. Len(t) : u[Len(s) + n] = t[n]
      BY <2>2, <2>3, <2>4
    <2>6. s \o t = u
      BY <2>1, <2>5, Joined
    <2> QED
      BY <2>6 DEF s, t, u
  <1>5. ASSUME NEW a, NEW b, NEW c, NEW d, NEW e
        PROVE  <<a, b, c>> \o <<d, e>> = <<a, b, c, d, e>>
    <2> DEFINE s == <<a, b, c>>
               t == <<d, e>>
               u == <<a, b, c, d, e>>
               S == {a, b, c, d, e}
    <2>1. s \in Seq(S) /\ t \in Seq(S) /\ u \in Seq(S)
      OBVIOUS
    <2>2. Len(s) = 3 /\ Len(t) = 2 /\ Len(u) = 5
      OBVIOUS
    <2>3. \A n \in 1 .. 3 : u[n] = s[n]
      OBVIOUS
    <2>4. \A n \in 1 .. 2 : u[3 + n] = t[n]
      OBVIOUS
    <2> HIDE DEF s, t, u, S
    <2>5. /\ Len(u) = Len(s) + Len(t)
          /\ \A n \in 1 .. Len(s) : u[n] = s[n]
          /\ \A n \in 1 .. Len(t) : u[Len(s) + n] = t[n]
      BY <2>2, <2>3, <2>4
    <2>6. s \o t = u
      BY <2>1, <2>5, Joined
    <2> QED
      BY <2>6 DEF s, t, u
  <1>6. ASSUME NEW a, NEW b, NEW c, NEW d, NEW e
        PROVE  <<a, b, c, d>> \o <<e>> = <<a, b, c, d, e>>
    <2> DEFINE s == <<a, b, c, d>>
               t == <<e>>
               u == <<a, b, c, d, e>>
               S == {a, b, c, d, e}
    <2>1. s \in Seq(S) /\ t \in Seq(S) /\ u \in Seq(S)
      OBVIOUS
    <2>2. Len(s) = 4 /\ Len(t) = 1 /\ Len(u) = 5
      OBVIOUS
    <2>3. \A n \in 1 .. 4 : u[n] = s[n]
      OBVIOUS
    <2>4. \A n \in 1 .. 1 : u[4 + n] = t[n]
      OBVIOUS
    <2> HIDE DEF s, t, u, S
    <2>5. /\ Len(u) = Len(s) + Len(t)
          /\ \A n \in 1 .. Len(s) : u[n] = s[n]
          /\ \A n \in 1 .. Len(t) : u[Len(s) + n] = t[n]
      BY <2>2, <2>3, <2>4
    <2>6. s \o t = u
      BY <2>1, <2>5, Joined
    <2> QED
      BY <2>6 DEF s, t, u
  <1>7. ASSUME NEW a, NEW b, NEW c, NEW d, NEW e, NEW f
        PROVE  <<a, b, c, d, e>> \o <<f>> = <<a, b, c, d, e, f>>
    <2> DEFINE s == <<a, b, c, d, e>>
               t == <<f>>
               u == <<a, b, c, d, e, f>>
               S == {a, b, c, d, e, f}
    <2>1. s \in Seq(S) /\ t \in Seq(S) /\ u \in Seq(S)
      OBVIOUS
    <2>2. Len(s) = 5 /\ Len(t) = 1 /\ Len(u) = 6
      OBVIOUS
    <2>3. \A n \in 1 .. 5 : u[n] = s[n]
      OBVIOUS
    <2>4. \A n \in 1 .. 1 : u[5 + n] = t[n]
      OBVIOUS
    <2> HIDE DEF s, t, u, S
    <2>5. /\ Len(u) = Len(s) + Len(t)
          /\ \A n \in 1 .. Len(s) : u[n] = s[n]
          /\ \A n \in 1 .. Len(t) : u[Len(s) + n] = t[n]
      BY <2>2, <2>3, <2>4
    <2>6. s \o t = u
      BY <2>1, <2>5, Joined
    <2> QED
      BY <2>6 DEF s, t, u
  <1>8. ASSUME NEW a, NEW b, NEW c, NEW d, NEW e, NEW f, NEW g
        PROVE  <<a, b, c, d, e>> \o <<f, g>> = <<a, b, c, d, e, f, g>>
    <2> DEFINE s == <<a, b, c, d, e>>
               t == <<f, g>>
               u == <<a, b, c, d, e, f, g>>
               S == {a, b, c, d, e, f, g}
    <2>1. s \in Seq(S) /\ t \in Seq(S) /\ u \in Seq(S)
      OBVIOUS
    <2>2. Len(s) = 5 /\ Len(t) = 2 /\ Len(u) = 7
      OBVIOUS
    <2>3. \A n \in 1 .. 5 : u[n] = s[n]
      OBVIOUS
    <2>4. \A n \in 1 .. 2 : u[5 + n] = t[n]
      OBVIOUS
    <2> HIDE DEF s, t, u, S
    <2>5. /\ Len(u) = Len(s) + Len(t)
          /\ \A n \in 1 .. Len(s) : u[n] = s[n]
          /\ \A n \in 1 .. Len(t) : u[Len(s) + n] = t[n]
      BY <2>2, <2>3, <2>4
    <2>6. s \o t = u
      BY <2>1, <2>5, Joined
    <2> QED
      BY <2>6 DEF s, t, u
  <1> QED
    BY <1>1, <1>2, <1>3, <1>4, <1>5, <1>6, <1>7, <1>8

Pc2Servers == {"pc2", "copy", "rpc_pc"}
AllPrograms == {"pc", "pc_last", "obakery", "obakery_old", "calc"} \cup Pc2Servers \cup DictServers

\* The record of each program.
LEMMA ProgramIs ==
    /\ program = "pc" => prog = pc
    /\ program \in Pc2Servers => prog = pc2
    /\ program = "pc_last" => prog = pc_last
    /\ program = "dict_threads" => prog = dict_threads
    /\ program = "dict_one" => prog = dict_one
    /\ program = "obakery" => prog = obakery
    /\ program = "obakery_old" => prog = obakery_old
    /\ program = "calc" => prog = calc
    /\ program \in Servers => program \in AllPrograms
  <1>1. Servers \subseteq AllPrograms
    BY SunRpcAssumption DEF AllServers, AllPrograms, Pc2Servers, DictServers
  <1>2. program = "pc" => prog = pc
    BY DEF prog, AllServers
  <1>3. program \in Pc2Servers => prog = pc2
    BY SameServers DEF prog, AllServers, Pc2Servers
  <1>4. program = "pc_last" => prog = pc_last
    BY DEF prog, AllServers
  <1>5. program = "dict_threads" => prog = dict_threads
    BY DEF prog, AllServers
  <1>6. program = "dict_one" => prog = dict_one
    BY DEF prog, AllServers
  <1>7. program = "obakery" => prog = obakery
    BY DEF prog, AllServers
  <1>8. program = "obakery_old" => prog = obakery_old
    BY DEF prog, AllServers
  <1>9. program = "calc" => prog = calc
    BY DEF prog, AllServers
  <1> QED
    BY <1>1, <1>2, <1>3, <1>4, <1>5, <1>6, <1>7, <1>8, <1>9

\* What each dispatcher does for each procedure.
LEMMA ServeIs ==
    /\ program = "pc" => dispatch.serve =
          <<<<"start", "put", "advance_prod", "stop", "reply">>,
            <<"start", "take", "advance_cons", "stop", "reply">>>>
    /\ program \in Pc2Servers => dispatch.serve =
          <<<<"getargs", "if", "start", "put", "advance_prod", "stop", "reply">>,
            <<"getargs", "if", "start", "take", "advance_cons", "stop", "reply">>>>
    /\ program = "pc_last" => dispatch.serve = <<<<"getargs", "service", "reply">>>>
    /\ program \in DictServers => dispatch.serve =
          <<<<"initw", "reply">>, <<"getargs", "strcpy", "load_inc", "store_inc", "reply">>,
            <<"getargs", "scan", "load_dec", "store_dec", "move", "reply">>,
            <<"getargs", "lookupw", "reply">>>>
    /\ program = "obakery" => dispatch.serve =
          <<<<"getargs", "get_number", "reply">>, <<"getargs", "serve", "reply">>>>
    /\ program = "obakery_old" => dispatch.serve =
          <<<<"getargs", "get_number_of_ind", "reply">>, <<"getargs", "compute", "reply">>>>
    /\ program = "calc" => dispatch.serve = <<<<"getargs", "calculator_proc", "reply">>>>
  <1>1. ASSUME program = "pc"
        PROVE  dispatch.serve = <<<<"start", "put", "advance_prod", "stop", "reply">>,
                                  <<"start", "take", "advance_cons", "stop", "reply">>>>
    <2>1. dispatch.serve = <<<<"start", "put", "advance_prod", "stop">> \o <<"reply">>,
                             <<"start", "take", "advance_cons", "stop">> \o <<"reply">>>>
      BY <1>1, ProgramIs DEF dispatch, pc, pc_main, pc_prog_1, pc_serv_request, pc_producer_1_svc,
                             pc_consumer_1_svc, Reply
    <2> QED
      BY <2>1, Lists
  <1>2. ASSUME program \in Pc2Servers
        PROVE  dispatch.serve = <<<<"getargs", "if", "start", "put", "advance_prod", "stop", "reply">>,
                                  <<"getargs", "if", "start", "take", "advance_cons", "stop", "reply">>>>
    <2>1. dispatch.serve = <<(<<"getargs", "if", "start">> \o <<"put", "advance_prod">>) \o <<"stop", "reply">>,
                             (<<"getargs", "if", "start">> \o <<"take", "advance_cons">>) \o <<"stop", "reply">>>>
      BY <1>2, ProgramIs DEF dispatch, pc2, pc2_main, pc2_prog_1, pc2_serv_request, pc2_producer_1_svc,
                             pc2_consumer_1_svc
    <2>2. /\ <<"getargs", "if", "start">> \o <<"put", "advance_prod">>
                = <<"getargs", "if", "start", "put", "advance_prod">>
          /\ <<"getargs", "if", "start">> \o <<"take", "advance_cons">>
                = <<"getargs", "if", "start", "take", "advance_cons">>
      BY Lists
    <2>3. /\ <<"getargs", "if", "start", "put", "advance_prod">> \o <<"stop", "reply">>
                = <<"getargs", "if", "start", "put", "advance_prod", "stop", "reply">>
          /\ <<"getargs", "if", "start", "take", "advance_cons">> \o <<"stop", "reply">>
                = <<"getargs", "if", "start", "take", "advance_cons", "stop", "reply">>
      BY Lists
    <2> QED
      BY <2>1, <2>2, <2>3
  <1>3. ASSUME program \in DictServers
        PROVE  dispatch.serve = <<<<"initw", "reply">>, <<"getargs", "strcpy", "load_inc", "store_inc", "reply">>,
                                  <<"getargs", "scan", "load_dec", "store_dec", "move", "reply">>,
                                  <<"getargs", "lookupw", "reply">>>>
    <2>1. /\ <<"initw">> \o <<"reply">> = <<"initw", "reply">>
          /\ <<"getargs">> \o <<"strcpy", "load_inc", "store_inc">> = <<"getargs", "strcpy", "load_inc", "store_inc">>
          /\ <<"getargs">> \o <<"scan", "load_dec", "store_dec", "move">>
                = <<"getargs", "scan", "load_dec", "store_dec", "move">>
          /\ <<"getargs">> \o <<"lookupw">> = <<"getargs", "lookupw">>
      BY Lists
    <2>2. /\ <<"getargs", "strcpy", "load_inc", "store_inc">> \o <<"reply">>
                = <<"getargs", "strcpy", "load_inc", "store_inc", "reply">>
          /\ <<"getargs", "scan", "load_dec", "store_dec", "move">> \o <<"reply">>
                = <<"getargs", "scan", "load_dec", "store_dec", "move", "reply">>
          /\ <<"getargs", "lookupw">> \o <<"reply">> = <<"getargs", "lookupw", "reply">>
      BY Lists
    <2>3. /\ dict_sif[1] \o Reply = <<"initw", "reply">>
          /\ <<"getargs">> \o dict_sif[2] \o Reply = <<"getargs", "strcpy", "load_inc", "store_inc", "reply">>
          /\ <<"getargs">> \o dict_sif[3] \o Reply
                = <<"getargs", "scan", "load_dec", "store_dec", "move", "reply">>
          /\ <<"getargs">> \o dict_sif[4] \o Reply = <<"getargs", "lookupw", "reply">>
      BY <2>1, <2>2 DEF dict_sif, Reply, insertw, deletew
    <2>4. dispatch.serve = <<dict_sif[1] \o Reply, <<"getargs">> \o dict_sif[2] \o Reply,
                             <<"getargs">> \o dict_sif[3] \o Reply, <<"getargs">> \o dict_sif[4] \o Reply>>
      <3>1. CASE program = "dict_threads"
        <4>1. dispatch = dict_rdictprog_1
          BY <3>1, ProgramIs DEF dispatch, dict_threads, dict_main
        <4>2. dispatch.serve = dict_serv_request
          BY <4>1 DEF dict_rdictprog_1
        <4> QED
          BY <4>2 DEF dict_serv_request
      <3>2. CASE program = "dict_one"
        <4>1. dispatch = copy_rdictprog_1
          BY <3>2, ProgramIs DEF dispatch, dict_one, dict_copy_main
        <4> QED
          BY <4>1 DEF copy_rdictprog_1, dict_server
      <3> QED
        BY <1>3, <3>1, <3>2 DEF DictServers
    <2> QED
      BY <2>3, <2>4
  <1>4. program = "pc_last" => dispatch.serve = <<<<"getargs", "service", "reply">>>>
    BY ProgramIs DEF dispatch, pc_last, pc_last_main, pc_last_prog_1, pc_last_serv_request
  <1>5. program = "obakery" => dispatch.serve =
           <<<<"getargs", "get_number", "reply">>, <<"getargs", "serve", "reply">>>>
    BY ProgramIs DEF dispatch, obakery, obakery_main, obakery_prog_1
  <1>6. program = "obakery_old" => dispatch.serve =
           <<<<"getargs", "get_number_of_ind", "reply">>, <<"getargs", "compute", "reply">>>>
    BY ProgramIs DEF dispatch, obakery_old, old_main, old_prog_1
  <1>7. program = "calc" => dispatch.serve = <<<<"getargs", "calculator_proc", "reply">>>>
    BY ProgramIs DEF dispatch, calc, calculator_main, calculator_svc_prog_1
  <1> QED
    BY <1>1, <1>2, <1>3, <1>4, <1>5, <1>6, <1>7

LEMMA OwnStepsAreSteps == ASSUME NEW proc, NEW arg PROVE OwnSteps(proc, arg) \subseteq Steps
  BY DEF OwnSteps, Steps, PcServers, DictServers

\* The list x is a plan of the procedure proc called with arg.
IsPlanFor(x, proc, arg) == IsPlan(x) /\ x \in Seq(OwnSteps(proc, arg))

\* A list of own steps, each allowed after the one before.
LEMMA PlanIs ==
    ASSUME NEW S, S \subseteq Steps, NEW x \in Seq(S), Len(x) \in 1 .. 8, x[Len(x)] = "reply",
           \A n \in 1 .. Len(x) - 1 : Follows(x[n + 1], x[n])
    PROVE  IsPlan(x)
  <1>1. x \in Seq(Steps)
    BY SeqMonotonic
  <1> QED
    BY <1>1 DEF IsPlan

LEMMA OwnPlanIs ==
    ASSUME NEW proc, NEW arg, NEW S, S \subseteq OwnSteps(proc, arg), NEW x \in Seq(S),
           Len(x) \in 1 .. 8, x[Len(x)] = "reply", \A n \in 1 .. Len(x) - 1 : Follows(x[n + 1], x[n])
    PROVE  IsPlanFor(x, proc, arg)
  <1>1. S \subseteq Steps
    BY OwnStepsAreSteps
  <1>2. IsPlan(x)
    BY <1>1, PlanIs
  <1>3. x \in Seq(OwnSteps(proc, arg))
    BY SeqMonotonic
  <1> QED
    BY <1>2, <1>3 DEF IsPlanFor

\* Each list of the programs is one.
LEMMA PlansFor ==
    ASSUME NEW proc, NEW arg
    PROVE  /\ program = "pc" /\ proc = 1 => IsPlanFor(<<"start", "put", "advance_prod", "stop", "reply">>, proc, arg)
           /\ program = "pc" /\ proc = 2 => IsPlanFor(<<"start", "take", "advance_cons", "stop", "reply">>, proc, arg)
           /\ program \in Pc2Servers /\ proc = 1 => IsPlanFor(<<"getargs", "if", "start", "put", "advance_prod", "stop", "reply">>, proc, arg)
           /\ program \in Pc2Servers /\ proc = 2 => IsPlanFor(<<"getargs", "if", "start", "take", "advance_cons", "stop", "reply">>, proc, arg)
           /\ program = "pc_last" /\ proc = 1 => IsPlanFor(<<"getargs", "service", "reply">>, proc, arg)
           /\ program = "pc_last" /\ arg = 0 => IsPlanFor(<<"start", "put", "advance_prod", "stop", "reply">>, proc, arg)
           /\ program = "pc_last" /\ arg # 0 => IsPlanFor(<<"start", "take", "advance_cons", "stop", "reply">>, proc, arg)
           /\ program \in DictServers /\ proc = 1 => IsPlanFor(<<"initw", "reply">>, proc, arg)
           /\ program \in DictServers /\ proc = 2 => IsPlanFor(<<"getargs", "strcpy", "load_inc", "store_inc", "reply">>, proc, arg)
           /\ program \in DictServers /\ proc = 3 => IsPlanFor(<<"getargs", "scan", "load_dec", "store_dec", "move", "reply">>, proc, arg)
           /\ program \in DictServers /\ proc = 4 => IsPlanFor(<<"getargs", "lookupw", "reply">>, proc, arg)
           /\ program = "obakery" /\ proc = 1 => IsPlanFor(<<"getargs", "get_number", "reply">>, proc, arg)
           /\ program = "obakery" /\ proc = 2 => IsPlanFor(<<"getargs", "serve", "reply">>, proc, arg)
           /\ program = "obakery_old" /\ proc = 1 => IsPlanFor(<<"getargs", "get_number_of_ind", "reply">>, proc, arg)
           /\ program = "obakery_old" /\ proc = 2 => IsPlanFor(<<"getargs", "compute", "reply">>, proc, arg)
           /\ program = "calc" /\ proc = 1 => IsPlanFor(<<"getargs", "calculator_proc", "reply">>, proc, arg)
  <1>1. ASSUME program = "pc", proc = 1
        PROVE  IsPlanFor(<<"start", "put", "advance_prod", "stop", "reply">>, proc, arg)
    <2> DEFINE x == <<"start", "put", "advance_prod", "stop", "reply">>
               S == {"start", "put", "advance_prod", "stop", "reply"}
    <2>1. x \in Seq(S)
      OBVIOUS
    <2>2. Len(x) = 5 /\ x[5] = "reply" /\ \A n \in 1 .. 4 : Follows(x[n + 1], x[n])
      BY DEF Follows
    <2>3. S \subseteq OwnSteps(proc, arg)
      BY <1>1 DEF OwnSteps, DictServers
    <2> HIDE DEF x, S
    <2>4. Len(x) \in 1 .. 8 /\ x[Len(x)] = "reply" /\ \A n \in 1 .. Len(x) - 1 : Follows(x[n + 1], x[n])
      BY <2>2
    <2> QED
      BY <2>1, <2>3, <2>4, OwnPlanIs DEF x
  <1>2. ASSUME program = "pc", proc = 2
        PROVE  IsPlanFor(<<"start", "take", "advance_cons", "stop", "reply">>, proc, arg)
    <2> DEFINE x == <<"start", "take", "advance_cons", "stop", "reply">>
               S == {"start", "take", "advance_cons", "stop", "reply"}
    <2>1. x \in Seq(S)
      OBVIOUS
    <2>2. Len(x) = 5 /\ x[5] = "reply" /\ \A n \in 1 .. 4 : Follows(x[n + 1], x[n])
      BY DEF Follows
    <2>3. S \subseteq OwnSteps(proc, arg)
      BY <1>2 DEF OwnSteps, DictServers
    <2> HIDE DEF x, S
    <2>4. Len(x) \in 1 .. 8 /\ x[Len(x)] = "reply" /\ \A n \in 1 .. Len(x) - 1 : Follows(x[n + 1], x[n])
      BY <2>2
    <2> QED
      BY <2>1, <2>3, <2>4, OwnPlanIs DEF x
  <1>3. ASSUME program \in Pc2Servers, proc = 1
        PROVE  IsPlanFor(<<"getargs", "if", "start", "put", "advance_prod", "stop", "reply">>, proc, arg)
    <2> DEFINE x == <<"getargs", "if", "start", "put", "advance_prod", "stop", "reply">>
               S == {"getargs", "if", "start", "put", "advance_prod", "stop", "reply"}
    <2>1. x \in Seq(S)
      OBVIOUS
    <2>2. Len(x) = 7 /\ x[7] = "reply" /\ \A n \in 1 .. 6 : Follows(x[n + 1], x[n])
      BY DEF Follows
    <2>3. S \subseteq OwnSteps(proc, arg)
      BY <1>3 DEF OwnSteps, DictServers, Pc2Servers
    <2> HIDE DEF x, S
    <2>4. Len(x) \in 1 .. 8 /\ x[Len(x)] = "reply" /\ \A n \in 1 .. Len(x) - 1 : Follows(x[n + 1], x[n])
      BY <2>2
    <2> QED
      BY <2>1, <2>3, <2>4, OwnPlanIs DEF x
  <1>4. ASSUME program \in Pc2Servers, proc = 2
        PROVE  IsPlanFor(<<"getargs", "if", "start", "take", "advance_cons", "stop", "reply">>, proc, arg)
    <2> DEFINE x == <<"getargs", "if", "start", "take", "advance_cons", "stop", "reply">>
               S == {"getargs", "if", "start", "take", "advance_cons", "stop", "reply"}
    <2>1. x \in Seq(S)
      OBVIOUS
    <2>2. Len(x) = 7 /\ x[7] = "reply" /\ \A n \in 1 .. 6 : Follows(x[n + 1], x[n])
      BY DEF Follows
    <2>3. S \subseteq OwnSteps(proc, arg)
      BY <1>4 DEF OwnSteps, DictServers, Pc2Servers
    <2> HIDE DEF x, S
    <2>4. Len(x) \in 1 .. 8 /\ x[Len(x)] = "reply" /\ \A n \in 1 .. Len(x) - 1 : Follows(x[n + 1], x[n])
      BY <2>2
    <2> QED
      BY <2>1, <2>3, <2>4, OwnPlanIs DEF x
  <1>5. ASSUME program = "pc_last", proc = 1
        PROVE  IsPlanFor(<<"getargs", "service", "reply">>, proc, arg)
    <2> DEFINE x == <<"getargs", "service", "reply">>
               S == {"getargs", "service", "reply"}
    <2>1. x \in Seq(S)
      OBVIOUS
    <2>2. Len(x) = 3 /\ x[3] = "reply" /\ \A n \in 1 .. 2 : Follows(x[n + 1], x[n])
      BY DEF Follows
    <2>3. S \subseteq OwnSteps(proc, arg)
      BY <1>5 DEF OwnSteps, DictServers
    <2> HIDE DEF x, S
    <2>4. Len(x) \in 1 .. 8 /\ x[Len(x)] = "reply" /\ \A n \in 1 .. Len(x) - 1 : Follows(x[n + 1], x[n])
      BY <2>2
    <2> QED
      BY <2>1, <2>3, <2>4, OwnPlanIs DEF x
  <1>6. ASSUME program = "pc_last", arg = 0
        PROVE  IsPlanFor(<<"start", "put", "advance_prod", "stop", "reply">>, proc, arg)
    <2> DEFINE x == <<"start", "put", "advance_prod", "stop", "reply">>
               S == {"start", "put", "advance_prod", "stop", "reply"}
    <2>1. x \in Seq(S)
      OBVIOUS
    <2>2. Len(x) = 5 /\ x[5] = "reply" /\ \A n \in 1 .. 4 : Follows(x[n + 1], x[n])
      BY DEF Follows
    <2>3. S \subseteq OwnSteps(proc, arg)
      BY <1>6 DEF OwnSteps, DictServers
    <2> HIDE DEF x, S
    <2>4. Len(x) \in 1 .. 8 /\ x[Len(x)] = "reply" /\ \A n \in 1 .. Len(x) - 1 : Follows(x[n + 1], x[n])
      BY <2>2
    <2> QED
      BY <2>1, <2>3, <2>4, OwnPlanIs DEF x
  <1>7. ASSUME program = "pc_last", arg # 0
        PROVE  IsPlanFor(<<"start", "take", "advance_cons", "stop", "reply">>, proc, arg)
    <2> DEFINE x == <<"start", "take", "advance_cons", "stop", "reply">>
               S == {"start", "take", "advance_cons", "stop", "reply"}
    <2>1. x \in Seq(S)
      OBVIOUS
    <2>2. Len(x) = 5 /\ x[5] = "reply" /\ \A n \in 1 .. 4 : Follows(x[n + 1], x[n])
      BY DEF Follows
    <2>3. S \subseteq OwnSteps(proc, arg)
      BY <1>7 DEF OwnSteps, DictServers
    <2> HIDE DEF x, S
    <2>4. Len(x) \in 1 .. 8 /\ x[Len(x)] = "reply" /\ \A n \in 1 .. Len(x) - 1 : Follows(x[n + 1], x[n])
      BY <2>2
    <2> QED
      BY <2>1, <2>3, <2>4, OwnPlanIs DEF x
  <1>8. ASSUME program \in DictServers, proc = 1
        PROVE  IsPlanFor(<<"initw", "reply">>, proc, arg)
    <2> DEFINE x == <<"initw", "reply">>
               S == {"initw", "reply"}
    <2>1. x \in Seq(S)
      OBVIOUS
    <2>2. Len(x) = 2 /\ x[2] = "reply" /\ \A n \in 1 .. 1 : Follows(x[n + 1], x[n])
      BY DEF Follows
    <2>3. S \subseteq OwnSteps(proc, arg)
      BY <1>8 DEF OwnSteps, DictServers
    <2> HIDE DEF x, S
    <2>4. Len(x) \in 1 .. 8 /\ x[Len(x)] = "reply" /\ \A n \in 1 .. Len(x) - 1 : Follows(x[n + 1], x[n])
      BY <2>2
    <2> QED
      BY <2>1, <2>3, <2>4, OwnPlanIs DEF x
  <1>9. ASSUME program \in DictServers, proc = 2
        PROVE  IsPlanFor(<<"getargs", "strcpy", "load_inc", "store_inc", "reply">>, proc, arg)
    <2> DEFINE x == <<"getargs", "strcpy", "load_inc", "store_inc", "reply">>
               S == {"getargs", "strcpy", "load_inc", "store_inc", "reply"}
    <2>1. x \in Seq(S)
      OBVIOUS
    <2>2. Len(x) = 5 /\ x[5] = "reply" /\ \A n \in 1 .. 4 : Follows(x[n + 1], x[n])
      BY DEF Follows
    <2>3. S \subseteq OwnSteps(proc, arg)
      BY <1>9 DEF OwnSteps, DictServers
    <2> HIDE DEF x, S
    <2>4. Len(x) \in 1 .. 8 /\ x[Len(x)] = "reply" /\ \A n \in 1 .. Len(x) - 1 : Follows(x[n + 1], x[n])
      BY <2>2
    <2> QED
      BY <2>1, <2>3, <2>4, OwnPlanIs DEF x
  <1>10. ASSUME program \in DictServers, proc = 3
        PROVE  IsPlanFor(<<"getargs", "scan", "load_dec", "store_dec", "move", "reply">>, proc, arg)
    <2> DEFINE x == <<"getargs", "scan", "load_dec", "store_dec", "move", "reply">>
               S == {"getargs", "scan", "load_dec", "store_dec", "move", "reply"}
    <2>1. x \in Seq(S)
      OBVIOUS
    <2>2. Len(x) = 6 /\ x[6] = "reply" /\ \A n \in 1 .. 5 : Follows(x[n + 1], x[n])
      BY DEF Follows
    <2>3. S \subseteq OwnSteps(proc, arg)
      BY <1>10 DEF OwnSteps, DictServers
    <2> HIDE DEF x, S
    <2>4. Len(x) \in 1 .. 8 /\ x[Len(x)] = "reply" /\ \A n \in 1 .. Len(x) - 1 : Follows(x[n + 1], x[n])
      BY <2>2
    <2> QED
      BY <2>1, <2>3, <2>4, OwnPlanIs DEF x
  <1>11. ASSUME program \in DictServers, proc = 4
        PROVE  IsPlanFor(<<"getargs", "lookupw", "reply">>, proc, arg)
    <2> DEFINE x == <<"getargs", "lookupw", "reply">>
               S == {"getargs", "lookupw", "reply"}
    <2>1. x \in Seq(S)
      OBVIOUS
    <2>2. Len(x) = 3 /\ x[3] = "reply" /\ \A n \in 1 .. 2 : Follows(x[n + 1], x[n])
      BY DEF Follows
    <2>3. S \subseteq OwnSteps(proc, arg)
      BY <1>11 DEF OwnSteps, DictServers
    <2> HIDE DEF x, S
    <2>4. Len(x) \in 1 .. 8 /\ x[Len(x)] = "reply" /\ \A n \in 1 .. Len(x) - 1 : Follows(x[n + 1], x[n])
      BY <2>2
    <2> QED
      BY <2>1, <2>3, <2>4, OwnPlanIs DEF x
  <1>12. ASSUME program = "obakery", proc = 1
        PROVE  IsPlanFor(<<"getargs", "get_number", "reply">>, proc, arg)
    <2> DEFINE x == <<"getargs", "get_number", "reply">>
               S == {"getargs", "get_number", "reply"}
    <2>1. x \in Seq(S)
      OBVIOUS
    <2>2. Len(x) = 3 /\ x[3] = "reply" /\ \A n \in 1 .. 2 : Follows(x[n + 1], x[n])
      BY DEF Follows
    <2>3. S \subseteq OwnSteps(proc, arg)
      BY <1>12 DEF OwnSteps, DictServers
    <2> HIDE DEF x, S
    <2>4. Len(x) \in 1 .. 8 /\ x[Len(x)] = "reply" /\ \A n \in 1 .. Len(x) - 1 : Follows(x[n + 1], x[n])
      BY <2>2
    <2> QED
      BY <2>1, <2>3, <2>4, OwnPlanIs DEF x
  <1>13. ASSUME program = "obakery", proc = 2
        PROVE  IsPlanFor(<<"getargs", "serve", "reply">>, proc, arg)
    <2> DEFINE x == <<"getargs", "serve", "reply">>
               S == {"getargs", "serve", "reply"}
    <2>1. x \in Seq(S)
      OBVIOUS
    <2>2. Len(x) = 3 /\ x[3] = "reply" /\ \A n \in 1 .. 2 : Follows(x[n + 1], x[n])
      BY DEF Follows
    <2>3. S \subseteq OwnSteps(proc, arg)
      BY <1>13 DEF OwnSteps, DictServers
    <2> HIDE DEF x, S
    <2>4. Len(x) \in 1 .. 8 /\ x[Len(x)] = "reply" /\ \A n \in 1 .. Len(x) - 1 : Follows(x[n + 1], x[n])
      BY <2>2
    <2> QED
      BY <2>1, <2>3, <2>4, OwnPlanIs DEF x
  <1>14. ASSUME program = "obakery_old", proc = 1
        PROVE  IsPlanFor(<<"getargs", "get_number_of_ind", "reply">>, proc, arg)
    <2> DEFINE x == <<"getargs", "get_number_of_ind", "reply">>
               S == {"getargs", "get_number_of_ind", "reply"}
    <2>1. x \in Seq(S)
      OBVIOUS
    <2>2. Len(x) = 3 /\ x[3] = "reply" /\ \A n \in 1 .. 2 : Follows(x[n + 1], x[n])
      BY DEF Follows
    <2>3. S \subseteq OwnSteps(proc, arg)
      BY <1>14 DEF OwnSteps, DictServers
    <2> HIDE DEF x, S
    <2>4. Len(x) \in 1 .. 8 /\ x[Len(x)] = "reply" /\ \A n \in 1 .. Len(x) - 1 : Follows(x[n + 1], x[n])
      BY <2>2
    <2> QED
      BY <2>1, <2>3, <2>4, OwnPlanIs DEF x
  <1>15. ASSUME program = "obakery_old", proc = 2
        PROVE  IsPlanFor(<<"getargs", "compute", "reply">>, proc, arg)
    <2> DEFINE x == <<"getargs", "compute", "reply">>
               S == {"getargs", "compute", "reply"}
    <2>1. x \in Seq(S)
      OBVIOUS
    <2>2. Len(x) = 3 /\ x[3] = "reply" /\ \A n \in 1 .. 2 : Follows(x[n + 1], x[n])
      BY DEF Follows
    <2>3. S \subseteq OwnSteps(proc, arg)
      BY <1>15 DEF OwnSteps, DictServers
    <2> HIDE DEF x, S
    <2>4. Len(x) \in 1 .. 8 /\ x[Len(x)] = "reply" /\ \A n \in 1 .. Len(x) - 1 : Follows(x[n + 1], x[n])
      BY <2>2
    <2> QED
      BY <2>1, <2>3, <2>4, OwnPlanIs DEF x
  <1>16. ASSUME program = "calc", proc = 1
        PROVE  IsPlanFor(<<"getargs", "calculator_proc", "reply">>, proc, arg)
    <2> DEFINE x == <<"getargs", "calculator_proc", "reply">>
               S == {"getargs", "calculator_proc", "reply"}
    <2>1. x \in Seq(S)
      OBVIOUS
    <2>2. Len(x) = 3 /\ x[3] = "reply" /\ \A n \in 1 .. 2 : Follows(x[n + 1], x[n])
      BY DEF Follows
    <2>3. S \subseteq OwnSteps(proc, arg)
      BY <1>16 DEF OwnSteps, DictServers
    <2> HIDE DEF x, S
    <2>4. Len(x) \in 1 .. 8 /\ x[Len(x)] = "reply" /\ \A n \in 1 .. Len(x) - 1 : Follows(x[n + 1], x[n])
      BY <2>2
    <2> QED
      BY <2>1, <2>3, <2>4, OwnPlanIs DEF x
  <1> QED
    BY <1>1, <1>2, <1>3, <1>4, <1>5, <1>6, <1>7, <1>8, <1>9, <1>10, <1>11, <1>12, <1>13, <1>14, <1>15, <1>16

\* The plan of each procedure, and its first step.
LEMMA Serves ==
    ASSUME program \in AllPrograms, NEW proc \in DOMAIN dispatch.serve, NEW arg
    PROVE  /\ proc \in 1 .. 4 /\ (program \in PcServers => proc \in {1, 2})
           /\ IsPlanFor(dispatch.serve[proc], proc, arg)
           /\ Len(dispatch.serve[proc]) > 0
           /\ dispatch.serve[proc][1] \in
                 IF program = "pc" THEN {"start"}
                 ELSE IF program \in DictServers /\ proc = 1 THEN {"initw"} ELSE {"getargs"}
  <1>1. CASE program = "pc"
    <2>1. proc \in {1, 2}
      BY <1>1, ServeIs
    <2>2. dispatch.serve[proc] = IF proc = 1 THEN <<"start", "put", "advance_prod", "stop", "reply">>
                                 ELSE <<"start", "take", "advance_cons", "stop", "reply">>
      BY <1>1, <2>1, ServeIs
    <2>3. IsPlanFor(dispatch.serve[proc], proc, arg)
      BY <1>1, <2>1, <2>2, PlansFor
    <2> QED
      BY <1>1, <2>1, <2>2, <2>3
  <1>2. CASE program \in Pc2Servers
    <2>1. proc \in {1, 2}
      BY <1>2, ServeIs
    <2>2. dispatch.serve[proc] = IF proc = 1
                                 THEN <<"getargs", "if", "start", "put", "advance_prod", "stop", "reply">>
                                 ELSE <<"getargs", "if", "start", "take", "advance_cons", "stop", "reply">>
      BY <1>2, <2>1, ServeIs
    <2>3. IsPlanFor(dispatch.serve[proc], proc, arg)
      BY <1>2, <2>1, <2>2, PlansFor
    <2> QED
      BY <1>2, <2>1, <2>2, <2>3 DEF Pc2Servers, DictServers
  <1>3. CASE program = "pc_last"
    <2>1. proc = 1 /\ dispatch.serve[proc] = <<"getargs", "service", "reply">>
      BY <1>3, ServeIs
    <2>2. IsPlanFor(dispatch.serve[proc], proc, arg)
      BY <1>3, <2>1, PlansFor
    <2> QED
      BY <1>3, <2>1, <2>2 DEF DictServers
  <1>4. CASE program \in DictServers
    <2>1. proc \in 1 .. 4
      BY <1>4, ServeIs
    <2>2. /\ proc = 1 => dispatch.serve[proc] = <<"initw", "reply">>
          /\ proc = 2 => dispatch.serve[proc] = <<"getargs", "strcpy", "load_inc", "store_inc", "reply">>
          /\ proc = 3 => dispatch.serve[proc] = <<"getargs", "scan", "load_dec", "store_dec", "move", "reply">>
          /\ proc = 4 => dispatch.serve[proc] = <<"getargs", "lookupw", "reply">>
      BY <1>4, ServeIs
    <2>3. proc = 1 \/ proc = 2 \/ proc = 3 \/ proc = 4
      BY <2>1
    <2>4. IsPlanFor(dispatch.serve[proc], proc, arg)
      BY <1>4, <2>2, <2>3, PlansFor
    <2>5. Len(dispatch.serve[proc]) > 0 /\ dispatch.serve[proc][1] = IF proc = 1 THEN "initw" ELSE "getargs"
      BY <2>2, <2>3
    <2>6. program # "pc" /\ program \notin PcServers
      BY <1>4 DEF DictServers, PcServers
    <2> QED
      BY <1>4, <2>1, <2>4, <2>5, <2>6
  <1>5. CASE program \in {"obakery", "obakery_old"}
    <2>1. proc \in {1, 2}
      BY <1>5, ServeIs
    <2>2. /\ program = "obakery" /\ proc = 1 => dispatch.serve[proc] = <<"getargs", "get_number", "reply">>
          /\ program = "obakery" /\ proc = 2 => dispatch.serve[proc] = <<"getargs", "serve", "reply">>
          /\ program = "obakery_old" /\ proc = 1 =>
                dispatch.serve[proc] = <<"getargs", "get_number_of_ind", "reply">>
          /\ program = "obakery_old" /\ proc = 2 => dispatch.serve[proc] = <<"getargs", "compute", "reply">>
      BY <1>5, ServeIs
    <2>3. IsPlanFor(dispatch.serve[proc], proc, arg)
      BY <1>5, <2>1, <2>2, PlansFor
    <2>4. Len(dispatch.serve[proc]) > 0 /\ dispatch.serve[proc][1] = "getargs"
      BY <1>5, <2>1, <2>2
    <2> QED
      BY <1>5, <2>1, <2>3, <2>4 DEF DictServers, PcServers
  <1>6. CASE program = "calc"
    <2>1. proc = 1 /\ dispatch.serve[proc] = <<"getargs", "calculator_proc", "reply">>
      BY <1>6, ServeIs
    <2>2. IsPlanFor(dispatch.serve[proc], proc, arg)
      BY <1>6, <2>1, PlansFor
    <2> QED
      BY <1>6, <2>1, <2>2 DEF DictServers, PcServers
  <1> QED
    BY <1>1, <1>2, <1>3, <1>4, <1>5, <1>6 DEF AllPrograms

\* The calls of a client, and what they are for.
CallOK(r) ==
    /\ r.proc \in DOMAIN dispatch.serve /\ r.proc \in Nat
    /\ r.arg \in Arguments(r.proc) /\ r.arg \in prog.args \cup {NoArg}
    /\ r.wants = Wanted(r.proc, r.arg)
    /\ r = Rpc(r.proc, r.arg, r.wants)

\* A call that is made for what its procedure does.
LEMMA CallIs ==
    ASSUME NEW proc \in Nat, proc \in DOMAIN dispatch.serve, NEW arg, arg \in Arguments(proc),
           NEW wants, wants = Wanted(proc, arg)
    PROVE  CallOK(Rpc(proc, arg, wants))
  <1>1. /\ Rpc(proc, arg, wants).proc = proc /\ Rpc(proc, arg, wants).arg = arg
        /\ Rpc(proc, arg, wants).wants = wants
    BY DEF Rpc
  <1>2. arg \in prog.args \cup {NoArg}
    BY DEF Arguments
  <1> HIDE DEF Rpc
  <1> QED
    BY <1>1, <1>2 DEF CallOK


\* What the calls of each program are for.
LEMMA WantedIs ==
    ASSUME NEW proc, NEW arg
    PROVE  /\ program \in {"pc"} \cup Pc2Servers => Wanted(proc, arg) = IF proc = 1 THEN {"put"} ELSE {"take"}
           /\ program = "pc_last" => Wanted(proc, arg) = IF arg = 0 THEN {"put"} ELSE {"take"}
           /\ program \in DictServers => Wanted(proc, arg) =
                 IF proc = 1 THEN {"initw"} ELSE IF proc = 2 THEN {"insertw"}
                 ELSE IF proc = 3 THEN {"deletew"} ELSE {"lookupw"}
           /\ program = "obakery" => Wanted(proc, arg) = IF proc = 1 THEN {"get_number"} ELSE {"serve", "late"}
           /\ program = "obakery_old" =>
                 Wanted(proc, arg) = IF proc = 1 THEN {"get_number_of_ind"} ELSE {"compute"}
           /\ program = "calc" => Wanted(proc, arg) = {"calculator_proc"}
  <1>1. ASSUME program \in {"pc"} \cup Pc2Servers
        PROVE  Wanted(proc, arg) = IF proc = 1 THEN {"put"} ELSE {"take"}
    BY <1>1 DEF Wanted, Pc2Servers, DictServers
  <1>2. ASSUME program = "pc_last"
        PROVE  Wanted(proc, arg) = IF arg = 0 THEN {"put"} ELSE {"take"}
    BY <1>2 DEF Wanted, DictServers
  <1>3. ASSUME program \in DictServers
        PROVE  Wanted(proc, arg) = IF proc = 1 THEN {"initw"} ELSE IF proc = 2 THEN {"insertw"}
                                   ELSE IF proc = 3 THEN {"deletew"} ELSE {"lookupw"}
    BY <1>3 DEF Wanted, DictServers
  <1>4. ASSUME program = "obakery"
        PROVE  Wanted(proc, arg) = IF proc = 1 THEN {"get_number"} ELSE {"serve", "late"}
    BY <1>4 DEF Wanted, DictServers
  <1>5. ASSUME program = "obakery_old"
        PROVE  Wanted(proc, arg) = IF proc = 1 THEN {"get_number_of_ind"} ELSE {"compute"}
    BY <1>5 DEF Wanted, DictServers
  <1>6. ASSUME program = "calc"
        PROVE  Wanted(proc, arg) = {"calculator_proc"}
    BY <1>6 DEF Wanted, DictServers
  <1> QED
    BY <1>1, <1>2, <1>3, <1>4, <1>5, <1>6

\* The arguments, and the procedures registered.
LEMMA ArgumentsAre ==
    ASSUME program \in AllPrograms
    PROVE  /\ program \in {"pc", "calc"} \cup Pc2Servers => prog.args = {NoArg}
           /\ program = "pc_last" => prog.args = {0, 1, RoleLetter}
           /\ program \in DictServers => prog.args = Words
           /\ program \in {"obakery", "obakery_old"} => prog.args = Slots
           /\ DOMAIN dispatch.serve = IF program \in DictServers THEN 1 .. 4
                                      ELSE IF program \in {"pc_last", "calc"} THEN {1} ELSE {1, 2}
           /\ \A proc : Arguments(proc) = IF program \in DictServers /\ proc = 1 THEN {NoArg} ELSE prog.args
  <1>1. CASE program = "pc"
    BY <1>1, ProgramIs, ServeIs DEF pc, Arguments, DictServers, Pc2Servers
  <1>2. CASE program \in Pc2Servers
    BY <1>2, ProgramIs, ServeIs DEF pc2, Arguments, DictServers, Pc2Servers
  <1>3. CASE program = "pc_last"
    BY <1>3, ProgramIs, ServeIs DEF pc_last, Arguments, DictServers, Pc2Servers
  <1>4. CASE program \in DictServers
    <2>1. DOMAIN dispatch.serve = 1 .. 4
      BY <1>4, ServeIs
    <2>2. prog.args = Words
      BY <1>4, ProgramIs DEF dict_threads, dict_one, DictServers
    <2> QED
      BY <1>4, <2>1, <2>2 DEF Arguments, DictServers, Pc2Servers
  <1>5. CASE program = "obakery"
    BY <1>5, ProgramIs, ServeIs DEF obakery, Arguments, DictServers, Pc2Servers
  <1>6. CASE program = "obakery_old"
    BY <1>6, ProgramIs, ServeIs DEF obakery_old, Arguments, DictServers, Pc2Servers
  <1>7. CASE program = "calc"
    BY <1>7, ProgramIs, ServeIs DEF calc, Arguments, DictServers, Pc2Servers
  <1> QED
    BY <1>1, <1>2, <1>3, <1>4, <1>5, <1>6, <1>7 DEF AllPrograms

\* A client has a role with calls, and the calls are for what they do.
ClientOK ==
    LET runs == prog.client.runs IN
    /\ prog.client.roles \subseteq DOMAIN runs
    /\ DOMAIN runs \subseteq {0, 1, RoleLetter} \cup Slots
    /\ \A p \in DOMAIN runs : runs[p].failed \in DOMAIN runs \cup {Ended}
    /\ \A p \in DOMAIN runs : \A n \in 1 .. MaxCalls : \A r \in runs[p].calls[n] : CallOK(r)

\* The roles are distinct from that of a client that has ended.
LEMMA Roles == Ended \notin {0, 1, RoleLetter} \cup Slots /\ 0 \in Slots /\ NoArg \in Slots
  BY RpcProgramsAssumption DEF Ended, RoleLetter, Slots, NoArg

LEMMA ClientIs == ASSUME program \in AllPrograms PROVE ClientOK
  <1>1. CASE program = "pc"
    <2>1. prog.client = [roles |-> {0, 1}, runs |-> pc_client]
      BY <1>1, ProgramIs DEF pc, pc_client_main
    <2>2. ASSUME NEW p \in {0, 1}, NEW n \in 1 .. MaxCalls, NEW r \in pc_client[p].calls[n]
          PROVE  CallOK(r)
      <3>1. p + 1 \in {1, 2} /\ <<{"put"}, {"take"}>>[p + 1] = IF p + 1 = 1 THEN {"put"} ELSE {"take"}
        OBVIOUS
      <3>2. r = Rpc(p + 1, NoArg, IF p + 1 = 1 THEN {"put"} ELSE {"take"})
        BY <3>1 DEF pc_client, Forever
      <3>3. NoArg \in Arguments(p + 1) /\ p + 1 \in DOMAIN dispatch.serve
        BY <1>1, <3>1, ArgumentsAre DEF DictServers
      <3>4. Wanted(p + 1, NoArg) = IF p + 1 = 1 THEN {"put"} ELSE {"take"}
        BY <1>1, WantedIs
      <3> QED
        BY <3>1, <3>2, <3>3, <3>4, CallIs
    <2>3. DOMAIN pc_client = {0, 1} /\ \A p \in {0, 1} : pc_client[p].failed = Ended
      BY DEF pc_client
    <2> QED
      BY <2>1, <2>2, <2>3 DEF ClientOK
  <1>2. CASE program \in Pc2Servers
    <2>1. prog.client = [roles |-> {0, 1}, runs |-> pc2_client]
      BY <1>2, ProgramIs DEF pc2, pc2_client_main
    <2>2. ASSUME NEW p \in {0, 1}, NEW n \in 1 .. MaxCalls, NEW r \in pc2_client[p].calls[n]
          PROVE  CallOK(r)
      <3>1. p + 1 \in {1, 2} /\ <<{"put"}, {"take"}>>[p + 1] = IF p + 1 = 1 THEN {"put"} ELSE {"take"}
        OBVIOUS
      <3>2. r = Rpc(p + 1, NoArg, IF p + 1 = 1 THEN {"put"} ELSE {"take"})
        BY <3>1 DEF pc2_client, Forever
      <3>3. NoArg \in Arguments(p + 1) /\ p + 1 \in DOMAIN dispatch.serve
        BY <1>2, <3>1, ArgumentsAre DEF DictServers, Pc2Servers
      <3>4. Wanted(p + 1, NoArg) = IF p + 1 = 1 THEN {"put"} ELSE {"take"}
        BY <1>2, WantedIs
      <3> QED
        BY <3>1, <3>2, <3>3, <3>4, CallIs
    <2>3. DOMAIN pc2_client = {0, 1} /\ \A p \in {0, 1} : pc2_client[p].failed = p
      BY DEF pc2_client
    <2> QED
      BY <2>1, <2>2, <2>3 DEF ClientOK
  <1>3. CASE program = "pc_last"
    <2>1. prog.client = [roles |-> {0, 1}, runs |-> pc_last_client]
      BY <1>3, ProgramIs DEF pc_last, pc_last_client_main
    <2> DEFINE roles == {0, 1, RoleLetter}
    <2>2. ASSUME NEW p \in roles, NEW n \in 1 .. MaxCalls, NEW r \in pc_last_client[p].calls[n]
          PROVE  CallOK(r)
      <3>1. r = Rpc(1, p, IF p = 0 THEN {"put"} ELSE {"take"})
        BY DEF pc_last_client, Forever
      <3>2. p \in Arguments(1) /\ 1 \in DOMAIN dispatch.serve
        BY <1>3, ArgumentsAre DEF DictServers
      <3>3. Wanted(1, p) = IF p = 0 THEN {"put"} ELSE {"take"}
        BY <1>3, WantedIs
      <3> QED
        BY <3>1, <3>2, <3>3, CallIs
    <2>3. DOMAIN pc_last_client = roles /\ \A p \in roles : pc_last_client[p].failed \in roles \cup {Ended}
      BY DEF pc_last_client
    <2> QED
      BY <2>1, <2>2, <2>3 DEF ClientOK
  <1>4. CASE program \in DictServers
    <2>1. prog.client = [roles |-> {0}, runs |-> dict_client]
      BY <1>4, ProgramIs DEF dict_threads, dict_one, dict_client_main, DictServers
    <2>2. ASSUME NEW p \in {0}, NEW n \in 1 .. MaxCalls, NEW r \in dict_client[p].calls[n]
          PROVE  CallOK(r)
      <3>1. r \in nextin
        BY DEF dict_client, Forever
      <3>2. DOMAIN dispatch.serve = 1 .. 4 /\ Arguments(1) = {NoArg} /\ \A proc \in {2, 3, 4} : Arguments(proc) = Words
        BY <1>4, ArgumentsAre
      <3>3. CASE r = Rpc(1, NoArg, {"initw"})
        <4>1. Wanted(1, NoArg) = {"initw"}
          BY <1>4, WantedIs
        <4> QED
          BY <3>2, <3>3, <4>1, CallIs
      <3>4. ASSUME NEW w \in Words, r = Rpc(2, w, {"insertw"}) PROVE CallOK(r)
        <4>1. Wanted(2, w) = {"insertw"}
          BY <1>4, WantedIs
        <4> QED
          BY <3>2, <3>4, <4>1, CallIs
      <3>5. ASSUME NEW w \in Words, r = Rpc(3, w, {"deletew"}) PROVE CallOK(r)
        <4>1. Wanted(3, w) = {"deletew"}
          BY <1>4, WantedIs
        <4> QED
          BY <3>2, <3>5, <4>1, CallIs
      <3>6. ASSUME NEW w \in Words, r = Rpc(4, w, {"lookupw"}) PROVE CallOK(r)
        <4>1. Wanted(4, w) = {"lookupw"}
          BY <1>4, WantedIs
        <4> QED
          BY <3>2, <3>6, <4>1, CallIs
      <3> QED
        BY <3>1, <3>3, <3>4, <3>5, <3>6 DEF nextin
    <2>3. DOMAIN dict_client = {0} /\ dict_client[0].failed = 0
      BY DEF dict_client
    <2> QED
      BY <2>1, <2>2, <2>3 DEF ClientOK
  <1>5. CASE program = "obakery"
    <2>1. prog.client = [roles |-> {0}, runs |-> obakery_client]
      BY <1>5, ProgramIs DEF obakery, obakery_client_main
    <2>2. ASSUME NEW p \in {0}, NEW n \in 1 .. MaxCalls, NEW r \in obakery_client[p].calls[n]
          PROVE  CallOK(r)
      <3>1. \/ r = Rpc(1, NoArg, {"get_number"})
            \/ \E ind \in Slots : r = Rpc(2, ind, {"serve", "late"})
        BY DEF obakery_client
      <3>2. DOMAIN dispatch.serve = {1, 2} /\ \A proc : Arguments(proc) = Slots
        BY <1>5, ArgumentsAre DEF DictServers
      <3>3. Wanted(1, NoArg) = {"get_number"} /\ \A ind \in Slots : Wanted(2, ind) = {"serve", "late"}
        BY <1>5, WantedIs
      <3>4. CASE r = Rpc(1, NoArg, {"get_number"})
        BY <3>2, <3>3, <3>4, Roles, CallIs
      <3>5. ASSUME NEW ind \in Slots, r = Rpc(2, ind, {"serve", "late"}) PROVE CallOK(r)
        BY <3>2, <3>3, <3>5, CallIs
      <3> QED
        BY <3>1, <3>4, <3>5
    <2>3. DOMAIN obakery_client = {0} /\ obakery_client[0].failed = Ended
      BY DEF obakery_client
    <2> QED
      BY <2>1, <2>2, <2>3 DEF ClientOK
  <1>6. CASE program = "obakery_old"
    <2>1. prog.client = [roles |-> Slots, runs |-> old_client]
      BY <1>6, ProgramIs DEF obakery_old, old_client_main
    <2>2. ASSUME NEW p \in Slots, NEW n \in 1 .. MaxCalls, NEW r \in old_client[p].calls[n]
          PROVE  CallOK(r)
      <3>1. r = Rpc(1, p, {"get_number_of_ind"}) \/ r = Rpc(2, p, {"compute"})
        BY DEF old_client
      <3>2. DOMAIN dispatch.serve = {1, 2} /\ \A proc : Arguments(proc) = Slots
        BY <1>6, ArgumentsAre DEF DictServers
      <3>3. Wanted(1, p) = {"get_number_of_ind"} /\ Wanted(2, p) = {"compute"}
        BY <1>6, WantedIs
      <3>4. CASE r = Rpc(1, p, {"get_number_of_ind"})
        BY <3>2, <3>3, <3>4, CallIs
      <3>5. CASE r = Rpc(2, p, {"compute"})
        BY <3>2, <3>3, <3>5, CallIs
      <3> QED
        BY <3>1, <3>4, <3>5
    <2>3. DOMAIN old_client = Slots /\ \A p \in Slots : old_client[p].failed = Ended
      BY DEF old_client
    <2> QED
      BY <2>1, <2>2, <2>3 DEF ClientOK
  <1>7. CASE program = "calc"
    <2>1. prog.client = [roles |-> {0}, runs |-> calculator_prog_1]
      BY <1>7, ProgramIs DEF calc, calculator_client_main
    <2>2. ASSUME NEW p \in {0}, NEW n \in 1 .. MaxCalls, NEW r \in calculator_prog_1[p].calls[n]
          PROVE  CallOK(r)
      <3>1. r = Rpc(1, NoArg, {"calculator_proc"})
        BY DEF calculator_prog_1
      <3>2. 1 \in DOMAIN dispatch.serve /\ NoArg \in Arguments(1)
        BY <1>7, ArgumentsAre DEF DictServers
      <3>3. Wanted(1, NoArg) = {"calculator_proc"}
        BY <1>7, WantedIs
      <3> QED
        BY <3>1, <3>2, <3>3, CallIs
    <2>3. DOMAIN calculator_prog_1 = {0} /\ calculator_prog_1[0].failed = Ended
      BY DEF calculator_prog_1
    <2> QED
      BY <2>1, <2>2, <2>3 DEF ClientOK
  <1> QED
    BY <1>1, <1>2, <1>3, <1>4, <1>5, <1>6, <1>7 DEF AllPrograms

(***************************************************************************)
(* What the steps of a thread do to the threads.                           *)
(***************************************************************************)
\* The predicates depend on no variable but the program, which never changes.
LEMMA SameProgram ==
    ASSUME program' = program
    PROVE  /\ prog' = prog /\ dispatch' = dispatch /\ Steps' = Steps /\ ThreadRecords' = ThreadRecords
           /\ Datagrams' = Datagrams
           /\ \A x : ThreadOK(x) => ThreadOK(x)'
           /\ \A p, a : Arguments(p)' = Arguments(p) /\ Wanted(p, a)' = Wanted(p, a)
           /\ \A p, a : OwnSteps(p, a)' = OwnSteps(p, a)
  <1>1. prog' = prog
    BY DEF prog
  <1>2. dispatch' = dispatch
    BY <1>1 DEF dispatch
  <1>3. Steps' = Steps
    BY DEF Steps
  <1>4. ThreadRecords' = ThreadRecords
    BY <1>1, <1>3 DEF ThreadRecords
  <1>5. Datagrams' = Datagrams
    BY <1>1, <1>2 DEF Datagrams
  <1>6. \A x : ThreadOK(x) => ThreadOK(x)'
    BY <1>3 DEF ThreadOK, IsPlan
  <1>7. \A p, a : Arguments(p)' = Arguments(p)
    BY <1>1 DEF Arguments
  <1>8. \A p, a : Wanted(p, a)' = Wanted(p, a)
    BY DEF Wanted
  <1>9. \A p, a : OwnSteps(p, a)' = OwnSteps(p, a)
    BY DEF OwnSteps
  <1> QED
    BY <1>1, <1>2, <1>3, <1>4, <1>5, <1>6, <1>7, <1>8, <1>9

\* What remains of a plan after its first step.
LEMMA PlanTail ==
    ASSUME NEW s, IsPlan(s), s # <<>>
    PROVE  /\ Len(s) \in Nat \ {0} /\ Head(s) = s[1] /\ Tail(s) \in Seq(Steps)
           /\ Len(Tail(s)) = Len(s) - 1 /\ \A n \in 1 .. Len(s) - 1 : Tail(s)[n] = s[n + 1]
           /\ IsPlan(Tail(s))
           /\ Tail(s) = <<>> => Head(s) \in {"switch", "reply"}
           /\ Tail(s) # <<>> => Follows(Head(Tail(s)), Head(s))
  <1>1. s \in Seq(Steps) /\ Len(s) <= 8 /\ s[Len(s)] \in {"switch", "reply"}
    BY DEF IsPlan
  <1>2. /\ Len(s) \in Nat \ {0} /\ Head(s) = s[1] /\ Tail(s) \in Seq(Steps)
        /\ Len(Tail(s)) = Len(s) - 1 /\ \A n \in 1 .. Len(s) - 1 : Tail(s)[n] = s[n + 1]
    BY <1>1
  <1> DEFINE u == Tail(s)
  <1> HIDE DEF u
  <1>3. ASSUME NEW n \in 1 .. Len(u) - 1 PROVE Follows(u[n + 1], u[n])
    <2>1. u[n] = s[n + 1] /\ u[n + 1] = s[n + 1 + 1] /\ n + 1 \in 1 .. Len(s) - 1
      BY <1>2 DEF u
    <2> QED
      BY <2>1 DEF IsPlan
  <1>4. ASSUME u # <<>> PROVE Len(u) > 0 /\ u[Len(u)] = s[Len(s)]
    <2>1. Len(u) \in 1 .. Len(s) - 1 /\ Len(u) + 1 = Len(s)
      BY <1>2, <1>4 DEF u
    <2>2. u[Len(u)] = s[Len(u) + 1]
      BY <1>2, <2>1 DEF u
    <2> QED
      BY <2>1, <2>2
  <1>5. u \in Seq(Steps) /\ Len(u) <= 8
    BY <1>1, <1>2 DEF u
  <1>6. IsPlan(u)
    BY <1>1, <1>3, <1>4, <1>5 DEF IsPlan
  <1>7. ASSUME u = <<>> PROVE Head(s) \in {"switch", "reply"}
    <2>1. Len(u) = 0 /\ Len(u) = Len(s) - 1 /\ Len(s) \in Nat
      BY <1>2, <1>7 DEF u
    <2>2. Len(s) = 1
      BY <2>1
    <2> QED
      BY <1>1, <1>2, <2>2
  <1>8. ASSUME u # <<>> PROVE Follows(Head(u), Head(s))
    <2>1. Head(u) = u[1] /\ 1 \in 1 .. Len(s) - 1
      BY <1>2, <1>4, <1>5, <1>8 DEF u
    <2>2. Head(u) = s[1 + 1]
      BY <1>2, <2>1 DEF u
    <2> QED
      BY <1>2, <2>1, <2>2 DEF IsPlan
  <1> QED
    BY <1>2, <1>6, <1>7, <1>8 DEF u

\* A plan ends with its answer.
LEMMA LastIsReply == ASSUME NEW s, IsPlan(s), s # <<>>, Head(s) = "reply" PROVE Tail(s) = <<>>
  BY PlanTail DEF Follows

\* One thread's record is replaced.
Others(t) ==
    /\ thr' \in Seq(ThreadRecords) /\ Len(thr') = Len(thr) /\ DOMAIN thr' = DOMAIN thr
    /\ \A u \in DOMAIN thr : u # t => thr'[u] = thr[u]
MovesOn(t) ==
    /\ Others(t)
    /\ thr'[t].todo = Tail(thr[t].todo) /\ thr'[t].alone = thr[t].alone
    /\ thr'[t].arg = thr[t].arg /\ thr'[t].ops = thr[t].ops

LEMMA OneChanges ==
    ASSUME ThreadsInv, NEW t \in DOMAIN thr, NEW x \in ThreadRecords, thr' = [thr EXCEPT ![t] = x]
    PROVE  Others(t) /\ thr'[t] = x
  <1>1. thr \in Seq(ThreadRecords)
    BY DEF ThreadsInv
  <1> QED
    BY <1>1 DEF Others

\* What a place tells.
LEMMA AtPlace ==
    ASSUME ThreadsInv, NEW t \in DOMAIN thr, NEW s, At(t, s)
    PROVE  /\ thr[t] \in ThreadRecords /\ ThreadOK(thr[t]) /\ IsPlan(thr[t].todo)
           /\ thr[t].todo # <<>> /\ Head(thr[t].todo) = s /\ Place(thr[t]) = s
           /\ Tail(thr[t].todo) \in Seq(Steps)
  <1>1. thr[t] \in ThreadRecords /\ ThreadOK(thr[t])
    BY DEF ThreadsInv
  <1>2. IsPlan(thr[t].todo)
    BY <1>1 DEF ThreadOK
  <1>3. thr[t].todo # <<>> /\ Head(thr[t].todo) = s
    BY DEF At
  <1>4. Tail(thr[t].todo) \in Seq(Steps)
    BY <1>2, <1>3, PlanTail
  <1> QED
    BY <1>1, <1>2, <1>3, <1>4 DEF Place

\* A step that changes nothing else in the record.
LEMMA Passes ==
    ASSUME ThreadsInv, NEW t \in DOMAIN thr, NEW s, At(t, s), Pass(t)
    PROVE  MovesOn(t) /\ thr'[t].did = thr[t].did /\ thr'[t].reg = thr[t].reg /\ thr'[t].i = thr[t].i
  <1> DEFINE x == [thr[t] EXCEPT !.todo = Tail(@)]
  <1>1. x \in ThreadRecords
    BY AtPlace DEF ThreadRecords
  <1>2. thr' = [thr EXCEPT ![t] = x]
    BY DEF Pass
  <1>3. /\ x.todo = Tail(thr[t].todo) /\ x.alone = thr[t].alone /\ x.arg = thr[t].arg
        /\ x.ops = thr[t].ops /\ x.did = thr[t].did /\ x.reg = thr[t].reg /\ x.i = thr[t].i
    BY AtPlace DEF ThreadRecords
  <1> HIDE DEF x
  <1> QED
    BY <1>1, <1>2, <1>3, OneChanges DEF MovesOn

\* A step that a client takes the answer for.
LEMMA DoesIt ==
    ASSUME ThreadsInv, NEW t \in DOMAIN thr, NEW s, At(t, s), NEW step \in Outcomes, Does(t, step)
    PROVE  MovesOn(t) /\ thr'[t].did = step
  <1> DEFINE x == [thr[t] EXCEPT !.todo = Tail(@), !.reg = 0, !.i = 0, !.did = step]
  <1>0. thr[t] \in ThreadRecords /\ Tail(thr[t].todo) \in Seq(Steps) /\ 0 \in Int /\ 0 \in Nat
    BY AtPlace
  <1>1. x \in ThreadRecords
    BY <1>0 DEF ThreadRecords
  <1>2. thr' = [thr EXCEPT ![t] = x]
    BY DEF Does
  <1>3. /\ x.todo = Tail(thr[t].todo) /\ x.alone = thr[t].alone /\ x.arg = thr[t].arg
        /\ x.ops = thr[t].ops /\ x.did = step
    BY AtPlace DEF ThreadRecords
  <1> HIDE DEF x
  <1> QED
    BY <1>1, <1>2, <1>3, OneChanges DEF MovesOn

\* The next step of a plan can be carried out with the same record.
LEMMA NextIsOK ==
    ASSUME NEW x, ThreadOK(x), x.todo # <<>>, Head(x.todo) \notin {"switch", "getargs"},
           NEW y, y.todo = Tail(x.todo), y.arg = x.arg, y.ops = x.ops \/ y.ops \in {1, 2}
    PROVE  ThreadOK(y)
  <1>1. IsPlan(x.todo)
    BY DEF ThreadOK
  <1>2. IsPlan(y.todo)
    BY <1>1, PlanTail
  <1>3. Place(x) = Head(x.todo)
    BY DEF Place
  <1>4. Place(y) # "end" => Follows(Place(y), Place(x))
    BY <1>1, <1>3, PlanTail DEF Place
  <1>5. Place(x) # "end"
    BY <1>1, <1>3, PlanTail DEF Follows
  <1>6. program \in PcServers /\ Place(y) \notin {"switch", "end"} => y.ops \in {1, 2}
    BY <1>3, <1>5 DEF ThreadOK
  <1>7. Place(y) \notin {"switch", "initw"}
    BY <1>4 DEF Follows
  <1>8. ASSUME Place(y) \in {"strcpy", "load_inc", "store_inc", "scan", "load_dec", "store_dec", "move", "lookupw"}
        PROVE  y.arg \in Words
    <2>1. Place(x) \in {"strcpy", "load_inc", "store_inc", "scan", "load_dec", "store_dec", "move", "lookupw"}
      BY <1>3, <1>4, <1>8 DEF Follows
    <2> QED
      BY <2>1 DEF ThreadOK
  <1> QED
    BY <1>2, <1>6, <1>7, <1>8 DEF ThreadOK

\* A thread that has ended is forgotten.
Shift(u, t) == IF u < t THEN u ELSE u + 1
LEMMA EndsIs ==
    ASSUME ThreadsInv, NEW t \in DOMAIN thr, Ends(t)
    PROVE  /\ thr' \in Seq(ThreadRecords) /\ Len(thr') = Len(thr) - 1
           /\ \A u \in DOMAIN thr' : Shift(u, t) \in DOMAIN thr \ {t} /\ thr'[u] = thr[Shift(u, t)]
           /\ \A v \in DOMAIN thr \ {t} : \E u \in DOMAIN thr' : v = Shift(u, t)
           /\ \A u, v \in DOMAIN thr' : Shift(u, t) = Shift(v, t) => u = v
  <1>1. thr \in Seq(ThreadRecords) /\ t \in 1 .. Len(thr)
    BY DEF ThreadsInv
  <1>2. thr' = RemoveAt(thr, t)
    BY DEF Ends
  <1>3. /\ thr' \in Seq(ThreadRecords) /\ Len(thr') = Len(thr) - 1
        /\ \A u \in 1 .. Len(thr) - 1 : thr'[u] = IF u < t THEN thr[u] ELSE thr[u + 1]
    BY <1>1, <1>2, RemoveAtIs
  <1>4. DOMAIN thr' = 1 .. Len(thr) - 1 /\ DOMAIN thr = 1 .. Len(thr) /\ Len(thr) \in Nat
    BY <1>1, <1>3
  <1>5. \A u \in DOMAIN thr' : Shift(u, t) \in DOMAIN thr \ {t} /\ thr'[u] = thr[Shift(u, t)]
    BY <1>1, <1>3, <1>4 DEF Shift
  <1>6. \A u, v \in DOMAIN thr' : Shift(u, t) = Shift(v, t) => u = v
    BY <1>1, <1>4 DEF Shift
  <1>7. ASSUME NEW v \in DOMAIN thr \ {t} PROVE \E u \in DOMAIN thr' : v = Shift(u, t)
    <2>1. CASE v < t
      BY <1>1, <1>4, <2>1 DEF Shift
    <2>2. CASE ~(v < t)
      <3>1. v - 1 \in DOMAIN thr' /\ v = Shift(v - 1, t)
        BY <1>1, <1>4, <2>2 DEF Shift
      <3> QED
        BY <3>1
    <2> QED
      BY <2>1, <2>2
  <1> QED
    BY <1>3, <1>5, <1>6, <1>7

LEMMA ThreadsAfterEnd ==
    ASSUME ThreadsInv, program' = program, NEW t \in DOMAIN thr, Ends(t)
    PROVE  ThreadsInv'
  <1>1. \A u \in DOMAIN thr' : ThreadOK(thr'[u])
    BY EndsIs DEF ThreadsInv
  <1> QED
    BY <1>1, EndsIs, SameProgram DEF ThreadsInv

LEMMA ThreadsAfterMove ==
    ASSUME ThreadsInv, program' = program, NEW t \in DOMAIN thr, Others(t), ThreadOK(thr'[t])
    PROVE  ThreadsInv'
  <1>1. \A u \in DOMAIN thr' : ThreadOK(thr'[u])
    BY DEF ThreadsInv, Others
  <1> QED
    BY <1>1, SameProgram DEF ThreadsInv, Others

\* Whether the dispatcher decodes.
LEMMA GetargsIs ==
    ASSUME program \in AllPrograms
    PROVE  (program = "pc" => dispatch.getargs) /\ (program # "pc" => ~dispatch.getargs)
  <1>1. CASE program = "pc"
    <2>1. dispatch = pc_prog_1
      BY <1>1, ProgramIs DEF dispatch, pc, pc_main
    <2>2. pc_prog_1.getargs
      BY DEF pc_prog_1
    <2>3. program = "pc"
      BY <1>1 DEF Pc2Servers
    <2> QED
      BY <2>1, <2>2, <2>3
  <1>2. CASE program \in Pc2Servers
    <2>1. dispatch = pc2_prog_1
      BY <1>2, ProgramIs DEF dispatch, pc2, pc2_main
    <2>2. ~pc2_prog_1.getargs
      BY DEF pc2_prog_1
    <2>3. program # "pc"
      BY <1>2 DEF Pc2Servers
    <2> QED
      BY <2>1, <2>2, <2>3
  <1>3. CASE program = "pc_last"
    <2>1. dispatch = pc_last_prog_1
      BY <1>3, ProgramIs DEF dispatch, pc_last, pc_last_main
    <2>2. ~pc_last_prog_1.getargs
      BY DEF pc_last_prog_1
    <2>3. program # "pc"
      BY <1>3 DEF Pc2Servers
    <2> QED
      BY <2>1, <2>2, <2>3
  <1>4. CASE program = "dict_threads"
    <2>1. dispatch = dict_rdictprog_1
      BY <1>4, ProgramIs DEF dispatch, dict_threads, dict_main
    <2>2. ~dict_rdictprog_1.getargs
      BY DEF dict_rdictprog_1
    <2>3. program # "pc"
      BY <1>4 DEF Pc2Servers
    <2> QED
      BY <2>1, <2>2, <2>3
  <1>5. CASE program = "dict_one"
    <2>1. dispatch = copy_rdictprog_1
      BY <1>5, ProgramIs DEF dispatch, dict_one, dict_copy_main
    <2>2. ~copy_rdictprog_1.getargs
      BY DEF copy_rdictprog_1
    <2>3. program # "pc"
      BY <1>5 DEF Pc2Servers
    <2> QED
      BY <2>1, <2>2, <2>3
  <1>6. CASE program = "obakery"
    <2>1. dispatch = obakery_prog_1
      BY <1>6, ProgramIs DEF dispatch, obakery, obakery_main
    <2>2. ~obakery_prog_1.getargs
      BY DEF obakery_prog_1
    <2>3. program # "pc"
      BY <1>6 DEF Pc2Servers
    <2> QED
      BY <2>1, <2>2, <2>3
  <1>7. CASE program = "obakery_old"
    <2>1. dispatch = old_prog_1
      BY <1>7, ProgramIs DEF dispatch, obakery_old, old_main
    <2>2. ~old_prog_1.getargs
      BY DEF old_prog_1
    <2>3. program # "pc"
      BY <1>7 DEF Pc2Servers
    <2> QED
      BY <2>1, <2>2, <2>3
  <1>8. CASE program = "calc"
    <2>1. dispatch = calculator_svc_prog_1
      BY <1>8, ProgramIs DEF dispatch, calc, calculator_main
    <2>2. ~calculator_svc_prog_1.getargs
      BY DEF calculator_svc_prog_1
    <2>3. program # "pc"
      BY <1>8 DEF Pc2Servers
    <2> QED
      BY <2>1, <2>2, <2>3
  <1> QED
    BY <1>1, <1>2, <1>3, <1>4, <1>5, <1>6, <1>7, <1>8 DEF AllPrograms, DictServers

\* A datagram in the net.
LEMMA DatagramIs ==
    ASSUME CallsInv, program \in AllPrograms, NEW d \in net
    PROVE  /\ d.from \in Clients /\ d.call \in 1 .. MaxCalls /\ d.proc \in DOMAIN dispatch.serve
           /\ d.proc \in 1 .. 4 /\ (program \in PcServers => d.proc \in {1, 2})
           /\ d.arg \in prog.args \cup {NoArg} /\ d.arg \in Arguments(d.proc)
           /\ dispatch.getargs => d.arg = NoArg
  <1>1. d \in Datagrams /\ d.arg \in Arguments(d.proc)
    BY DEF CallsInv
  <1>2. /\ d.from \in Clients /\ d.call \in 1 .. MaxCalls /\ d.proc \in DOMAIN dispatch.serve
        /\ d.arg \in prog.args \cup {NoArg}
    BY <1>1 DEF Datagrams
  <1>3. ASSUME dispatch.getargs PROVE d.arg = NoArg
    <2>1. program = "pc"
      BY <1>3, GetargsIs
    <2>2. Arguments(d.proc) = {NoArg}
      BY <2>1, ArgumentsAre DEF DictServers
    <2> QED
      BY <1>1, <2>2
  <1> QED
    BY <1>1, <1>2, <1>3, Serves

\* The thread of the datagram received is new, and the others are not alone.
Started(d) == [todo |-> <<"switch">>, arg |-> IF dispatch.getargs THEN d.arg ELSE NoArg,
               ops |-> 0, reg |-> 0, i |-> 0, did |-> "nothing", alone |-> thr = <<>>]
LEMMA ReceiveIs ==
    ASSUME ThreadsInv, CallsInv, program \in AllPrograms, NEW d \in net, Receive(d)
    PROVE  /\ Started(d) \in ThreadRecords /\ ThreadOK(Started(d))
           /\ Started(d).arg = (IF dispatch.getargs THEN d.arg ELSE NoArg)
           /\ Started(d).alone = (thr = <<>>) /\ Started(d).todo = <<"switch">> /\ Place(Started(d)) = "switch"
           /\ thr' \in Seq(ThreadRecords) /\ Len(thr') = Len(thr) + 1 /\ Len(thr) \in Nat
           /\ thr'[Len(thr) + 1] = Started(d)
           /\ \A u \in DOMAIN thr : /\ thr'[u] \in ThreadRecords
                                    /\ thr'[u] = [thr[u] EXCEPT !.alone = FALSE]
                                    /\ thr'[u].todo = thr[u].todo /\ thr'[u].arg = thr[u].arg
                                    /\ thr'[u].ops = thr[u].ops /\ thr'[u].did = thr[u].did
                                    /\ thr'[u].reg = thr[u].reg /\ thr'[u].i = thr[u].i
                                    /\ thr'[u].alone = FALSE
  <1>1. thr \in Seq(ThreadRecords)
    BY DEF ThreadsInv
  <1> DEFINE f == [t \in DOMAIN thr |-> [thr[t] EXCEPT !.alone = FALSE]]
             x == Started(d)
  <1>2. ASSUME NEW u \in DOMAIN thr
        PROVE  /\ f[u] \in ThreadRecords /\ f[u] = [thr[u] EXCEPT !.alone = FALSE]
               /\ f[u].todo = thr[u].todo /\ f[u].arg = thr[u].arg
               /\ f[u].ops = thr[u].ops /\ f[u].did = thr[u].did
               /\ f[u].reg = thr[u].reg /\ f[u].i = thr[u].i /\ f[u].alone = FALSE
    <2>1. thr[u] \in ThreadRecords
      BY <1>1
    <2>2. f[u] = [thr[u] EXCEPT !.alone = FALSE]
      OBVIOUS
    <2> HIDE DEF f
    <2> QED
      BY <2>1, <2>2 DEF ThreadRecords
  <1>3. <<"switch">> \in Seq(Steps) /\ IsPlan(<<"switch">>)
    <2> DEFINE y == <<"switch">>
    <2>1. "switch" \in Steps
      BY DEF Steps
    <2>2. y \in Seq(Steps) /\ Len(y) = 1 /\ y[1] = "switch"
      BY <2>1
    <2> HIDE DEF y
    <2>3. IsPlan(y)
      BY <2>2 DEF IsPlan
    <2> QED
      BY <2>2, <2>3 DEF y
  <1>4. (IF dispatch.getargs THEN d.arg ELSE NoArg) = NoArg
    BY DatagramIs
  <1>5. /\ x.todo = <<"switch">> /\ x.arg = (IF dispatch.getargs THEN d.arg ELSE NoArg)
        /\ x.alone = (thr = <<>>) /\ Place(x) = "switch" /\ x.arg = NoArg
    BY <1>4 DEF Started, Place
  <1>6. x \in ThreadRecords
    <2>1. "nothing" \in Outcomes
      BY DEF Outcomes
    <2>2. (thr = <<>>) \in BOOLEAN
      OBVIOUS
    <2>3. x = [todo |-> <<"switch">>, arg |-> NoArg, ops |-> 0, reg |-> 0, i |-> 0, did |-> "nothing",
               alone |-> thr = <<>>]
      BY <1>4 DEF Started
    <2> QED
      BY <1>3, <2>1, <2>2, <2>3 DEF ThreadRecords
  <1>7. ThreadOK(x)
    BY <1>3, <1>5 DEF ThreadOK
  <1>8. f \in Seq(ThreadRecords) /\ Len(f) = Len(thr) /\ Len(thr) \in Nat
    <2>1. DOMAIN thr = 1 .. Len(thr) /\ Len(thr) \in Nat
      BY <1>1
    <2>2. f = [t \in 1 .. Len(thr) |-> f[t]]
      BY <2>1
    <2> HIDE DEF f
    <2>3. f \in [1 .. Len(thr) -> ThreadRecords]
      BY <1>2, <2>1, <2>2
    <2> QED
      BY <2>1, <2>3
  <1>9. thr' = Append(f, x)
    BY DEF Receive, Started
  <1> HIDE DEF f, x
  <1>10. /\ thr' \in Seq(ThreadRecords) /\ Len(thr') = Len(thr) + 1 /\ thr'[Len(thr) + 1] = x
         /\ \A u \in 1 .. Len(thr) : thr'[u] = f[u]
    BY <1>6, <1>8, <1>9, AppendProperties
  <1>11. DOMAIN thr = 1 .. Len(thr)
    BY <1>1
  <1> QED
    BY <1>2, <1>5, <1>6, <1>7, <1>8, <1>10, <1>11 DEF x

LEMMA ThreadsAfterReceive ==
    ASSUME ThreadsInv, CallsInv, program \in AllPrograms, NEW d \in net, Receive(d), program' = program
    PROVE  ThreadsInv'
  <1>1. ASSUME NEW u \in DOMAIN thr PROVE ThreadOK(thr'[u])
    <2>1. ThreadOK(thr[u])
      BY DEF ThreadsInv
    <2>2. thr'[u].todo = thr[u].todo /\ thr'[u].ops = thr[u].ops /\ thr'[u].arg = thr[u].arg
      BY ReceiveIs
    <2> QED
      BY <2>1, <2>2 DEF ThreadOK, Place
  <1>2. \A u \in DOMAIN thr' : u \in DOMAIN thr \/ u = Len(thr) + 1
    <2>1. DOMAIN thr = 1 .. Len(thr)
      BY DEF ThreadsInv
    <2>2. thr' \in Seq(ThreadRecords) /\ Len(thr') = Len(thr) + 1 /\ Len(thr) \in Nat
      BY ReceiveIs
    <2>3. DOMAIN thr' = 1 .. Len(thr) + 1
      BY <2>2
    <2> QED
      BY <2>1, <2>2, <2>3
  <1>3. \A u \in DOMAIN thr' : ThreadOK(thr'[u])
    BY <1>1, <1>2, ReceiveIs
  <1> QED
    BY <1>3, ReceiveIs, SameProgram DEF ThreadsInv

\* Which programs a step belongs to.
LEMMA StepsOf ==
    ASSUME program \in AllPrograms, NEW s \in Steps
    PROVE  /\ s \in {"if", "service", "start", "put", "advance_prod", "take", "advance_cons", "stop"} =>
                 program \in PcServers
           /\ s \in {"initw", "strcpy", "load_inc", "store_inc", "scan", "load_dec", "store_dec", "move",
                     "lookupw"} => program \in DictServers
           /\ s \in {"get_number", "get_number_of_ind", "serve", "compute", "calculator_proc"} =>
                 program \in {"obakery", "obakery_old", "calc"}
  <1>1. CASE program \in PcServers
    BY <1>1 DEF Steps, PcServers, DictServers
  <1>2. CASE program \in DictServers
    BY <1>2 DEF Steps, PcServers, DictServers
  <1>3. CASE program \in {"obakery", "obakery_old", "calc"}
    BY <1>3 DEF Steps, PcServers, DictServers
  <1> QED
    BY <1>1, <1>2, <1>3 DEF AllPrograms, Pc2Servers, PcServers

LEMMA PlaceIsStep ==
    ASSUME NEW x, IsPlan(x.todo), Place(x) # "end"
    PROVE  Place(x) \in Steps /\ x.todo # <<>> /\ Place(x) = Head(x.todo)
  <1>1. x.todo \in Seq(Steps) /\ x.todo # <<>>
    BY DEF IsPlan, Place
  <1>2. Place(x) = Head(x.todo)
    BY <1>1 DEF Place
  <1> QED
    BY <1>1, <1>2

\* The datagram that the threads have before them.
LEMMA CurIs ==
    ASSUME CallsInv, program \in AllPrograms, ThreadsInv, NEW t \in DOMAIN thr
    PROVE  /\ cur \in net /\ cur.proc \in DOMAIN dispatch.serve
           /\ cur.proc \in 1 .. 4 /\ (program \in PcServers => cur.proc \in {1, 2})
           /\ cur.arg \in prog.args \cup {NoArg} /\ cur.arg \in Arguments(cur.proc)
           /\ cur.from \in Clients /\ cur.call \in 1 .. MaxCalls
  <1>1. thr # <<>>
    BY DEF ThreadsInv
  <1>2. cur \in net
    BY <1>1 DEF CallsInv
  <1> QED
    BY <1>2, DatagramIs

LEMMA SwitchIs ==
    ASSUME CallsInv, program \in AllPrograms, ThreadsInv, NEW t \in DOMAIN thr, Switch(t)
    PROVE  /\ Others(t) /\ ThreadOK(thr'[t])
           /\ thr'[t].todo = dispatch.serve[cur.proc] /\ thr'[t].arg = thr[t].arg /\ thr[t].arg = NoArg
           /\ thr'[t].alone = thr[t].alone /\ thr'[t].did = thr[t].did
           /\ Place(thr'[t]) \in IF program = "pc" THEN {"start"}
                                 ELSE IF program \in DictServers /\ cur.proc = 1 THEN {"initw"}
                                 ELSE {"getargs"}
           /\ \A n \in DOMAIN thr'[t].todo : thr'[t].todo[n] \in OwnSteps(cur.proc, cur.arg)
  <1> DEFINE plan == dispatch.serve[cur.proc]
             p == cur.proc
             x == [thr[t] EXCEPT !.todo = plan, !.ops = p]
  <1>1. IsPlanFor(plan, p, cur.arg) /\ Len(plan) > 0 /\ p \in 1 .. 4 /\ (program \in PcServers => p \in {1, 2})
    BY CurIs, Serves
  <1>2. plan[1] \in IF program = "pc" THEN {"start"}
                    ELSE IF program \in DictServers /\ p = 1 THEN {"initw"} ELSE {"getargs"}
    BY CurIs, Serves
  <1>3. At(t, "switch") /\ thr' = [thr EXCEPT ![t] = x]
    BY DEF Switch
  <1>4. thr[t] \in ThreadRecords /\ ThreadOK(thr[t]) /\ Place(thr[t]) = "switch"
    BY <1>3, AtPlace
  <1>5. thr[t].arg = NoArg
    BY <1>4 DEF ThreadOK
  <1> HIDE DEF plan, p
  <1>6. IsPlan(plan) /\ plan \in Seq(Steps) /\ plan # <<>>
    BY <1>1 DEF IsPlan, IsPlanFor
  <1>7. /\ x \in ThreadRecords /\ x.todo = plan /\ x.ops = p /\ x.arg = thr[t].arg
        /\ x.alone = thr[t].alone /\ x.did = thr[t].did
    <2>1. p \in 0 .. 4
      BY <1>1
    <2> QED
      BY <1>4, <1>6, <2>1 DEF ThreadRecords
  <1> HIDE DEF x
  <1>8. Place(x) = plan[1]
    BY <1>6, <1>7 DEF Place
  <1>9. ThreadOK(x)
    <2>1. program \in PcServers => x.ops \in {1, 2}
      BY <1>1, <1>7
    <2>2. Place(x) \in {"start", "initw", "getargs"}
      BY <1>2, <1>8
    <2> QED
      BY <1>5, <1>6, <1>7, <2>1, <2>2 DEF ThreadOK
  <1>10. Others(t) /\ thr'[t] = x
    BY <1>3, <1>7, OneChanges
  <1>11. \A n \in DOMAIN plan : plan[n] \in OwnSteps(p, cur.arg)
    BY <1>1 DEF IsPlanFor
  <1> QED
    BY <1>2, <1>5, <1>7, <1>8, <1>9, <1>10, <1>11 DEF plan, p

LEMMA DecodesIs ==
    ASSUME CallsInv, program \in AllPrograms, ThreadsInv, NEW t \in DOMAIN thr, Getargs(t)
    PROVE  /\ Others(t) /\ ThreadOK(thr'[t]) /\ Place(thr[t]) = "getargs"
           /\ thr'[t].todo = Tail(thr[t].todo) /\ thr'[t].ops = thr[t].ops
           /\ thr'[t].alone = thr[t].alone /\ thr'[t].did = thr[t].did
           /\ Follows(Place(thr'[t]), "getargs")
           /\ fresh /\ cur.arg \in prog.args => thr'[t].arg = cur.arg
  <1>1. At(t, "getargs")
    BY DEF Getargs
  <1>2. PICK v \in prog.args : /\ fresh /\ cur.arg \in prog.args => v = cur.arg
                               /\ thr' = [thr EXCEPT ![t].todo = Tail(@), ![t].arg = v]
    BY DEF Getargs
  <1> DEFINE x == [thr[t] EXCEPT !.todo = Tail(@), !.arg = v]
  <1>3. /\ thr[t] \in ThreadRecords /\ ThreadOK(thr[t]) /\ IsPlan(thr[t].todo) /\ thr[t].todo # <<>>
        /\ Head(thr[t].todo) = "getargs" /\ Place(thr[t]) = "getargs" /\ Tail(thr[t].todo) \in Seq(Steps)
    BY <1>1, AtPlace
  <1>4. /\ x \in ThreadRecords /\ x.todo = Tail(thr[t].todo) /\ x.ops = thr[t].ops /\ x.arg = v
        /\ x.alone = thr[t].alone /\ x.did = thr[t].did
    BY <1>3 DEF ThreadRecords
  <1>5. thr' = [thr EXCEPT ![t] = x]
    BY <1>2
  <1> HIDE DEF x
  <1>6. Others(t) /\ thr'[t] = x
    BY <1>4, <1>5, OneChanges
  <1>7. IsPlan(x.todo) /\ x.todo # <<>> /\ Follows(Place(x), "getargs")
    BY <1>3, <1>4, PlanTail DEF Place
  <1>8. program \in PcServers => x.ops \in {1, 2}
    BY <1>3, <1>4 DEF ThreadOK
  <1>9. Place(x) \notin {"switch", "initw", "end"} /\ Place(x) \in Steps
    <2>1. Place(x) \notin {"switch", "initw", "end"}
      BY <1>7 DEF Follows
    <2> QED
      BY <1>7, <2>1, PlaceIsStep
  <1>10. ASSUME Place(x) \in {"strcpy", "load_inc", "store_inc", "scan", "load_dec", "store_dec", "move", "lookupw"}
         PROVE  x.arg \in Words
    <2>1. program \in DictServers
      BY <1>9, <1>10, StepsOf
    <2> QED
      BY <1>4, <2>1, ArgumentsAre
  <1>11. ThreadOK(x)
    BY <1>7, <1>8, <1>9, <1>10 DEF ThreadOK
  <1> QED
    BY <1>2, <1>3, <1>4, <1>6, <1>7, <1>11

LEMMA IfIs ==
    ASSUME CallsInv, program \in AllPrograms, ThreadsInv, NEW t \in DOMAIN thr, If(t)
    PROVE  /\ Others(t) /\ ThreadOK(thr'[t]) /\ Place(thr[t]) = "if"
           /\ thr'[t].todo = Tail(thr[t].todo) /\ thr'[t].arg = thr[t].arg
           /\ thr'[t].alone = thr[t].alone /\ thr'[t].did = thr[t].did
  <1>1. At(t, "if")
    BY DEF If
  <1>2. PICK p \in {cur.proc, 2} : thr' = [thr EXCEPT ![t].todo = Tail(@), ![t].ops = p]
    BY DEF If
  <1> DEFINE x == [thr[t] EXCEPT !.todo = Tail(@), !.ops = p]
  <1>3. /\ thr[t] \in ThreadRecords /\ ThreadOK(thr[t]) /\ IsPlan(thr[t].todo) /\ thr[t].todo # <<>>
        /\ Head(thr[t].todo) = "if" /\ Place(thr[t]) = "if" /\ Tail(thr[t].todo) \in Seq(Steps)
    BY <1>1, AtPlace
  <1>4. program \in PcServers
    <2>1. "if" \in Steps
      BY <1>3, PlaceIsStep
    <2> QED
      BY <2>1, StepsOf
  <1>5. p \in {1, 2}
    BY <1>4, CurIs
  <1>6. /\ x \in ThreadRecords /\ x.todo = Tail(thr[t].todo) /\ x.ops = p /\ x.arg = thr[t].arg
        /\ x.alone = thr[t].alone /\ x.did = thr[t].did
    <2>1. p \in 0 .. 4
      BY <1>5
    <2> QED
      BY <1>3, <2>1 DEF ThreadRecords
  <1>7. thr' = [thr EXCEPT ![t] = x]
    BY <1>2
  <1> HIDE DEF x
  <1>8. Others(t) /\ thr'[t] = x
    BY <1>6, <1>7, OneChanges
  <1>9. ThreadOK(x)
    BY <1>3, <1>5, <1>6, NextIsOK
  <1> QED
    BY <1>3, <1>6, <1>8, <1>9

\* The services of pc_last, with the answer that comes after them.
LEMMA ServicePlans ==
    ASSUME program \in PcServers
    PROVE  /\ IsPlan(<<>>)
           /\ IsPlan(<<"start", "put", "advance_prod", "stop", "reply">>)
           /\ IsPlan(<<"start", "take", "advance_cons", "stop", "reply">>)
  <1>1. IsPlan(<<>>)
    <2> DEFINE x == <<>>
    <2>1. x \in Seq(Steps) /\ Len(x) = 0 /\ x = <<>>
      OBVIOUS
    <2> HIDE DEF x
    <2>2. IsPlan(x)
      BY <2>1 DEF IsPlan
    <2> QED
      BY <2>1, <2>2
  <1>2. IsPlan(<<"start", "put", "advance_prod", "stop", "reply">>)
    <2> DEFINE x == <<"start", "put", "advance_prod", "stop", "reply">>
               S == {"start", "put", "advance_prod", "stop", "reply"}
    <2>1. x \in Seq(S)
      OBVIOUS
    <2>2. Len(x) = 5 /\ x[5] = "reply" /\ \A n \in 1 .. 4 : Follows(x[n + 1], x[n])
      BY DEF Follows
    <2>3. S \subseteq Steps
      BY DEF Steps, PcServers, DictServers
    <2> HIDE DEF x, S
    <2>4. Len(x) \in 1 .. 8 /\ x[Len(x)] = "reply" /\ \A n \in 1 .. Len(x) - 1 : Follows(x[n + 1], x[n])
      BY <2>2
    <2> QED
      BY <2>1, <2>3, <2>4, PlanIs DEF x
  <1>3. IsPlan(<<"start", "take", "advance_cons", "stop", "reply">>)
    <2> DEFINE x == <<"start", "take", "advance_cons", "stop", "reply">>
               S == {"start", "take", "advance_cons", "stop", "reply"}
    <2>1. x \in Seq(S)
      OBVIOUS
    <2>2. Len(x) = 5 /\ x[5] = "reply" /\ \A n \in 1 .. 4 : Follows(x[n + 1], x[n])
      BY DEF Follows
    <2>3. S \subseteq Steps
      BY DEF Steps, PcServers, DictServers
    <2> HIDE DEF x, S
    <2>4. Len(x) \in 1 .. 8 /\ x[Len(x)] = "reply" /\ \A n \in 1 .. Len(x) - 1 : Follows(x[n + 1], x[n])
      BY <2>2
    <2> QED
      BY <2>1, <2>3, <2>4, PlanIs DEF x
  <1> QED
    BY <1>1, <1>2, <1>3

\* A plan whose first step only an answer follows.
LEMMA OnlyReply ==
    ASSUME NEW s, IsPlan(s), s # <<>>, \A r : Follows(r, Head(s)) => r = "reply",
           Head(s) \notin {"switch", "reply"}
    PROVE  Tail(s) = <<"reply">>
  <1> DEFINE u == Tail(s)
  <1>1. IsPlan(u) /\ u # <<>> /\ Head(u) = "reply" /\ u \in Seq(Steps)
    BY PlanTail
  <1> HIDE DEF u
  <1>2. Tail(u) = <<>>
    BY <1>1, LastIsReply
  <1>3. Len(u) = 1 /\ u[1] = "reply"
    <2> DEFINE w == Tail(u)
    <2>1. Len(u) \in Nat \ {0} /\ Head(u) = u[1] /\ Len(w) = Len(u) - 1
      BY <1>1, PlanTail
    <2>2. w = <<>>
      BY <1>2
    <2> HIDE DEF w
    <2>3. Len(w) = 0
      BY <2>2
    <2>4. Len(u) = 1
      BY <2>1, <2>3
    <2> QED
      BY <1>1, <2>1, <2>4
  <1>4. u = <<"reply">>
    <2> DEFINE v == <<"reply">>
    <2>1. "reply" \in Steps
      BY DEF Steps
    <2>2. v \in Seq(Steps) /\ Len(v) = 1 /\ v[1] = "reply"
      BY <2>1
    <2> HIDE DEF v
    <2>3. \A n \in 1 .. Len(u) : u[n] = v[n]
      BY <1>3, <2>2
    <2>4. u = v
      BY <1>1, <1>3, <2>2, <2>3, SeqEqual
    <2> QED
      BY <2>4 DEF v
  <1> QED
    BY <1>4 DEF u

LEMMA ServiceIs ==
    ASSUME program \in AllPrograms, ThreadsInv, NEW t \in DOMAIN thr, ServiceOf(t)
    PROVE  /\ Others(t) /\ ThreadOK(thr'[t]) /\ Place(thr[t]) = "service" /\ program \in PcServers
           /\ thr'[t].todo = IF thr[t].arg = 0 THEN <<"start", "put", "advance_prod", "stop", "reply">>
                             ELSE IF thr[t].arg = 1 THEN <<"start", "take", "advance_cons", "stop", "reply">>
                             ELSE <<>>
           /\ thr'[t].arg = thr[t].arg /\ thr'[t].alone = thr[t].alone /\ thr'[t].did = thr[t].did
  <1>1. At(t, "service")
    BY DEF ServiceOf
  <1>2. /\ thr[t] \in ThreadRecords /\ ThreadOK(thr[t]) /\ IsPlan(thr[t].todo) /\ thr[t].todo # <<>>
        /\ Head(thr[t].todo) = "service" /\ Place(thr[t]) = "service" /\ Tail(thr[t].todo) \in Seq(Steps)
    BY <1>1, AtPlace
  <1>3. program \in PcServers
    <2>1. "service" \in Steps
      BY <1>2, PlaceIsStep
    <2> QED
      BY <2>1, StepsOf
  <1>4. Tail(thr[t].todo) = <<"reply">>
    BY <1>2, OnlyReply DEF Follows
  <1>5. thr[t].arg \in {0, 1, RoleLetter}
    <2>1. thr[t].arg \in prog.args \cup {NoArg}
      BY <1>2 DEF ThreadRecords
    <2>2. prog.args = {NoArg} \/ prog.args = {0, 1, RoleLetter}
      BY <1>3, ArgumentsAre DEF PcServers, Pc2Servers
    <2> QED
      BY <2>1, <2>2 DEF NoArg
  <1> DEFINE a == thr[t].arg
             plan == IF a = 0 THEN <<"start", "put", "advance_prod", "stop", "reply">>
                     ELSE IF a = 1 THEN <<"start", "take", "advance_cons", "stop", "reply">>
                     ELSE <<>>
             steps == service_1_svc[a]
             n == a + 1
             x == [thr[t] EXCEPT !.todo = plan, !.ops = n]
  <1>6. (IF steps = <<>> THEN <<>> ELSE steps \o <<"reply">>) = plan
    <2>1. /\ a = 0 => steps = <<"start", "put", "advance_prod", "stop">>
          /\ a = 1 => steps = <<"start", "take", "advance_cons", "stop">>
          /\ a = 2 => steps = <<>>
      BY <1>5 DEF service_1_svc, producer, consumer, RoleLetter
    <2>2. /\ <<"start", "put", "advance_prod", "stop">> # <<>>
          /\ <<"start", "take", "advance_cons", "stop">> # <<>>
      OBVIOUS
    <2>3. /\ <<"start", "put", "advance_prod", "stop">> \o <<"reply">>
                = <<"start", "put", "advance_prod", "stop", "reply">>
          /\ <<"start", "take", "advance_cons", "stop">> \o <<"reply">>
                = <<"start", "take", "advance_cons", "stop", "reply">>
      BY Lists
    <2>4. a = 0 \/ a = 1 \/ a = 2
      BY <1>5 DEF RoleLetter
    <2> QED
      BY <2>1, <2>2, <2>3, <2>4
  <1>7. thr' = [thr EXCEPT ![t].todo = IF steps = <<>> THEN <<>> ELSE steps \o Tail(@), ![t].ops = n]
    BY DEF ServiceOf
  <1>8. IsPlan(plan) /\ (a = RoleLetter => plan = <<>>)
    BY <1>3, <1>5, ServicePlans DEF RoleLetter
  <1>9. a # RoleLetter => n \in {1, 2}
    BY <1>5
  <1>10. n \in 0 .. 4
    BY <1>5 DEF RoleLetter
  <1> HIDE DEF plan, steps, n
  <1>11. thr' = [thr EXCEPT ![t] = x]
    BY <1>2, <1>4, <1>6, <1>7 DEF ThreadsInv
  <1>12. plan \in Seq(Steps)
    BY <1>8 DEF IsPlan
  <1>13. /\ x \in ThreadRecords /\ x.todo = plan /\ x.ops = n /\ x.arg = a
         /\ x.alone = thr[t].alone /\ x.did = thr[t].did
    BY <1>2, <1>10, <1>12 DEF ThreadRecords
  <1> HIDE DEF x
  <1>14. Others(t) /\ thr'[t] = x
    BY <1>11, <1>13, OneChanges
  <1>15. Place(x) \in {"start", "end"} /\ (a = RoleLetter => Place(x) = "end")
    <2>1. /\ Head(<<"start", "put", "advance_prod", "stop", "reply">>) = "start"
          /\ Head(<<"start", "take", "advance_cons", "stop", "reply">>) = "start"
      OBVIOUS
    <2>2. plan = <<>> \/ Head(plan) = "start"
      BY <2>1 DEF plan
    <2> QED
      BY <1>8, <1>13, <2>2 DEF Place
  <1>16. ThreadOK(x)
    BY <1>8, <1>9, <1>13, <1>15 DEF ThreadOK
  <1> QED
    BY <1>2, <1>3, <1>13, <1>14, <1>16 DEF plan

LEMMA LoadIs ==
    ASSUME ThreadsInv, nwords \in Int, NEW t \in DOMAIN thr, Load(t)
    PROVE  /\ MovesOn(t) /\ Place(thr[t]) \in {"load_inc", "load_dec"}
           /\ thr'[t].reg = nwords /\ thr'[t].i = thr[t].i /\ thr'[t].did = thr[t].did
  <1> DEFINE x == [thr[t] EXCEPT !.todo = Tail(@), !.reg = nwords]
  <1>1. thr[t] \in ThreadRecords /\ Tail(thr[t].todo) \in Seq(Steps) /\ Place(thr[t]) \in {"load_inc", "load_dec"}
    BY AtPlace DEF Load
  <1>2. /\ x \in ThreadRecords /\ x.todo = Tail(thr[t].todo) /\ x.alone = thr[t].alone
        /\ x.arg = thr[t].arg /\ x.ops = thr[t].ops /\ x.reg = nwords /\ x.i = thr[t].i
        /\ x.did = thr[t].did
    BY <1>1 DEF ThreadRecords
  <1>3. thr' = [thr EXCEPT ![t] = x]
    BY DEF Load
  <1> HIDE DEF x
  <1> QED
    BY <1>1, <1>2, <1>3, OneChanges DEF MovesOn

\* The first place where a word is.
LEMMA MinIs == ASSUME NEW S, S \subseteq Nat, S # {} PROVE Min(S) \in S /\ \A y \in S : Min(S) <= y
  <1>1. PICK x \in S : \A y \in S : <<y, x>> \notin OpToRel(<, Nat)
    BY WFMin, NatLessThanWellFounded
  <1>2. ASSUME NEW y \in S PROVE x <= y
    <2>1. y \in Nat /\ x \in Nat
      OBVIOUS
    <2>2. ~(y < x)
      BY <1>1, <2>1 DEF OpToRel
    <2> QED
      BY <2>1, <2>2
  <1> QED
    BY <1>2 DEF Min

LEMMA ScanIs ==
    ASSUME ThreadsInv, NEW t \in DOMAIN thr, Scan(t)
    PROVE  /\ MovesOn(t) /\ Place(thr[t]) = "scan" /\ Found(thr[t].arg) # {}
           /\ thr'[t].i \in Found(thr[t].arg) /\ thr'[t].reg = thr[t].reg /\ thr'[t].did = thr[t].did
  <1> DEFINE n == Min(Found(thr[t].arg))
             x == [thr[t] EXCEPT !.todo = Tail(@), !.i = n]
  <1>1. thr[t] \in ThreadRecords /\ Tail(thr[t].todo) \in Seq(Steps) /\ Place(thr[t]) = "scan"
    BY AtPlace DEF Scan
  <1>2. Found(thr[t].arg) # {} /\ Found(thr[t].arg) \subseteq Nat
    <2>1. Places \subseteq Nat
      BY DictRpcAssumption DEF Places
    <2>2. Found(thr[t].arg) \subseteq Places
      BY DEF Found
    <2> QED
      BY <2>1, <2>2 DEF Scan
  <1>3. n \in Found(thr[t].arg)
    BY <1>2, MinIs
  <1>4. n \in Nat
    BY <1>2, <1>3
  <1>5. thr' = [thr EXCEPT ![t] = x]
    BY DEF Scan
  <1> HIDE DEF n
  <1>6. /\ x \in ThreadRecords /\ x.todo = Tail(thr[t].todo) /\ x.alone = thr[t].alone
        /\ x.arg = thr[t].arg /\ x.ops = thr[t].ops /\ x.reg = thr[t].reg /\ x.i = n
        /\ x.did = thr[t].did
    BY <1>1, <1>4 DEF ThreadRecords
  <1> HIDE DEF x
  <1> QED
    BY <1>1, <1>2, <1>3, <1>5, <1>6, OneChanges DEF MovesOn

LEMMA NotFoundIs ==
    ASSUME program \in AllPrograms, ThreadsInv, NEW t \in DOMAIN thr, NotFound(t)
    PROVE  /\ Others(t) /\ ThreadOK(thr'[t]) /\ Place(thr[t]) = "scan" /\ program \in DictServers
           /\ thr'[t].todo = <<"reply">> /\ thr'[t].did = "deletew"
           /\ thr'[t].arg = thr[t].arg /\ thr'[t].alone = thr[t].alone
  <1> DEFINE r == <<"reply">>
             x == [thr[t] EXCEPT !.todo = r, !.did = "deletew"]
  <1>1. thr[t] \in ThreadRecords /\ ThreadOK(thr[t]) /\ IsPlan(thr[t].todo) /\ Place(thr[t]) = "scan"
    BY AtPlace DEF NotFound
  <1>2. program \in DictServers
    <2>1. "scan" \in Steps
      BY <1>1, PlaceIsStep
    <2> QED
      BY <2>1, StepsOf
  <1>3. r \in Seq(Steps) /\ IsPlan(r) /\ Head(r) = "reply" /\ r # <<>>
    <2>1. "reply" \in Steps
      BY DEF Steps
    <2>2. r \in Seq(Steps) /\ Len(r) = 1 /\ r[1] = "reply" /\ Head(r) = "reply" /\ r # <<>>
      BY <2>1
    <2> HIDE DEF r
    <2>3. IsPlan(r)
      BY <2>2 DEF IsPlan
    <2> QED
      BY <2>2, <2>3
  <1>4. thr' = [thr EXCEPT ![t] = x]
    BY DEF NotFound
  <1>5. "deletew" \in Outcomes
    BY DEF Outcomes
  <1> HIDE DEF r
  <1>6. /\ x \in ThreadRecords /\ x.todo = r /\ x.alone = thr[t].alone
        /\ x.arg = thr[t].arg /\ x.ops = thr[t].ops /\ x.did = "deletew"
    BY <1>1, <1>3, <1>5 DEF ThreadRecords
  <1> HIDE DEF x
  <1>7. Place(x) = "reply"
    BY <1>3, <1>6 DEF Place
  <1>8. program \notin PcServers
    BY <1>2 DEF PcServers, DictServers
  <1>9. ThreadOK(x)
    BY <1>3, <1>6, <1>7, <1>8 DEF ThreadOK
  <1>10. Others(t) /\ thr'[t] = x
    BY <1>4, <1>6, OneChanges
  <1> QED
    BY <1>1, <1>2, <1>6, <1>9, <1>10 DEF r

\* What a step of a service does to the threads, the datagrams and the clients.
Works(t) ==
    /\ Others(t) /\ ThreadOK(thr'[t])
    /\ thr'[t].alone = thr[t].alone /\ thr'[t].arg = thr[t].arg
    /\ Place(thr[t]) \notin {"switch", "getargs", "reply", "end"}
    /\ UNCHANGED served

LEMMA WorksOn ==
    ASSUME ThreadsInv, NEW t \in DOMAIN thr, NEW s, At(t, s), s \notin {"switch", "getargs", "reply", "end"},
           MovesOn(t), UNCHANGED served
    PROVE  Works(t)
  <1>1. ThreadOK(thr[t]) /\ thr[t].todo # <<>> /\ Head(thr[t].todo) = s /\ Place(thr[t]) = s
    BY AtPlace
  <1>2. ThreadOK(thr'[t])
    BY <1>1, NextIsOK DEF MovesOn
  <1> QED
    BY <1>1, <1>2 DEF Works, MovesOn

LEMMA PassWorks ==
    ASSUME ThreadsInv, NEW t \in DOMAIN thr, NEW s, At(t, s), s \notin {"switch", "getargs", "reply", "end"},
           Pass(t)
    PROVE  /\ Works(t) /\ MovesOn(t) /\ Place(thr[t]) = s
           /\ thr'[t].did = thr[t].did /\ thr'[t].reg = thr[t].reg /\ thr'[t].i = thr[t].i
  BY Passes, WorksOn, AtPlace DEF Pass

LEMMA DoesWork ==
    ASSUME ThreadsInv, NEW t \in DOMAIN thr, NEW s, At(t, s), s \notin {"switch", "getargs", "reply", "end"},
           NEW step \in Outcomes, Does(t, step)
    PROVE  /\ Works(t) /\ MovesOn(t) /\ Place(thr[t]) = s /\ thr'[t].did = step
  BY DoesIt, WorksOn, AtPlace DEF Does

LEMMA PcWorks ==
    ASSUME program \in AllPrograms, ThreadsInv, NEW t \in DOMAIN thr, PcStep(t)
    PROVE  Works(t) /\ program \in PcServers
  <1> SUFFICES Works(t) /\ Place(thr[t]) \in {"service", "start", "put", "advance_prod", "take",
                                              "advance_cons", "stop"}
    <2>1. IsPlan(thr[t].todo)
      BY DEF ThreadsInv, ThreadOK
    <2>2. Place(thr[t]) \in Steps
      BY <2>1, PlaceIsStep
    <2> QED
      BY <2>2, StepsOf
  <1>1. {"put", "take"} \subseteq Outcomes
    BY DEF Outcomes
  <1>2. CASE Start(t)
    BY <1>2, PassWorks DEF Start
  <1>3. CASE Stop(t)
    BY <1>3, PassWorks DEF Stop
  <1>4. CASE Put(t)
    BY <1>1, <1>4, DoesWork DEF Put
  <1>5. CASE AdvanceProd(t)
    BY <1>5, PassWorks DEF AdvanceProd
  <1>6. CASE Take(t)
    BY <1>1, <1>6, DoesWork DEF Take
  <1>7. CASE AdvanceCons(t)
    BY <1>7, PassWorks DEF AdvanceCons
  <1>8. CASE ServiceOf(t)
    BY <1>8, ServiceIs DEF ServiceOf, Works
  <1> QED
    BY <1>2, <1>3, <1>4, <1>5, <1>6, <1>7, <1>8 DEF PcStep

LEMMA DictWorks ==
    ASSUME program \in AllPrograms, ThreadsInv, nwords \in Int, NEW t \in DOMAIN thr, DictStep(t)
    PROVE  Works(t) /\ program \in DictServers
  <1> SUFFICES Works(t) /\ Place(thr[t]) \in {"initw", "strcpy", "load_inc", "store_inc", "scan", "load_dec",
                                              "store_dec", "move", "lookupw"}
    <2>1. IsPlan(thr[t].todo)
      BY DEF ThreadsInv, ThreadOK
    <2>2. Place(thr[t]) \in Steps
      BY <2>1, PlaceIsStep
    <2> QED
      BY <2>2, StepsOf
  <1>1. {"initw", "insertw", "deletew", "lookupw"} \subseteq Outcomes
    BY DEF Outcomes
  <1>2. CASE Initw(t)
    BY <1>1, <1>2, DoesWork DEF Initw, Returns
  <1>3. CASE Strcpy(t)
    BY <1>3, PassWorks DEF Strcpy
  <1>4. CASE Load(t)
    BY <1>4, LoadIs, WorksOn DEF Load
  <1>5. CASE StoreInc(t)
    BY <1>1, <1>5, DoesWork DEF StoreInc, Returns
  <1>6. CASE Scan(t)
    BY <1>6, ScanIs, WorksOn DEF Scan
  <1>7. CASE NotFound(t)
    BY <1>7, NotFoundIs DEF NotFound, Works
  <1>8. CASE StoreDec(t)
    BY <1>8, PassWorks DEF StoreDec
  <1>9. CASE Move(t)
    BY <1>1, <1>9, DoesWork DEF Move, Returns
  <1>10. CASE Lookupw(t)
    BY <1>1, <1>10, DoesWork DEF Lookupw, Returns
  <1> QED
    BY <1>2, <1>3, <1>4, <1>5, <1>6, <1>7, <1>8, <1>9, <1>10 DEF DictStep

LEMMA BakeryWorks ==
    ASSUME program \in AllPrograms, ThreadsInv, NEW t \in DOMAIN thr, BakeryStep(t)
    PROVE  Works(t) /\ program \in {"obakery", "obakery_old", "calc"} /\ thr[t].arg \in Slots
  <1> SUFFICES Works(t) /\ Place(thr[t]) \in {"get_number", "get_number_of_ind", "serve", "compute",
                                              "calculator_proc"}
    <2>1. IsPlan(thr[t].todo) /\ thr[t] \in ThreadRecords
      BY DEF ThreadsInv, ThreadOK
    <2>2. Place(thr[t]) \in Steps
      BY <2>1, PlaceIsStep
    <2>3. program \in {"obakery", "obakery_old", "calc"}
      BY <2>2, StepsOf
    <2>4. prog.args \cup {NoArg} \subseteq Slots
      BY <2>3, ArgumentsAre, Roles
    <2>5. thr[t].arg \in Slots
      BY <2>1, <2>4 DEF ThreadRecords
    <2> QED
      BY <2>3, <2>5
  <1>1. {"get_number", "get_number_of_ind", "serve", "late", "compute", "calculator_proc"} \subseteq Outcomes
    BY DEF Outcomes
  <1>2. CASE GetNumber(t)
    BY <1>1, <1>2, DoesWork DEF GetNumber
  <1>3. CASE GetNumberOfInd(t)
    BY <1>1, <1>3, DoesWork DEF GetNumberOfInd
  <1>4. CASE ServeLate(t)
    BY <1>1, <1>4, DoesWork DEF ServeLate
  <1>5. CASE Serve(t)
    <2>1. (IF num = -1 THEN "late" ELSE "serve") \in Outcomes
      BY <1>1
    <2> QED
      BY <1>5, <2>1, DoesWork DEF Serve
  <1>6. CASE Compute(t)
    BY <1>1, <1>6, DoesWork DEF Compute
  <1> QED
    BY <1>2, <1>3, <1>4, <1>5, <1>6 DEF BakeryStep

\* The steps of the server at a thread.
AtThread(t) == Switch(t) \/ Getargs(t) \/ If(t)
AtEnd(t) == NoProc(t) \/ DecodeFails(t) \/ Sendreply(t) \/ NoReply(t)

\* The answer did reaches the client that waits for it.
Answered(t, did) ==
    /\ client[cur.from].at = "waits" /\ client[cur.from].call = cur.call
    /\ client' = [client EXCEPT ![cur.from] = IF did = "error" THEN Failed(cur.from) ELSE Idle(cur.from)]
    /\ answer' = [answer EXCEPT ![cur.from] =
                     IF thr[t].alone THEN [did |-> did, arg |-> thr[t].arg] ELSE NoAnswer]

\* A thread ends with an answer or without.
LEMMA EndSteps ==
    ASSUME ThreadsInv, NEW t \in DOMAIN thr, AtEnd(t)
    PROVE  /\ Ends(t) /\ Place(thr[t]) \in {"switch", "getargs", "reply", "end"}
           /\ UNCHANGED <<program, asked, net, cur, received>>
           /\ \/ UNCHANGED <<client, answer>>
              \/ Answered(t, "error")
              \/ Place(thr[t]) = "reply" /\ Answered(t, thr[t].did)
           /\ fresh' \in {FALSE, fresh}
  <1>1. ASSUME NEW did, Answers(t, did)
        PROVE  /\ Ends(t) /\ UNCHANGED <<program, asked, net, cur, received>> /\ fresh' = FALSE
               /\ UNCHANGED <<client, answer>> \/ Answered(t, did)
    BY <1>1 DEF Answers, Answered
  <1>2. CASE NoProc(t)
    <2>1. Answers(t, "error") /\ Place(thr[t]) = "switch"
      BY <1>2, AtPlace DEF NoProc
    <2> QED
      BY <1>1, <2>1
  <1>3. CASE DecodeFails(t)
    <2>1. Answers(t, "error") /\ Place(thr[t]) = "getargs"
      BY <1>3, AtPlace DEF DecodeFails
    <2> QED
      BY <1>1, <2>1
  <1>4. CASE Sendreply(t)
    <2>1. Answers(t, thr[t].did) /\ Place(thr[t]) = "reply"
      BY <1>4, AtPlace DEF Sendreply
    <2> QED
      BY <1>1, <2>1
  <1>5. CASE NoReply(t)
    BY <1>5 DEF NoReply, served, Place
  <1> QED
    BY <1>2, <1>3, <1>4, <1>5 DEF AtEnd

(***************************************************************************)
(* The calls and their datagrams.                                          *)
(***************************************************************************)
\* The calls are kept while the clients and the datagrams are.
LEMMA CallsKept ==
    ASSUME CallsInv, program' = program, UNCHANGED <<client, asked, net>>, thr' # <<>> => cur' \in net
    PROVE  CallsInv'
  <1>1. /\ prog' = prog /\ Datagrams' = Datagrams
        /\ \A p, a : Arguments(p)' = Arguments(p) /\ Wanted(p, a)' = Wanted(p, a)
    BY SameProgram
  <1> QED
    BY <1>1 DEF CallsInv

\* A client calls.
LEMMA CallsAfterCall ==
    ASSUME CallsInv, program \in AllPrograms, NEW c \in Clients, Call(c)
    PROVE  CallsInv'
  <1> DEFINE n == client[c].call + 1
             run == prog.client.runs[client[c].role]
             new(r) == [from |-> c, call |-> n, proc |-> r.proc, arg |-> r.arg]
  <1>1. /\ client[c].at = "idle" /\ client[c].role # Ended /\ client[c].call < MaxCalls
        /\ client' = [client EXCEPT ![c].at = "waits", ![c].call = @ + 1]
        /\ UNCHANGED <<program, cur, thr>>
    BY DEF Call
  <1>2. PICK r \in run.calls[n] : net' = net \cup {new(r)} /\ asked' = [asked EXCEPT ![c] = r]
    BY DEF Call
  <1>3. /\ client \in [Clients -> [role : DOMAIN prog.client.runs \cup {Ended}, at : {"idle", "waits"},
                                   call : 0 .. MaxCalls]]
        /\ net \subseteq Datagrams /\ DOMAIN asked = Clients
    BY DEF CallsInv
  <1>4. n \in 1 .. MaxCalls /\ client[c].role \in DOMAIN prog.client.runs
    BY <1>1, <1>3, RpcProgramsAssumption
  <1>5. CallOK(r)
    BY <1>4, ClientIs DEF ClientOK
  <1>6. client' \in [Clients -> [role : DOMAIN prog.client.runs \cup {Ended}, at : {"idle", "waits"},
                                 call : 0 .. MaxCalls]]
    <2> DEFINE z == [client[c] EXCEPT !.at = "waits", !.call = @ + 1]
    <2>0. /\ client[c] \in [role : DOMAIN prog.client.runs \cup {Ended}, at : {"idle", "waits"},
                            call : 0 .. MaxCalls]
          /\ client[c].call + 1 \in 0 .. MaxCalls
      BY <1>1, <1>3, RpcProgramsAssumption
    <2>1. z \in [role : DOMAIN prog.client.runs \cup {Ended}, at : {"idle", "waits"}, call : 0 .. MaxCalls]
      BY <2>0
    <2>2. client' = [client EXCEPT ![c] = z]
      BY <1>1
    <2> HIDE DEF z
    <2> QED
      BY <1>3, <2>1, <2>2
  <1>7. client'[c].call = n /\ client'[c].role # Ended /\ \A b \in Clients : b # c => client'[b] = client[b]
    BY <1>1, <1>3
  <1>8. /\ new(r).from = c /\ new(r).call = n /\ new(r).proc = r.proc /\ new(r).arg = r.arg
        /\ new(r) \in Datagrams
    BY <1>4, <1>5 DEF Datagrams, CallOK
  <1> DEFINE e == new(r)
  <1>9. /\ e.from = c /\ e.call = n /\ e.proc = r.proc /\ e.arg = r.arg /\ e \in Datagrams
        /\ net' = net \cup {e}
    BY <1>2, <1>8
  <1> HIDE DEF n, run, new, e
  <1>10. ASSUME NEW d \in net'
         PROVE  /\ d.call <= client'[d.from].call /\ d.arg \in Arguments(d.proc)
                /\ d.call = client'[d.from].call => d.proc = asked'[d.from].proc /\ d.arg = asked'[d.from].arg
    <2>1. CASE d = e
      <3>1. asked'[c] = r
        BY <1>2, <1>3
      <3>2. r.arg \in Arguments(r.proc)
        BY <1>5 DEF CallOK
      <3> QED
        BY <1>4, <1>7, <1>9, <2>1, <3>1, <3>2
    <2>2. CASE d \in net /\ d.from = c
      <3>1. d.call <= client[c].call /\ d.arg \in Arguments(d.proc) /\ d \in Datagrams
        BY <1>3, <2>2 DEF CallsInv
      <3>2. d.call \in Nat /\ client[c].call \in Nat
        BY <1>3, <3>1, RpcProgramsAssumption DEF Datagrams
      <3>3. d.call < n
        BY <3>1, <3>2 DEF n
      <3> QED
        BY <1>4, <1>7, <2>2, <3>1, <3>2, <3>3
    <2>3. CASE d \in net /\ d.from # c
      <3>1. d.from \in Clients
        BY <1>3, <2>3 DEF Datagrams
      <3>2. client'[d.from] = client[d.from] /\ asked'[d.from] = asked[d.from]
        BY <1>2, <1>3, <1>7, <2>3, <3>1
      <3> QED
        BY <2>3, <3>2 DEF CallsInv
    <2> QED
      BY <1>9, <2>1, <2>2, <2>3
  <1>11. ASSUME NEW b \in Clients
         PROVE  /\ client'[b].at = "waits" => client'[b].role # Ended
                /\ client'[b].call > 0 => asked'[b].wants = Wanted(asked'[b].proc, asked'[b].arg)
    <2>1. CASE b = c
      <3>1. asked'[c] = r /\ r.wants = Wanted(r.proc, r.arg)
        BY <1>2, <1>3, <1>5 DEF CallOK
      <3> QED
        BY <1>7, <2>1, <3>1
    <2>2. CASE b # c
      <3>1. client'[b] = client[b] /\ asked'[b] = asked[b]
        BY <1>2, <1>3, <1>7, <2>2
      <3> QED
        BY <3>1 DEF CallsInv
    <2> QED
      BY <2>1, <2>2
  <1>12. net' \subseteq Datagrams /\ DOMAIN asked' = Clients /\ (thr' # <<>> => cur' \in net')
    BY <1>1, <1>2, <1>3, <1>9 DEF CallsInv
  <1>13. /\ prog' = prog /\ Datagrams' = Datagrams
         /\ \A p, a : Arguments(p)' = Arguments(p) /\ Wanted(p, a)' = Wanted(p, a)
    BY <1>1, SameProgram
  <1> QED
    BY <1>6, <1>10, <1>11, <1>12, <1>13 DEF CallsInv

\* A client goes on, after an answer or after a failure.
LEMMA CallsAfterAnswer ==
    ASSUME CallsInv, program \in AllPrograms, NEW c \in Clients, client[c].at = "waits",
           NEW z \in {Idle(c), Failed(c)}, client' = [client EXCEPT ![c] = z],
           UNCHANGED <<program, asked, net>>, thr' # <<>> => cur' \in net
    PROVE  CallsInv'
  <1> DEFINE R == [role : DOMAIN prog.client.runs \cup {Ended}, at : {"idle", "waits"}, call : 0 .. MaxCalls]
             failed == prog.client.runs[client[c].role].failed
  <1>1. client \in [Clients -> R]
    BY DEF CallsInv
  <1>2. client[c].role \in DOMAIN prog.client.runs
    BY <1>1 DEF CallsInv
  <1>3. failed \in DOMAIN prog.client.runs \cup {Ended}
    BY <1>2, ClientIs DEF ClientOK
  <1>4. Idle(c) \in R /\ Idle(c).at = "idle" /\ Idle(c).call = client[c].call /\ Idle(c).role = client[c].role
    BY <1>1 DEF Idle
  <1>5. Failed(c) = [Idle(c) EXCEPT !.role = failed]
    BY <1>4 DEF Failed
  <1> HIDE DEF failed
  <1>6. Failed(c) \in R /\ Failed(c).at = "idle" /\ Failed(c).call = client[c].call
    BY <1>3, <1>4, <1>5
  <1>7. z \in R /\ z.at = "idle" /\ z.call = client[c].call
    BY <1>4, <1>6
  <1>8. client' \in [Clients -> R] /\ client'[c] = z /\ \A b \in Clients : b # c => client'[b] = client[b]
    BY <1>1, <1>7
  <1> HIDE DEF R
  <1>9. \A b \in Clients : client'[b].call = client[b].call
    BY <1>7, <1>8
  <1>10. \A b \in Clients : client'[b].at = "waits" => client'[b].role # Ended
    BY <1>7, <1>8 DEF CallsInv
  <1>11. \A d \in net : d.from \in Clients
    BY DEF CallsInv, Datagrams
  <1>12. /\ prog' = prog /\ Datagrams' = Datagrams
         /\ \A p, a : Arguments(p)' = Arguments(p) /\ Wanted(p, a)' = Wanted(p, a)
    BY SameProgram
  <1>13. \A d \in net' : /\ d.call <= client'[d.from].call /\ d.arg \in Arguments(d.proc)'
                         /\ d.call = client'[d.from].call =>
                               d.proc = asked'[d.from].proc /\ d.arg = asked'[d.from].arg
    BY <1>9, <1>11, <1>12 DEF CallsInv
  <1>14. \A b \in Clients : client'[b].call > 0 => asked'[b].wants = Wanted(asked'[b].proc, asked'[b].arg)
    BY <1>9 DEF CallsInv
  <1>15. net' \subseteq Datagrams' /\ DOMAIN asked' = Clients /\ (thr' # <<>> => cur' \in net')
    BY <1>12 DEF CallsInv
  <1>16. client' \in [Clients -> [role : DOMAIN prog'.client.runs \cup {Ended}, at : {"idle", "waits"},
                                  call : 0 .. MaxCalls]]
    BY <1>8, <1>12 DEF R
  <1> QED
    BY <1>10, <1>12, <1>13, <1>14, <1>15, <1>16 DEF CallsInv

\* The programs' services.
services == <<pcvars, dictvars, bakeryvars>>
BaseInv == program \in Servers /\ nwords \in Int /\ ThreadsInv /\ CallsInv

\* What a step is a step of.
LEMMA Kinds ==
    ASSUME Next
    PROVE  \/ \E c \in Clients : (Call(c) \/ Timeout(c)) /\ UNCHANGED services
           \/ \E d \in net : Receive(d) /\ UNCHANGED services
           \/ \E t \in DOMAIN thr :
                 \/ AtThread(t) /\ UNCHANGED services
                 \/ AtEnd(t) /\ UNCHANGED services
                 \/ PcStep(t) /\ UNCHANGED <<dictvars, bakeryvars>>
                 \/ DictStep(t) /\ UNCHANGED <<pcvars, bakeryvars>>
                 \/ BakeryStep(t) /\ UNCHANGED <<pcvars, dictvars>>
  <1>1. CASE SunRpcNext /\ UNCHANGED services
    BY <1>1 DEF SunRpcNext, AtThread, AtEnd
  <1>2. CASE \E t \in DOMAIN thr : \/ PcStep(t) /\ UNCHANGED <<dictvars, bakeryvars>>
                                   \/ DictStep(t) /\ UNCHANGED <<pcvars, bakeryvars>>
                                   \/ BakeryStep(t) /\ UNCHANGED <<pcvars, dictvars>>
    BY <1>2
  <1> QED
    BY <1>1, <1>2 DEF Next, services

\* The step of a thread that does not end it leaves the datagrams as they are.
LEMMA ThreadKept ==
    ASSUME BaseInv, NEW t \in DOMAIN thr,
           AtThread(t) \/ PcStep(t) \/ DictStep(t) \/ BakeryStep(t)
    PROVE  /\ Others(t) /\ ThreadOK(thr'[t]) /\ thr'[t].alone = thr[t].alone
           /\ UNCHANGED <<program, client, asked, net, cur, received, answer>>
           /\ fresh' = fresh \/ (fresh' = FALSE /\ Getargs(t))
  <1>1. program \in AllPrograms /\ ThreadsInv /\ CallsInv /\ nwords \in Int
    BY ProgramIs DEF BaseInv
  <1>2. CASE Switch(t)
    BY <1>1, <1>2, SwitchIs DEF Switch, served
  <1>3. CASE Getargs(t)
    BY <1>1, <1>3, DecodesIs DEF Getargs
  <1>4. CASE If(t)
    BY <1>1, <1>4, IfIs DEF If, served
  <1>5. CASE PcStep(t)
    BY <1>1, <1>5, PcWorks DEF Works, served
  <1>6. CASE DictStep(t)
    BY <1>1, <1>6, DictWorks DEF Works, served
  <1>7. CASE BakeryStep(t)
    BY <1>1, <1>7, BakeryWorks DEF Works, served
  <1> QED
    BY <1>2, <1>3, <1>4, <1>5, <1>6, <1>7 DEF AtThread

LEMMA CallsStep == ASSUME BaseInv, Next PROVE program' = program /\ ThreadsInv' /\ CallsInv'
  <1>1. program \in AllPrograms /\ ThreadsInv /\ CallsInv /\ nwords \in Int
    BY ProgramIs DEF BaseInv
  <1>2. ASSUME NEW c \in Clients, Call(c) PROVE program' = program /\ ThreadsInv' /\ CallsInv'
    <2>1. program' = program /\ thr' = thr
      BY <1>2 DEF Call
    <2>2. ThreadsInv'
      BY <1>1, <2>1, SameProgram DEF ThreadsInv
    <2> QED
      BY <1>1, <1>2, <2>1, <2>2, CallsAfterCall
  <1>3. ASSUME NEW c \in Clients, Timeout(c) PROVE program' = program /\ ThreadsInv' /\ CallsInv'
    <2>1. UNCHANGED <<program, asked, net, cur, thr>> /\ client[c].at = "waits"
          /\ client' = [client EXCEPT ![c] = Failed(c)]
      BY <1>3 DEF Timeout
    <2>2. ThreadsInv'
      BY <1>1, <2>1, SameProgram DEF ThreadsInv
    <2>3. thr' # <<>> => cur' \in net
      BY <1>1, <2>1 DEF CallsInv
    <2> QED
      BY <1>1, <2>1, <2>2, <2>3, CallsAfterAnswer
  <1>4. ASSUME NEW d \in net, Receive(d) PROVE program' = program /\ ThreadsInv' /\ CallsInv'
    <2>1. UNCHANGED <<program, client, asked, net>> /\ cur' = d
      BY <1>4 DEF Receive
    <2> QED
      BY <1>1, <1>4, <2>1, ThreadsAfterReceive, CallsKept
  <1>5. ASSUME NEW t \in DOMAIN thr, AtEnd(t) PROVE program' = program /\ ThreadsInv' /\ CallsInv'
    <2>1. Ends(t) /\ UNCHANGED <<program, asked, net, cur>>
      BY <1>1, <1>5, EndSteps
    <2>2. ThreadsInv'
      BY <1>1, <2>1, ThreadsAfterEnd
    <2>3. cur \in net /\ cur.from \in Clients
      BY <1>1, CurIs
    <2>4. CASE UNCHANGED client
      BY <1>1, <2>1, <2>2, <2>3, <2>4, CallsKept
    <2>5. ASSUME NEW did, Answered(t, did) PROVE CallsInv'
      <3>1. PICK z \in {Idle(cur.from), Failed(cur.from)} : client' = [client EXCEPT ![cur.from] = z]
        BY <2>5 DEF Answered
      <3>2. client[cur.from].at = "waits"
        BY <2>5 DEF Answered
      <3> QED
        BY <1>1, <2>1, <2>3, <3>1, <3>2, CallsAfterAnswer
    <2> QED
      BY <1>1, <1>5, <2>1, <2>2, <2>4, <2>5, EndSteps
  <1>6. ASSUME NEW t \in DOMAIN thr, AtThread(t) \/ PcStep(t) \/ DictStep(t) \/ BakeryStep(t)
        PROVE  program' = program /\ ThreadsInv' /\ CallsInv'
    <2>1. /\ Others(t) /\ ThreadOK(thr'[t]) /\ UNCHANGED <<program, client, asked, net, cur>>
      BY <1>6, ThreadKept
    <2>2. cur \in net
      BY <1>1, CurIs
    <2> QED
      BY <1>1, <2>1, <2>2, ThreadsAfterMove, CallsKept
  <1> QED
    BY <1>2, <1>3, <1>4, <1>5, <1>6, Kinds

(***************************************************************************)
(* The numbers of the bakeries.                                            *)
(***************************************************************************)
\* Slots not looked at again: the greatest number is that given last.
LEMMA MaxIs == ASSUME BakeryTypeOK, NumbersInv PROVE max_number = Len(given)
  <1> DEFINE S == {numbers[s] : s \in Slots} \cup {0}
             n == Len(given)
  <1>1. n \in Nat /\ \A s \in Slots : numbers[s] \in Nat /\ numbers[s] <= n
    BY DEF BakeryTypeOK, NumbersInv
  <1>2. n \in S
    <2>1. CASE given = <<>>
      BY <2>1
    <2>2. CASE given # <<>>
      BY <2>2 DEF NumbersInv
    <2> QED
      BY <2>1, <2>2
  <1>3. ASSUME NEW m \in S, \A s \in Slots : numbers[s] <= m PROVE m = n
    <2>1. m \in Nat /\ m <= n
      BY <1>1, <1>3
    <2>2. n <= m
      <3>1. CASE given = <<>>
        BY <2>1, <3>1
      <3>2. CASE given # <<>>
        BY <1>3, <3>2 DEF NumbersInv
      <3> QED
        BY <3>1, <3>2
    <2> QED
      BY <1>1, <2>1, <2>2
  <1>4. max_number = CHOOSE m \in S : \A s \in Slots : numbers[s] <= m
    BY DEF max_number
  <1> HIDE DEF n, S
  <1>5. max_number = n
    BY <1>1, <1>2, <1>3, <1>4
  <1> QED
    BY <1>5 DEF n

\* A number is given.
LEMMA NumberGiven ==
    ASSUME BakeryTypeOK, NumbersInv, NEW ind \in Slots, GivesNumber(ind), number_last' = number_last
    PROVE  /\ NumbersInv' /\ numbers' \in [Slots -> Nat] /\ given' \in Seq(Nat)
           /\ Last(given') > number_last
  <1> DEFINE n == Len(given)
             g == given'
  <1>1. numbers' = [numbers EXCEPT ![ind] = n + 1] /\ g = Append(given, n + 1)
    BY MaxIs DEF GivesNumber
  <1>2. /\ n \in Nat /\ given \in Seq(Nat) /\ numbers \in [Slots -> Nat] /\ number_last \in Nat
        /\ number_last <= n /\ \A s \in Slots : numbers[s] <= n
    BY DEF BakeryTypeOK, NumbersInv
  <1>3. /\ g \in Seq(Nat) /\ Len(g) = n + 1 /\ g[n + 1] = n + 1
        /\ \A m \in 1 .. n : g[m] = given[m]
    BY <1>1, <1>2, AppendProperties
  <1>4. \A m \in 1 .. n : given[m] = m
    BY <1>2 DEF NumbersInv
  <1>5. numbers' \in [Slots -> Nat] /\ numbers'[ind] = n + 1 /\ \A s \in Slots : numbers'[s] <= n + 1
    BY <1>1, <1>2
  <1> HIDE DEF n, g
  <1>6. \A m \in DOMAIN g : g[m] = m
    <2>1. DOMAIN g = 1 .. n + 1
      BY <1>3
    <2> QED
      BY <1>2, <1>3, <1>4, <2>1
  <1>7. g # <<>> /\ Last(g) = n + 1
    BY <1>2, <1>3 DEF Last
  <1>8. \E s \in Slots : numbers'[s] = Len(g)
    BY <1>3, <1>5
  <1>9. NumbersInv'
    BY <1>2, <1>3, <1>5, <1>6, <1>8 DEF NumbersInv, g
  <1> QED
    BY <1>2, <1>3, <1>5, <1>7, <1>9 DEF g

\* Each step of the bakeries keeps the numbers in order.
LEMMA NumbersStep ==
    ASSUME BaseInv, BakeryTypeOK, NumbersInv, Next
    PROVE  BakeryTypeOK' /\ NumbersInv' /\ (given' # given => Last(given') > number_last)
  <1>1. program \in AllPrograms /\ ThreadsInv
    BY ProgramIs DEF BaseInv
  <1>2. CASE UNCHANGED bakeryvars
    BY <1>2 DEF bakeryvars, BakeryTypeOK, NumbersInv
  <1>3. ASSUME NEW t \in DOMAIN thr, BakeryStep(t)
        PROVE  BakeryTypeOK' /\ NumbersInv' /\ (given' # given => Last(given') > number_last)
    <2>1. thr[t].arg \in Slots
      BY <1>1, <1>3, BakeryWorks
    <2>2. CASE GetNumber(t)
      <3>1. index_last \in Slots /\ GivesNumber(index_last) /\ index_last' = index_last + 1
            /\ number_last' = number_last /\ num' = num
        BY <2>2 DEF GetNumber
      <3>2. index_last' \in 0 .. COUNT
        BY <3>1, RpcProgramsAssumption DEF Slots
      <3> QED
        BY <3>1, <3>2, NumberGiven DEF BakeryTypeOK
    <2>3. CASE GetNumberOfInd(t)
      <3>1. GivesNumber(thr[t].arg) /\ UNCHANGED <<number_last, index_last, num>>
        BY <2>3 DEF GetNumberOfInd
      <3> QED
        BY <2>1, <3>1, NumberGiven DEF BakeryTypeOK
    <2>4. CASE ServeLate(t)
      BY <2>4 DEF ServeLate, BakeryTypeOK, NumbersInv
    <2>5. CASE Serve(t)
      BY <2>1, <2>5 DEF Serve, BakeryTypeOK, NumbersInv
    <2>6. CASE Compute(t)
      BY <1>2, <2>6 DEF Compute
    <2> QED
      BY <1>3, <2>2, <2>3, <2>4, <2>5, <2>6 DEF BakeryStep
  <1> QED
    BY <1>2, <1>3, Kinds DEF services

(***************************************************************************)
(* The initial states.                                                     *)
(***************************************************************************)
LEMMA BaseInit == ASSUME Init PROVE BaseInv /\ BakeryTypeOK /\ NumbersInv
  <1>1. program \in Servers /\ net = {} /\ thr = <<>> /\ nwords = 0
    BY DEF Init, SunRpcInit, DictInit
  <1>2. program \in AllPrograms
    BY <1>1, ProgramIs
  <1>3. PICK r \in [Clients -> prog.client.roles] :
           client = [c \in Clients |-> [role |-> r[c], at |-> "idle", call |-> 0]]
    BY DEF Init, SunRpcInit
  <1>4. prog.client.roles \subseteq DOMAIN prog.client.runs
    BY <1>2, ClientIs DEF ClientOK
  <1>5. asked = [c \in Clients |-> Rpc(0, NoArg, {})]
    BY DEF Init, SunRpcInit
  <1>6. CallsInv
    <2>1. client \in [Clients -> [role : DOMAIN prog.client.runs \cup {Ended}, at : {"idle", "waits"},
                                  call : 0 .. MaxCalls]]
      BY <1>3, <1>4, RpcProgramsAssumption
    <2>2. \A c \in Clients : client[c].at = "idle" /\ client[c].call = 0
      BY <1>3
    <2> QED
      BY <1>1, <1>5, <2>1, <2>2 DEF CallsInv
  <1>7. ThreadsInv
    BY <1>1 DEF ThreadsInv
  <1>8. numbers = [s \in Slots |-> 0] /\ number_last = 0 /\ index_last = 0 /\ num = 0 /\ given = <<>>
    BY DEF Init, BakeryInit
  <1>9. BakeryTypeOK /\ NumbersInv
    BY <1>8, RpcProgramsAssumption DEF BakeryTypeOK, NumbersInv
  <1> QED
    BY <1>1, <1>6, <1>7, <1>9 DEF BaseInv

(***************************************************************************)
(* The dictionary's variables.                                             *)
(***************************************************************************)
LEMMA BagType == Bag \in [Words -> Nat] /\ \A n : BagOf(n) \in [Words -> Nat]
  <1>1. IsFiniteSet(Places)
    BY DictRpcAssumption, FS_Interval DEF Places
  <1>2. ASSUME NEW n, NEW w PROVE Cardinality({x \in Places : x < n /\ dict[x] = w}) \in Nat
    BY <1>1, FS_Subset, FS_CardinalityType
  <1> QED
    BY <1>2 DEF Bag, BagOf

\* What a call of the dictionary does besides.
LEMMA BeginsType == ASSUME DictTypeOK, Begins PROVE before' \in [Words -> Nat] /\ overlapped' \in BOOLEAN
  <1>1. (overlapped \/ Within # {}) \in BOOLEAN
    BY DEF DictTypeOK
  <1>2. before' \in [Words -> Nat]
    BY BagType DEF Begins, DictTypeOK
  <1> QED
    BY <1>1, <1>2 DEF Begins

LEMMA ReturnsType ==
    ASSUME DictTypeOK, NEW t \in DOMAIN thr, NEW call, NEW v \in {0, 1}, Returns(t, call, v),
           thr[t].arg \in Words \cup {0}
    PROVE  ret'.word \in Words \cup {0} /\ ret'.result \in {0, 1}
  BY DEF Returns, DictTypeOK

LEMMA DictTypeStep == ASSUME BaseInv, DictTypeOK, Next PROVE DictTypeOK'
  <1>1. program \in AllPrograms /\ ThreadsInv /\ nwords \in Int
    BY ProgramIs DEF BaseInv
  <1>2. CASE UNCHANGED dictvars
    BY <1>2 DEF dictvars, DictTypeOK
  <1>3. ASSUME NEW t \in DOMAIN thr, DictStep(t) PROVE DictTypeOK'
    <2>0. thr[t] \in ThreadRecords /\ ThreadOK(thr[t])
      BY <1>1 DEF ThreadsInv
    <2>1. ThreadOK(thr[t]) /\ thr[t].reg \in Int
      BY <2>0 DEF ThreadRecords
    <2>2. Place(thr[t]) \in {"strcpy", "load_inc", "store_inc", "scan", "load_dec", "store_dec", "move",
                             "lookupw"} => thr[t].arg \in Words
      BY <2>1 DEF ThreadOK
    <2>3. CASE Initw(t)
      <3>1. At(t, "initw") /\ Begins /\ Returns(t, "initw", 1) /\ nwords' = 0 /\ UNCHANGED dict
        BY <2>3 DEF Initw
      <3>2. thr[t].arg = 0
        BY <1>1, <2>1, <3>1, AtPlace DEF ThreadOK, NoArg
      <3> QED
        BY <3>1, <3>2, BeginsType, ReturnsType DEF DictTypeOK
    <2>4. CASE Strcpy(t)
      <3>1. /\ At(t, "strcpy") /\ Begins /\ dict' = [dict EXCEPT ![nwords] = thr[t].arg]
            /\ UNCHANGED <<nwords, ret>>
        BY <2>4 DEF Strcpy
      <3>2. thr[t].arg \in Words
        BY <1>1, <2>2, <3>1, AtPlace
      <3> QED
        BY <3>1, <3>2, BeginsType DEF DictTypeOK
    <2>5. CASE Load(t)
      BY <1>2, <2>5 DEF Load
    <2>6. CASE StoreInc(t)
      <3>1. /\ At(t, "store_inc") /\ nwords' = thr[t].reg + 1 /\ overlapped' = overlapped
            /\ Returns(t, "insertw", IF nwords' > 0 THEN 1 ELSE 0) /\ UNCHANGED <<dict, before>>
        BY <2>6 DEF StoreInc
      <3>2. thr[t].arg \in Words
        BY <1>1, <2>2, <3>1, AtPlace
      <3>3. (IF nwords' > 0 THEN 1 ELSE 0) \in {0, 1}
        OBVIOUS
      <3> QED
        BY <2>1, <3>1, <3>2, <3>3, ReturnsType DEF DictTypeOK
    <2>7. CASE Scan(t)
      BY <2>7, BeginsType DEF Scan, DictTypeOK
    <2>8. CASE NotFound(t)
      <3>1. /\ At(t, "scan") /\ Begins /\ UNCHANGED <<dict, nwords>>
            /\ ret' = IF overlapped' THEN ret ELSE [call |-> "deletew", word |-> thr[t].arg, result |-> 0]
        BY <2>8 DEF NotFound
      <3>2. thr[t].arg \in Words
        BY <1>1, <2>2, <3>1, AtPlace
      <3>3. ret'.word \in Words \cup {0} /\ ret'.result \in {0, 1}
        BY <3>1, <3>2 DEF DictTypeOK
      <3> QED
        BY <3>1, <3>3, BeginsType DEF DictTypeOK
    <2>9. CASE StoreDec(t)
      BY <2>1, <2>9 DEF StoreDec, DictTypeOK
    <2>10. CASE Move(t)
      <3>1. /\ At(t, "move") /\ nwords \in Places /\ dict' = [dict EXCEPT ![thr[t].i] = dict[nwords]]
            /\ overlapped' = overlapped /\ Returns(t, "deletew", 1) /\ UNCHANGED <<nwords, before>>
        BY <2>10 DEF Move
      <3>2. thr[t].arg \in Words
        BY <1>1, <2>2, <3>1, AtPlace
      <3> QED
        BY <3>1, <3>2, ReturnsType DEF DictTypeOK
    <2>11. CASE Lookupw(t)
      <3>1. /\ At(t, "lookupw") /\ Begins /\ UNCHANGED <<dict, nwords>>
            /\ Returns(t, "lookupw", IF Found(thr[t].arg) # {} THEN 1 ELSE 0)
        BY <2>11 DEF Lookupw
      <3>2. thr[t].arg \in Words
        BY <1>1, <2>2, <3>1, AtPlace
      <3>3. (IF Found(thr[t].arg) # {} THEN 1 ELSE 0) \in {0, 1}
        OBVIOUS
      <3> QED
        BY <3>1, <3>2, <3>3, BeginsType, ReturnsType DEF DictTypeOK
    <2> QED
      BY <1>3, <2>3, <2>4, <2>5, <2>6, <2>7, <2>8, <2>9, <2>10, <2>11 DEF DictStep
  <1> QED
    BY <1>2, <1>3, Kinds DEF services

LEMMA DictTypeInit == ASSUME Init PROVE DictTypeOK
  <1>1. /\ dict = [x \in Places |-> 0] /\ nwords = 0 /\ ret = [call |-> "none", word |-> 0, result |-> 0]
        /\ before = Bag /\ overlapped = FALSE
    BY DEF Init, DictInit
  <1>2. before \in [Words -> Nat]
    BY <1>1, BagType
  <1>3. nwords \in Int /\ ret.word = 0 /\ ret.result = 0 /\ dict \in [Places -> Words \cup {0}]
    BY <1>1
  <1> QED
    BY <1>1, <1>2, <1>3 DEF DictTypeOK

\* What holds of the datagrams, the threads and the numbers.
NumbersIInv == BaseInv /\ DictTypeOK /\ BakeryTypeOK /\ NumbersInv

LEMMA NumbersInvariance == Spec => []NumbersIInv
  <1>1. Init => NumbersIInv
    BY BaseInit, DictTypeInit DEF NumbersIInv
  <1>2. NumbersIInv /\ [Next]_vars => NumbersIInv'
    <2> SUFFICES ASSUME NumbersIInv, [Next]_vars PROVE NumbersIInv'
      OBVIOUS
    <2>1. CASE Next
      <3>1. program' = program /\ ThreadsInv' /\ CallsInv'
        BY <2>1, CallsStep DEF NumbersIInv
      <3>2. DictTypeOK'
        BY <2>1, DictTypeStep DEF NumbersIInv
      <3>3. BakeryTypeOK' /\ NumbersInv'
        BY <2>1, NumbersStep DEF NumbersIInv
      <3>4. nwords' \in Int
        BY <3>2 DEF DictTypeOK
      <3> QED
        BY <3>1, <3>2, <3>3, <3>4 DEF NumbersIInv, BaseInv
    <2>2. CASE UNCHANGED vars
      <3>1. UNCHANGED <<program, client, asked, net, cur, thr, nwords>>
        BY <2>2 DEF vars, rpcvars, served, dictvars
      <3>2. ThreadsInv' /\ CallsInv'
        <4>1. thr' # <<>> => cur' \in net
          BY <3>1 DEF NumbersIInv, BaseInv, CallsInv
        <4>2. ThreadsInv'
          BY <3>1, SameProgram DEF NumbersIInv, BaseInv, ThreadsInv
        <4> QED
          BY <3>1, <4>1, <4>2, CallsKept DEF NumbersIInv, BaseInv
      <3>3. BaseInv'
        BY <3>1, <3>2 DEF NumbersIInv, BaseInv
      <3>4. DictTypeOK' /\ BakeryTypeOK' /\ NumbersInv'
        BY <2>2 DEF NumbersIInv, vars, dictvars, bakeryvars, DictTypeOK, BakeryTypeOK, NumbersInv
      <3> QED
        BY <3>3, <3>4 DEF NumbersIInv
    <2> QED
      BY <2>1, <2>2
  <1> QED
    BY <1>1, <1>2, PTL DEF Spec

\* No two calls of get_number give the same number, however many clients call,
\* however often a datagram comes (obakery/bakery_server.c 34).
THEOREM NumbersGiven == Spec => []NumbersDistinct
  <1>1. NumbersIInv => NumbersDistinct
    BY DEF NumbersIInv, NumbersInv, NumbersDistinct, IsInjective
  <1> QED
    BY <1>1, NumbersInvariance, PTL

\* A number just given is greater than that of the customer served last
\* (obakery/bakery_server.c 34, 48).
THEOREM InTime == Spec => NewcomersInTime
  <1>1. NumbersIInv /\ [Next]_vars => [given' # given => Last(given') > number_last]_given
    BY NumbersStep DEF NumbersIInv, vars, bakeryvars
  <1> QED
    BY <1>1, NumbersInvariance, PTL DEF Spec, NewcomersInTime

(***************************************************************************)
(* The calls whose threads run alone.                                      *)
(***************************************************************************)
\* What the steps of a call are for.
LEMMA OwnWanted ==
    ASSUME program \in AllPrograms, NEW proc, NEW arg, NEW s \in OwnSteps(proc, arg)
    PROVE  /\ s = "put" => "put" \in Wanted(proc, arg)
           /\ s = "take" => "take" \in Wanted(proc, arg)
           /\ s = "initw" => "initw" \in Wanted(proc, arg)
           /\ s = "store_inc" => "insertw" \in Wanted(proc, arg)
           /\ s \in {"scan", "move"} => "deletew" \in Wanted(proc, arg)
           /\ s = "lookupw" => "lookupw" \in Wanted(proc, arg)
           /\ s = "serve" => {"serve", "late"} \subseteq Wanted(proc, arg)
           /\ s \in {"get_number", "get_number_of_ind", "compute", "calculator_proc"} => s \in Wanted(proc, arg)
           /\ s = "service" => program = "pc_last"
  <1>1. CASE program \in {"pc"} \cup Pc2Servers
    <2>1. s \in {"switch", "getargs", "reply", "if", "start", "stop"}
                 \cup IF proc = 1 THEN {"put", "advance_prod"} ELSE {"take", "advance_cons"}
      BY <1>1 DEF OwnSteps, Pc2Servers, DictServers
    <2> QED
      BY <1>1, <2>1, WantedIs
  <1>2. CASE program = "pc_last"
    <2>1. s \in {"switch", "getargs", "reply", "service", "start", "stop"}
                 \cup IF arg = 0 THEN {"put", "advance_prod"} ELSE {"take", "advance_cons"}
      BY <1>2 DEF OwnSteps, DictServers
    <2> QED
      BY <1>2, <2>1, WantedIs
  <1>3. CASE program \in DictServers
    <2>1. s \in {"switch", "getargs", "reply"}
                 \cup IF proc = 1 THEN {"initw"} ELSE IF proc = 2 THEN {"strcpy", "load_inc", "store_inc"}
                      ELSE IF proc = 3 THEN {"scan", "load_dec", "store_dec", "move"} ELSE {"lookupw"}
      BY <1>3 DEF OwnSteps, DictServers
    <2> QED
      BY <1>3, <2>1, WantedIs
  <1>4. CASE program = "obakery"
    <2>1. s \in {"switch", "getargs", "reply"} \cup IF proc = 1 THEN {"get_number"} ELSE {"serve"}
      BY <1>4 DEF OwnSteps, DictServers
    <2> QED
      BY <1>4, <2>1, WantedIs
  <1>5. CASE program = "obakery_old"
    <2>1. s \in {"switch", "getargs", "reply"} \cup IF proc = 1 THEN {"get_number_of_ind"} ELSE {"compute"}
      BY <1>5 DEF OwnSteps, DictServers
    <2> QED
      BY <1>5, <2>1, WantedIs
  <1>6. CASE program = "calc"
    <2>1. s \in {"switch", "getargs", "reply", "calculator_proc"}
      BY <1>6 DEF OwnSteps, DictServers
    <2> QED
      BY <1>6, <2>1, WantedIs
  <1> QED
    BY <1>1, <1>2, <1>3, <1>4, <1>5, <1>6 DEF AllPrograms

\* What a thread is alone with.
LEMMA SameAlone ==
    ASSUME program' = program, cur' = cur, NEW x, AloneOK(x),
           fresh' = fresh \/ Place(x) \notin {"switch", "getargs"}
    PROVE  AloneOK(x)'
  <1>1. /\ dispatch' = dispatch
        /\ \A p, a : Wanted(p, a)' = Wanted(p, a) /\ OwnSteps(p, a)' = OwnSteps(p, a)
    BY SameProgram
  <1> DEFINE own == OwnSteps(cur.proc, cur.arg)
             wants == Wanted(cur.proc, cur.arg)
             getargs == dispatch.getargs
  <1>2. own' = own /\ wants' = wants /\ (getargs' <=> getargs)
    BY <1>1
  <1>3. /\ Place(x) = "switch" /\ ~getargs => fresh
        /\ Place(x) = "getargs" => fresh
        /\ Place(x) \notin {"switch", "getargs", "end"} \/ getargs => x.arg = cur.arg
        /\ \A n \in DOMAIN x.todo : x.todo[n] \in own
        /\ Place(x) \in {"advance_prod", "advance_cons", "stop", "reply"} => x.did \in wants
    BY DEF AloneOK
  <1> HIDE DEF own, wants, getargs
  <1>4. /\ Place(x) = "switch" /\ ~getargs' => fresh'
        /\ Place(x) = "getargs" => fresh'
        /\ Place(x) \notin {"switch", "getargs", "end"} \/ getargs' => x.arg = cur'.arg
        /\ \A n \in DOMAIN x.todo : x.todo[n] \in own'
        /\ Place(x) \in {"advance_prod", "advance_cons", "stop", "reply"} => x.did \in wants'
    BY <1>2, <1>3
  <1> QED
    BY <1>4 DEF AloneOK, own, wants, getargs, Place

\* A thread that ran alone is the only one still.
LEMMA AloneAfterMove ==
    ASSUME ThreadsInv, AloneInv, NEW t \in DOMAIN thr, Others(t), thr'[t].alone = thr[t].alone,
           NEW y, y = thr'[t], thr[t].alone => AloneOK(y)'
    PROVE  AloneInv'
  <1>1. ASSUME NEW u \in DOMAIN thr', thr'[u].alone PROVE u = t /\ thr[t].alone /\ Len(thr') = 1
    <2>1. u \in DOMAIN thr /\ thr[u].alone
      BY <1>1 DEF Others
    <2>2. Len(thr) = 1
      BY <2>1 DEF AloneInv
    <2>3. DOMAIN thr = 1 .. 1
      BY <2>2 DEF ThreadsInv
    <2> QED
      BY <2>1, <2>2, <2>3 DEF Others
  <1> QED
    BY <1>1 DEF AloneInv

LEMMA OwnTail ==
    ASSUME NEW x, IsPlan(x.todo), x.todo # <<>>, AloneOK(x), NEW y, y.todo = Tail(x.todo)
    PROVE  /\ \A n \in DOMAIN y.todo : y.todo[n] \in OwnSteps(cur.proc, cur.arg)
           /\ Place(x) \in OwnSteps(cur.proc, cur.arg) /\ Place(x) = Head(x.todo)
           /\ Place(y) # "end" => Place(y) \in OwnSteps(cur.proc, cur.arg) /\ Follows(Place(y), Place(x))
  <1> DEFINE s == x.todo
             u == y.todo
             own == OwnSteps(cur.proc, cur.arg)
  <1>1. /\ Len(s) \in Nat \ {0} /\ Head(s) = s[1] /\ u \in Seq(Steps) /\ Len(u) = Len(s) - 1
        /\ \A n \in 1 .. Len(s) - 1 : u[n] = s[n + 1]
        /\ u # <<>> => Follows(Head(u), Head(s))
    BY PlanTail
  <1>2. DOMAIN s = 1 .. Len(s) /\ \A n \in DOMAIN s : s[n] \in own
    BY DEF IsPlan, AloneOK
  <1>3. Place(x) = Head(s) /\ Place(y) = IF u = <<>> THEN "end" ELSE Head(u)
    BY DEF Place
  <1>4. x.todo = s /\ y.todo = u
    OBVIOUS
  <1> HIDE DEF s, u, own
  <1>5. \A n \in DOMAIN u : u[n] \in own
    BY <1>1, <1>2
  <1>6. Head(s) \in own
    BY <1>1, <1>2
  <1>7. u # <<>> => Head(u) \in own
    BY <1>1, <1>5
  <1> QED
    BY <1>1, <1>3, <1>4, <1>5, <1>6, <1>7 DEF own

\* A thread that runs alone goes on with its own steps.
LEMMA AloneMoves ==
    ASSUME ThreadsInv, AloneInv, NEW t \in DOMAIN thr, NEW s, At(t, s), s \notin {"switch", "getargs", "reply", "end"},
           MovesOn(t), UNCHANGED served,
           ASSUME s \in OwnSteps(cur.proc, cur.arg),
                  s \in {"advance_prod", "advance_cons", "stop", "reply"} =>
                     thr[t].did \in Wanted(cur.proc, cur.arg),
                  Place(thr'[t]) \in {"advance_prod", "advance_cons", "stop", "reply"},
                  Follows(Place(thr'[t]), s)
           PROVE  thr'[t].did \in Wanted(cur.proc, cur.arg)
    PROVE  AloneInv'
  <1> PICK y : y = thr'[t]
    OBVIOUS
  <1> SUFFICES ASSUME thr[t].alone PROVE AloneOK(y)'
    BY AloneAfterMove DEF MovesOn
  <1>1. IsPlan(thr[t].todo) /\ thr[t].todo # <<>> /\ Place(thr[t]) = s
    BY AtPlace
  <1>2. AloneOK(thr[t])
    BY DEF AloneInv
  <1>3. y.todo = Tail(thr[t].todo) /\ y.arg = thr[t].arg
    BY DEF MovesOn
  <1>4. /\ \A n \in DOMAIN y.todo : y.todo[n] \in OwnSteps(cur.proc, cur.arg)
        /\ s \in OwnSteps(cur.proc, cur.arg)
        /\ Place(y) # "end" => Follows(Place(y), s)
    BY <1>1, <1>2, <1>3, OwnTail
  <1>5. Place(y) \notin {"switch", "getargs"}
    BY <1>4 DEF Follows
  <1>6. y.arg = cur.arg
    BY <1>1, <1>2, <1>3 DEF AloneOK
  <1>7. s \in {"advance_prod", "advance_cons", "stop", "reply"} => thr[t].did \in Wanted(cur.proc, cur.arg)
    BY <1>1, <1>2 DEF AloneOK
  <1>8. Place(y) \in {"advance_prod", "advance_cons", "stop", "reply"} => y.did \in Wanted(cur.proc, cur.arg)
    BY <1>4, <1>7
  <1>9. AloneOK(y)
    BY <1>4, <1>5, <1>6, <1>8 DEF AloneOK
  <1>10. UNCHANGED <<program, cur, fresh>>
    BY DEF served
  <1> QED
    BY <1>5, <1>9, <1>10, SameAlone

LEMMA AloneSwitch ==
    ASSUME BaseInv, AloneInv, NEW t \in DOMAIN thr, Switch(t) PROVE AloneInv'
  <1>1. program \in AllPrograms /\ ThreadsInv /\ CallsInv
    BY ProgramIs DEF BaseInv
  <1> PICK y : y = thr'[t]
    OBVIOUS
  <1>2. /\ Others(t) /\ y.todo = dispatch.serve[cur.proc] /\ y.arg = thr[t].arg /\ thr[t].arg = NoArg
        /\ y.alone = thr[t].alone
        /\ Place(y) \in IF program = "pc" THEN {"start"}
                        ELSE IF program \in DictServers /\ cur.proc = 1 THEN {"initw"} ELSE {"getargs"}
        /\ \A n \in DOMAIN y.todo : y.todo[n] \in OwnSteps(cur.proc, cur.arg)
    BY <1>1, SwitchIs
  <1>3. At(t, "switch") /\ UNCHANGED <<program, cur, fresh>>
    BY DEF Switch, served
  <1>4. Place(thr[t]) = "switch"
    BY <1>1, <1>3, AtPlace
  <1> SUFFICES ASSUME thr[t].alone PROVE AloneOK(y)'
    BY <1>1, <1>2, AloneAfterMove
  <1>5. ~dispatch.getargs => fresh
    BY <1>4 DEF AloneInv, AloneOK
  <1>6. program # "pc" => ~dispatch.getargs
    BY <1>1, GetargsIs
  <1>7. Place(y) = "getargs" => fresh
    BY <1>2, <1>5, <1>6
  <1>8. cur.arg \in Arguments(cur.proc)
    BY <1>1, CurIs
  <1>9. program = "pc" \/ (program \in DictServers /\ cur.proc = 1) => Arguments(cur.proc) = {NoArg}
    BY <1>1, ArgumentsAre DEF DictServers
  <1>10. Place(y) \notin {"switch", "getargs", "end"} \/ dispatch.getargs => y.arg = cur.arg
    BY <1>2, <1>6, <1>8, <1>9
  <1>11. AloneOK(y)
    BY <1>2, <1>7, <1>10 DEF AloneOK
  <1> QED
    BY <1>3, <1>11, SameAlone

LEMMA AloneGetargs ==
    ASSUME BaseInv, AloneInv, NEW t \in DOMAIN thr, Getargs(t) PROVE AloneInv'
  <1>1. program \in AllPrograms /\ ThreadsInv /\ CallsInv
    BY ProgramIs DEF BaseInv
  <1> PICK y : y = thr'[t]
    OBVIOUS
  <1>2. /\ Others(t) /\ y.todo = Tail(thr[t].todo) /\ y.alone = thr[t].alone
        /\ Place(thr[t]) = "getargs" /\ Follows(Place(y), "getargs")
        /\ fresh /\ cur.arg \in prog.args => y.arg = cur.arg
    BY <1>1, DecodesIs
  <1>3. At(t, "getargs") /\ UNCHANGED <<program, cur>>
    BY DEF Getargs
  <1> SUFFICES ASSUME thr[t].alone PROVE AloneOK(y)'
    BY <1>1, <1>2, AloneAfterMove
  <1>4. AloneOK(thr[t]) /\ fresh
    BY <1>2 DEF AloneInv, AloneOK
  <1>5. IsPlan(thr[t].todo) /\ thr[t].todo # <<>>
    BY <1>1, <1>3, AtPlace
  <1>6. Place(y) \notin {"switch", "getargs", "end", "initw", "advance_prod", "advance_cons", "stop", "reply"}
    BY <1>2 DEF Follows
  <1>7. /\ \A n \in DOMAIN y.todo : y.todo[n] \in OwnSteps(cur.proc, cur.arg)
        /\ Place(y) \in OwnSteps(cur.proc, cur.arg)
    BY <1>2, <1>4, <1>5, <1>6, OwnTail
  <1>8. ~(program \in DictServers /\ cur.proc = 1)
    <2> SUFFICES ASSUME program \in DictServers, cur.proc = 1 PROVE FALSE
      OBVIOUS
    <2>1. OwnSteps(cur.proc, cur.arg) = {"switch", "getargs", "reply"} \cup {"initw"}
      BY DEF OwnSteps, DictServers
    <2> QED
      BY <1>6, <1>7, <2>1
  <1>9. cur.arg \in prog.args
    <2>1. cur.arg \in Arguments(cur.proc)
      BY <1>1, CurIs
    <2> QED
      BY <1>1, <1>8, <2>1, ArgumentsAre
  <1>10. y.arg = cur.arg
    BY <1>2, <1>4, <1>9
  <1>11. AloneOK(y)
    BY <1>4, <1>6, <1>7, <1>10 DEF AloneOK
  <1> QED
    BY <1>3, <1>6, <1>11, SameAlone

LEMMA AloneIf ==
    ASSUME BaseInv, AloneInv, NEW t \in DOMAIN thr, If(t) PROVE AloneInv'
  <1>1. program \in AllPrograms /\ ThreadsInv /\ CallsInv
    BY ProgramIs DEF BaseInv
  <1> PICK y : y = thr'[t]
    OBVIOUS
  <1>2. /\ Others(t) /\ y.todo = Tail(thr[t].todo) /\ y.alone = thr[t].alone /\ y.arg = thr[t].arg
        /\ Place(thr[t]) = "if"
    BY <1>1, IfIs
  <1>3. At(t, "if") /\ UNCHANGED <<program, cur, fresh>>
    BY DEF If, served
  <1> SUFFICES ASSUME thr[t].alone PROVE AloneOK(y)'
    BY <1>1, <1>2, AloneAfterMove
  <1>4. AloneOK(thr[t])
    BY DEF AloneInv
  <1>5. IsPlan(thr[t].todo) /\ thr[t].todo # <<>>
    BY <1>1, <1>3, AtPlace
  <1>6. /\ \A n \in DOMAIN y.todo : y.todo[n] \in OwnSteps(cur.proc, cur.arg)
        /\ Place(y) # "end" => Follows(Place(y), "if")
    BY <1>2, <1>4, <1>5, OwnTail
  <1>7. Place(y) \in {"start", "end"}
    BY <1>6 DEF Follows
  <1>8. y.arg = cur.arg
    BY <1>2, <1>4 DEF AloneOK
  <1>9. AloneOK(y)
    BY <1>6, <1>7, <1>8 DEF AloneOK
  <1> QED
    BY <1>3, <1>9, SameAlone

LEMMA AloneService ==
    ASSUME BaseInv, AloneInv, NEW t \in DOMAIN thr, ServiceOf(t) PROVE AloneInv'
  <1>1. program \in AllPrograms /\ ThreadsInv /\ CallsInv
    BY ProgramIs DEF BaseInv
  <1> PICK y : y = thr'[t]
    OBVIOUS
  <1>2. /\ Others(t) /\ Place(thr[t]) = "service"
        /\ y.todo = IF thr[t].arg = 0 THEN <<"start", "put", "advance_prod", "stop", "reply">>
                    ELSE IF thr[t].arg = 1 THEN <<"start", "take", "advance_cons", "stop", "reply">> ELSE <<>>
        /\ y.alone = thr[t].alone /\ y.arg = thr[t].arg
    BY <1>1, ServiceIs
  <1>3. At(t, "service") /\ UNCHANGED <<program, cur, fresh>>
    BY DEF ServiceOf, served
  <1> SUFFICES ASSUME thr[t].alone PROVE AloneOK(y)'
    BY <1>1, <1>2, AloneAfterMove
  <1>4. AloneOK(thr[t])
    BY DEF AloneInv
  <1>5. y.arg = cur.arg /\ thr[t].arg = cur.arg
    BY <1>2, <1>4 DEF AloneOK
  <1>6. program = "pc_last"
    <2>1. IsPlan(thr[t].todo) /\ thr[t].todo # <<>>
      BY <1>1, <1>3, AtPlace
    <2> PICK z : z.todo = Tail(thr[t].todo)
      <3>1. [todo |-> Tail(thr[t].todo)].todo = Tail(thr[t].todo)
        OBVIOUS
      <3> QED
        BY <3>1
    <2>2. "service" \in OwnSteps(cur.proc, cur.arg)
      BY <1>2, <1>4, <2>1, OwnTail
    <2> QED
      BY <1>1, <2>2, OwnWanted
  <1>7. Place(y) \in {"start", "end"}
    <2>1. /\ Head(<<"start", "put", "advance_prod", "stop", "reply">>) = "start"
          /\ Head(<<"start", "take", "advance_cons", "stop", "reply">>) = "start"
      OBVIOUS
    <2>2. y.todo = <<>> \/ Head(y.todo) = "start"
      BY <1>2, <2>1
    <2> QED
      BY <2>2 DEF Place
  <1>8. \A n \in DOMAIN y.todo : y.todo[n] \in OwnSteps(cur.proc, cur.arg)
    <2> DEFINE own == OwnSteps(cur.proc, cur.arg)
    <2>1. thr[t].arg = 0 => y.todo \in Seq(own)
      BY <1>2, <1>5, <1>6, PlansFor DEF IsPlanFor
    <2>2. thr[t].arg = 1 => y.todo \in Seq(own)
      <3>1. thr[t].arg = 1 => cur.arg # 0
        BY <1>5
      <3> QED
        BY <1>2, <1>6, <3>1, PlansFor DEF IsPlanFor
    <2>3. thr[t].arg \notin {0, 1} => y.todo = <<>>
      BY <1>2
    <2> HIDE DEF own
    <2>4. CASE thr[t].arg \in {0, 1}
      <3>1. y.todo \in Seq(own)
        BY <2>1, <2>2, <2>4
      <3> QED
        BY <3>1 DEF own
    <2>5. CASE thr[t].arg \notin {0, 1}
      BY <2>3, <2>5
    <2> QED
      BY <2>4, <2>5
  <1>9. AloneOK(y)
    BY <1>5, <1>7, <1>8 DEF AloneOK
  <1> QED
    BY <1>3, <1>9, SameAlone

LEMMA AloneNotFound ==
    ASSUME BaseInv, AloneInv, NEW t \in DOMAIN thr, NotFound(t) PROVE AloneInv'
  <1>1. program \in AllPrograms /\ ThreadsInv /\ CallsInv
    BY ProgramIs DEF BaseInv
  <1> PICK y : y = thr'[t]
    OBVIOUS
  <1>2. /\ Others(t) /\ Place(thr[t]) = "scan" /\ y.todo = <<"reply">> /\ y.did = "deletew"
        /\ y.alone = thr[t].alone /\ y.arg = thr[t].arg
    BY <1>1, NotFoundIs
  <1>3. At(t, "scan") /\ UNCHANGED <<program, cur, fresh>>
    BY DEF NotFound, served
  <1> SUFFICES ASSUME thr[t].alone PROVE AloneOK(y)'
    BY <1>1, <1>2, AloneAfterMove
  <1>4. AloneOK(thr[t])
    BY DEF AloneInv
  <1>5. "scan" \in OwnSteps(cur.proc, cur.arg)
    <2>1. IsPlan(thr[t].todo) /\ thr[t].todo # <<>>
      BY <1>1, <1>3, AtPlace
    <2> PICK z : z.todo = Tail(thr[t].todo)
      <3>1. [todo |-> Tail(thr[t].todo)].todo = Tail(thr[t].todo)
        OBVIOUS
      <3> QED
        BY <3>1
    <2> QED
      BY <1>2, <1>4, <2>1, OwnTail
  <1>6. y.did \in Wanted(cur.proc, cur.arg)
    BY <1>1, <1>2, <1>5, OwnWanted
  <1>7. Place(y) = "reply"
    <2>1. Head(<<"reply">>) = "reply" /\ <<"reply">> # <<>>
      OBVIOUS
    <2> QED
      BY <1>2, <2>1 DEF Place
  <1>8. \A n \in DOMAIN y.todo : y.todo[n] \in OwnSteps(cur.proc, cur.arg)
    <2>1. \A n \in DOMAIN <<"reply">> : <<"reply">>[n] = "reply"
      OBVIOUS
    <2>2. "reply" \in OwnSteps(cur.proc, cur.arg)
      BY DEF OwnSteps
    <2> QED
      BY <1>2, <2>1, <2>2
  <1>9. y.arg = cur.arg
    BY <1>2, <1>4 DEF AloneOK
  <1>10. AloneOK(y)
    BY <1>6, <1>7, <1>8, <1>9 DEF AloneOK
  <1> QED
    BY <1>3, <1>10, SameAlone

\* So do the steps of the services.
LEMMA AlonePasses ==
    ASSUME BaseInv, AloneInv, NEW t \in DOMAIN thr, NEW s, At(t, s),
           s \notin {"switch", "getargs", "reply", "end"}, MovesOn(t), UNCHANGED served,
           \/ s \in {"advance_prod", "advance_cons", "stop"} /\ thr'[t].did = thr[t].did
           \/ s \in {"start", "strcpy", "load_inc", "scan", "load_dec", "store_dec"}
    PROVE  AloneInv'
  <1>1. ThreadsInv
    BY DEF BaseInv
  <1>2. ASSUME s \in {"advance_prod", "advance_cons", "stop", "reply"} => thr[t].did \in Wanted(cur.proc, cur.arg),
               Place(thr'[t]) \in {"advance_prod", "advance_cons", "stop", "reply"},
               Follows(Place(thr'[t]), s)
        PROVE  thr'[t].did \in Wanted(cur.proc, cur.arg)
    BY <1>2 DEF Follows
  <1> QED
    BY <1>1, <1>2, AloneMoves

LEMMA AloneDoes ==
    ASSUME BaseInv, AloneInv, NEW t \in DOMAIN thr, NEW s, At(t, s),
           s \notin {"switch", "getargs", "reply", "end"}, NEW step \in Outcomes, Does(t, step),
           ASSUME s \in OwnSteps(cur.proc, cur.arg) PROVE step \in Wanted(cur.proc, cur.arg)
    PROVE  AloneInv'
  <1>1. ThreadsInv
    BY DEF BaseInv
  <1>2. MovesOn(t) /\ thr'[t].did = step /\ UNCHANGED served
    BY <1>1, DoesWork DEF Works
  <1>3. ASSUME s \in OwnSteps(cur.proc, cur.arg) PROVE thr'[t].did \in Wanted(cur.proc, cur.arg)
    BY <1>2, <1>3
  <1> QED
    BY <1>1, <1>2, <1>3, AloneMoves

LEMMA AlonePc ==
    ASSUME BaseInv, AloneInv, NEW t \in DOMAIN thr, PcStep(t) PROVE AloneInv'
  <1>1. program \in AllPrograms /\ ThreadsInv
    BY ProgramIs DEF BaseInv
  <1>2. {"put", "take"} \subseteq Outcomes
    BY DEF Outcomes
  <1>3. ASSUME NEW s \in {"start", "advance_prod", "advance_cons", "stop"}, At(t, s), Pass(t) PROVE AloneInv'
    <2>1. MovesOn(t) /\ thr'[t].did = thr[t].did
      BY <1>1, <1>3, Passes
    <2>2. UNCHANGED served
      BY <1>3 DEF Pass
    <2> QED
      BY <1>3, <2>1, <2>2, AlonePasses
  <1>4. ASSUME NEW s \in {"put", "take"}, At(t, s), Does(t, s) PROVE AloneInv'
    <2>1. ASSUME s \in OwnSteps(cur.proc, cur.arg) PROVE s \in Wanted(cur.proc, cur.arg)
      BY <1>1, <2>1, OwnWanted
    <2> QED
      BY <1>2, <1>4, <2>1, AloneDoes
  <1>5. CASE Start(t)
    BY <1>3, <1>5 DEF Start
  <1>6. CASE Stop(t)
    BY <1>3, <1>6 DEF Stop
  <1>7. CASE Put(t)
    BY <1>4, <1>7 DEF Put
  <1>8. CASE AdvanceProd(t)
    BY <1>3, <1>8 DEF AdvanceProd
  <1>9. CASE Take(t)
    BY <1>4, <1>9 DEF Take
  <1>10. CASE AdvanceCons(t)
    BY <1>3, <1>10 DEF AdvanceCons
  <1>11. CASE ServiceOf(t)
    BY <1>11, AloneService
  <1> QED
    BY <1>5, <1>6, <1>7, <1>8, <1>9, <1>10, <1>11 DEF PcStep

LEMMA AloneDict ==
    ASSUME BaseInv, AloneInv, NEW t \in DOMAIN thr, DictStep(t) PROVE AloneInv'
  <1>1. program \in AllPrograms /\ ThreadsInv /\ nwords \in Int
    BY ProgramIs DEF BaseInv
  <1>2. {"initw", "insertw", "deletew", "lookupw"} \subseteq Outcomes
    BY DEF Outcomes
  <1>3. ASSUME NEW s \in {"strcpy", "store_dec"}, At(t, s), Pass(t) PROVE AloneInv'
    <2>1. MovesOn(t)
      BY <1>1, <1>3, Passes
    <2>2. UNCHANGED served
      BY <1>3 DEF Pass
    <2> QED
      BY <1>3, <2>1, <2>2, AlonePasses
  <1>4. ASSUME NEW s \in {"initw", "store_inc", "move", "lookupw"}, NEW call, At(t, s), Does(t, call),
               call = IF s = "store_inc" THEN "insertw" ELSE IF s = "move" THEN "deletew" ELSE s
        PROVE  AloneInv'
    <2>1. ASSUME s \in OwnSteps(cur.proc, cur.arg) PROVE call \in Wanted(cur.proc, cur.arg)
      BY <1>1, <1>4, <2>1, OwnWanted
    <2>2. call \in Outcomes
      BY <1>2, <1>4
    <2> QED
      BY <1>4, <2>1, <2>2, AloneDoes
  <1>5. CASE Initw(t)
    BY <1>4, <1>5 DEF Initw, Returns
  <1>6. CASE Strcpy(t)
    BY <1>3, <1>6 DEF Strcpy
  <1>7. CASE Load(t)
    <2>1. MovesOn(t)
      BY <1>1, <1>7, LoadIs
    <2>2. UNCHANGED served /\ (At(t, "load_inc") \/ At(t, "load_dec"))
      BY <1>7 DEF Load
    <2> QED
      BY <2>1, <2>2, AlonePasses
  <1>8. CASE StoreInc(t)
    BY <1>4, <1>8 DEF StoreInc, Returns
  <1>9. CASE Scan(t)
    <2>1. MovesOn(t)
      BY <1>1, <1>9, ScanIs
    <2>2. UNCHANGED served /\ At(t, "scan")
      BY <1>9 DEF Scan
    <2> QED
      BY <2>1, <2>2, AlonePasses
  <1>10. CASE NotFound(t)
    BY <1>10, AloneNotFound
  <1>11. CASE StoreDec(t)
    BY <1>3, <1>11 DEF StoreDec
  <1>12. CASE Move(t)
    BY <1>4, <1>12 DEF Move, Returns
  <1>13. CASE Lookupw(t)
    BY <1>4, <1>13 DEF Lookupw, Returns
  <1> QED
    BY <1>5, <1>6, <1>7, <1>8, <1>9, <1>10, <1>11, <1>12, <1>13 DEF DictStep

LEMMA AloneBakery ==
    ASSUME BaseInv, AloneInv, NEW t \in DOMAIN thr, BakeryStep(t) PROVE AloneInv'
  <1>1. program \in AllPrograms /\ ThreadsInv
    BY ProgramIs DEF BaseInv
  <1>2. {"get_number", "get_number_of_ind", "serve", "late", "compute", "calculator_proc"} \subseteq Outcomes
    BY DEF Outcomes
  <1>3. ASSUME NEW s \in {"get_number", "get_number_of_ind", "compute", "calculator_proc"}, At(t, s), Does(t, s)
        PROVE  AloneInv'
    <2>1. ASSUME s \in OwnSteps(cur.proc, cur.arg) PROVE s \in Wanted(cur.proc, cur.arg)
      BY <1>1, <2>1, OwnWanted
    <2> QED
      BY <1>2, <1>3, <2>1, AloneDoes
  <1>4. ASSUME NEW step \in {"serve", "late"}, At(t, "serve"), Does(t, step) PROVE AloneInv'
    <2>1. ASSUME "serve" \in OwnSteps(cur.proc, cur.arg) PROVE step \in Wanted(cur.proc, cur.arg)
      BY <1>1, <2>1, OwnWanted
    <2> QED
      BY <1>2, <1>4, <2>1, AloneDoes
  <1>5. CASE GetNumber(t)
    BY <1>3, <1>5 DEF GetNumber
  <1>6. CASE GetNumberOfInd(t)
    BY <1>3, <1>6 DEF GetNumberOfInd
  <1>7. CASE ServeLate(t)
    BY <1>4, <1>7 DEF ServeLate
  <1>8. CASE Serve(t)
    <2>1. (IF num = -1 THEN "late" ELSE "serve") \in {"serve", "late"}
      OBVIOUS
    <2> QED
      BY <1>4, <1>8, <2>1 DEF Serve
  <1>9. CASE Compute(t)
    BY <1>3, <1>9 DEF Compute
  <1> QED
    BY <1>5, <1>6, <1>7, <1>8, <1>9 DEF BakeryStep

\* When the only thread ends, none is left.
LEMMA AloneEnds ==
    ASSUME BaseInv, AloneInv, NEW t \in DOMAIN thr, AtEnd(t) PROVE AloneInv'
  <1>1. ThreadsInv
    BY DEF BaseInv
  <1>2. Ends(t)
    BY <1>1, EndSteps
  <1> SUFFICES ASSUME NEW u \in DOMAIN thr', thr'[u].alone PROVE FALSE
    BY DEF AloneInv
  <1>3. Shift(u, t) \in DOMAIN thr \ {t} /\ thr'[u] = thr[Shift(u, t)]
    BY <1>1, <1>2, EndsIs
  <1>4. Len(thr) = 1
    BY <1>3 DEF AloneInv
  <1>5. DOMAIN thr = 1 .. 1
    BY <1>1, <1>4 DEF ThreadsInv
  <1> QED
    BY <1>3, <1>5

\* A thread that starts is alone if there is no other.
LEMMA AloneReceives ==
    ASSUME BaseInv, NEW d \in net, Receive(d) PROVE AloneInv'
  <1>1. program \in AllPrograms /\ ThreadsInv /\ CallsInv
    BY ProgramIs DEF BaseInv
  <1>2. UNCHANGED program /\ cur' = d /\ fresh' = ~dispatch.getargs
    BY DEF Receive
  <1>3. /\ \A p, a : OwnSteps(p, a)' = OwnSteps(p, a) /\ Wanted(p, a)' = Wanted(p, a)
        /\ dispatch' = dispatch
    BY <1>2, SameProgram
  <1> SUFFICES ASSUME NEW u \in DOMAIN thr', thr'[u].alone PROVE Len(thr') = 1 /\ AloneOK(thr[u])'
    BY DEF AloneInv
  <1>4. /\ thr' \in Seq(ThreadRecords) /\ Len(thr') = Len(thr) + 1 /\ Len(thr) \in Nat
        /\ thr'[Len(thr) + 1] = Started(d) /\ \A v \in DOMAIN thr : thr'[v].alone = FALSE
    BY <1>1, ReceiveIs
  <1>5. DOMAIN thr = 1 .. Len(thr) /\ DOMAIN thr' = 1 .. Len(thr) + 1
    BY <1>1, <1>4 DEF ThreadsInv
  <1>6. u = Len(thr) + 1
    BY <1>4, <1>5
  <1>7. /\ Started(d).arg = (IF dispatch.getargs THEN d.arg ELSE NoArg)
        /\ Started(d).alone = (thr = <<>>) /\ Started(d).todo = <<"switch">> /\ Place(Started(d)) = "switch"
    BY <1>1, ReceiveIs
  <1>8. Len(thr') = 1
    <2>1. Started(d).alone
      BY <1>4, <1>6
    <2>2. thr = <<>>
      BY <1>7, <2>1
    <2>3. Len(thr) = 0
      BY <2>2
    <2> QED
      BY <1>4, <2>3
  <1> PICK x : x = Started(d)
    OBVIOUS
  <1>9. \A n \in DOMAIN x.todo : x.todo[n] = "switch"
    BY <1>7
  <1>10. "switch" \in OwnSteps(d.proc, d.arg)
    BY DEF OwnSteps
  <1>11. Place(x) = "switch" /\ (dispatch.getargs => x.arg = d.arg)
    BY <1>7
  <1> DEFINE own == OwnSteps(d.proc, d.arg)
             wants == Wanted(d.proc, d.arg)
             getargs == dispatch.getargs
  <1>12. OwnSteps(cur.proc, cur.arg)' = own /\ Wanted(cur.proc, cur.arg)' = wants /\ (dispatch'.getargs <=> getargs)
    BY <1>2, <1>3
  <1>13. fresh' = ~getargs /\ (getargs => x.arg = d.arg) /\ "switch" \in own
    BY <1>2, <1>10, <1>11
  <1> HIDE DEF own, wants, getargs
  <1>14. AloneOK(x)'
    <2>1. Place(x)' = "switch"
      BY <1>11 DEF Place
    <2>2. /\ Place(x)' = "switch" /\ ~dispatch'.getargs => fresh'
          /\ Place(x)' \notin {"switch", "getargs", "end"} \/ dispatch'.getargs => x.arg = cur'.arg
      BY <1>2, <1>12, <1>13, <2>1
    <2>3. \A n \in DOMAIN x.todo : x.todo[n] \in OwnSteps(cur.proc, cur.arg)'
      BY <1>9, <1>12, <1>13
    <2> QED
      BY <2>1, <2>2, <2>3 DEF AloneOK
  <1> QED
    BY <1>4, <1>6, <1>8, <1>14

LEMMA AloneStep == ASSUME BaseInv, AloneInv, Next PROVE AloneInv'
  <1>1. ASSUME UNCHANGED <<program, cur, fresh, thr>> PROVE AloneInv'
    <2>1. \A t \in DOMAIN thr : AloneOK(thr[t]) => AloneOK(thr[t])'
      <3> SUFFICES ASSUME NEW t \in DOMAIN thr, AloneOK(thr[t]) PROVE AloneOK(thr[t])'
        OBVIOUS
      <3> PICK x : x = thr[t]
        OBVIOUS
      <3>1. AloneOK(x)'
        BY <1>1, SameAlone
      <3> QED
        BY <1>1, <3>1
    <2> QED
      BY <1>1, <2>1 DEF AloneInv
  <1>2. ASSUME NEW c \in Clients, Call(c) \/ Timeout(c) PROVE AloneInv'
    BY <1>1, <1>2 DEF Call, Timeout
  <1>3. ASSUME NEW t \in DOMAIN thr, AtThread(t) PROVE AloneInv'
    BY <1>3, AloneSwitch, AloneGetargs, AloneIf DEF AtThread
  <1> QED
    BY <1>2, <1>3, Kinds, AloneReceives, AloneEnds, AlonePc, AloneDict, AloneBakery

(***************************************************************************)
(* What a call that ran alone did.                                         *)
(***************************************************************************)
SoloInv == DOMAIN answer = Clients /\ SoloCallsRight

LEMMA SoloStep == ASSUME BaseInv, AloneInv, SoloInv, Next PROVE SoloInv'
  <1>1. program \in AllPrograms /\ ThreadsInv /\ CallsInv
    BY ProgramIs DEF BaseInv
  <1>2. ASSUME UNCHANGED <<asked, answer>> PROVE SoloInv'
    BY <1>2 DEF SoloInv, SoloCallsRight
  <1>3. ASSUME NEW c \in Clients, Call(c) PROVE SoloInv'
    <2>1. answer' = [answer EXCEPT ![c] = NoAnswer] /\ DOMAIN asked = Clients
      BY <1>1, <1>3 DEF Call, CallsInv
    <2>2. DOMAIN answer' = Clients /\ answer'[c] = NoAnswer
      BY <2>1 DEF SoloInv
    <2>3. ASSUME NEW b \in Clients, b # c PROVE answer'[b] = answer[b] /\ asked'[b] = asked[b]
      <3>1. PICK r : asked' = [asked EXCEPT ![c] = r]
        BY <1>3 DEF Call
      <3> QED
        BY <2>1, <2>3, <3>1 DEF SoloInv
    <2>4. NoAnswer' = NoAnswer
      BY DEF NoAnswer
    <2> QED
      BY <2>2, <2>3, <2>4 DEF SoloInv, SoloCallsRight
  <1>4. ASSUME NEW t \in DOMAIN thr, NEW did, Answered(t, did), did = "error" \/ did = thr[t].did,
               UNCHANGED asked, did # "error" => Place(thr[t]) = "reply"
        PROVE  SoloInv'
    <2> DEFINE c == cur.from
               v == IF thr[t].alone THEN [did |-> did, arg |-> thr[t].arg] ELSE NoAnswer
    <2>1. /\ cur \in net /\ c \in Clients /\ cur.call \in 1 .. MaxCalls
      BY <1>1, CurIs
    <2>2. client[c].call = cur.call /\ answer' = [answer EXCEPT ![c] = v]
      BY <1>4 DEF Answered
    <2>3. client[c].call > 0
      BY <2>1, <2>2, RpcProgramsAssumption
    <2>4. cur.proc = asked[c].proc /\ cur.arg = asked[c].arg /\ asked[c].wants = Wanted(asked[c].proc, asked[c].arg)
      BY <1>1, <2>1, <2>2, <2>3 DEF CallsInv
    <2>5. ASSUME thr[t].alone, did # "error" PROVE did \in asked[c].wants /\ thr[t].arg = asked[c].arg
      <3>1. AloneOK(thr[t])
        BY <2>5 DEF AloneInv
      <3>2. Place(thr[t]) = "reply" /\ did = thr[t].did
        BY <1>4, <2>5
      <3>3. thr[t].did \in Wanted(cur.proc, cur.arg) /\ thr[t].arg = cur.arg
        BY <3>1, <3>2 DEF AloneOK
      <3>4. Wanted(cur.proc, cur.arg) = asked[c].wants
        BY <2>4
      <3> QED
        BY <2>4, <3>2, <3>3, <3>4
    <2>6. v # NoAnswer => v.did = "error" \/ (v.did \in asked[c].wants /\ v.arg = asked[c].arg)
      <3>1. CASE thr[t].alone
        <4>1. v.did = did /\ v.arg = thr[t].arg
          BY <3>1
        <4> HIDE DEF v, c
        <4> QED
          BY <2>5, <3>1, <4>1
      <3>2. CASE ~thr[t].alone
        BY <3>2
      <3> QED
        BY <3>1, <3>2
    <2> HIDE DEF v, c
    <2>7. /\ DOMAIN answer' = Clients /\ answer'[c] = v
          /\ \A b \in Clients : b # c => answer'[b] = answer[b]
      BY <2>1, <2>2 DEF SoloInv
    <2>8. NoAnswer' = NoAnswer
      BY DEF NoAnswer
    <2> QED
      BY <1>4, <2>6, <2>7, <2>8 DEF SoloInv, SoloCallsRight
  <1>5. ASSUME NEW c \in Clients, Timeout(c) PROVE SoloInv'
    BY <1>2, <1>5 DEF Timeout
  <1>6. ASSUME NEW d \in net, Receive(d) PROVE SoloInv'
    BY <1>2, <1>6 DEF Receive
  <1>7. ASSUME NEW t \in DOMAIN thr, AtEnd(t) PROVE SoloInv'
    <2>1. /\ UNCHANGED asked
          /\ \/ UNCHANGED <<client, answer>>
             \/ Answered(t, "error")
             \/ Place(thr[t]) = "reply" /\ Answered(t, thr[t].did)
      BY <1>1, <1>7, EndSteps
    <2> QED
      BY <1>2, <1>4, <2>1
  <1>8. ASSUME NEW t \in DOMAIN thr, AtThread(t) \/ PcStep(t) \/ DictStep(t) \/ BakeryStep(t) PROVE SoloInv'
    <2>1. UNCHANGED <<asked, answer>>
      BY <1>8, ThreadKept
    <2> QED
      BY <1>2, <2>1
  <1> QED
    BY <1>3, <1>5, <1>6, <1>7, <1>8, Kinds

LEMMA SoloInvariance == Spec => [](AloneInv /\ SoloInv)
  <1>1. Init => AloneInv /\ SoloInv
    BY DEF Init, SunRpcInit, AloneInv, SoloInv, SoloCallsRight
  <1>2. NumbersIInv /\ AloneInv /\ SoloInv /\ [Next]_vars => (AloneInv /\ SoloInv)'
    <2> SUFFICES ASSUME NumbersIInv, AloneInv, SoloInv, [Next]_vars PROVE (AloneInv /\ SoloInv)'
      OBVIOUS
    <2>1. CASE Next
      BY <2>1, AloneStep, SoloStep DEF NumbersIInv
    <2>2. CASE UNCHANGED vars
      <3>1. UNCHANGED <<program, cur, fresh, thr, asked, answer>>
        BY <2>2 DEF vars, rpcvars, served
      <3>2. AloneInv'
        BY <3>1 DEF AloneInv, AloneOK, Place, dispatch, prog, OwnSteps, Wanted
      <3>3. SoloInv'
        BY <3>1 DEF SoloInv, SoloCallsRight, NoAnswer
      <3> QED
        BY <3>2, <3>3
    <2> QED
      BY <2>1, <2>2
  <1> QED
    BY <1>1, <1>2, NumbersInvariance, PTL DEF Spec

\* A call whose thread runs alone is answered to its own client and did what was
\* asked, or failed, whichever datagrams come late and again: in every program,
\* with any number of clients, calls and threads (pc/pc_svc.c 30-69,
\* pc_last/pc_svc.c 52-78).
THEOREM SoloRight == Spec => []SoloCallsRight
  <1>1. SoloInv => SoloCallsRight
    BY DEF SoloInv
  <1> QED
    BY <1>1, SoloInvariance, PTL

(***************************************************************************)
(* The semaphores of the producers and consumers.                          *)
(***************************************************************************)
\* The semaphore that a service waits for, and the one that it raises.
Waits(ops) == IF ops = 1 THEN EmptyCells ELSE Full
Raises(ops) == IF ops = 1 THEN Full ELSE EmptyCells

LEMMA SembufsAre ==
    ASSUME program \in PcServers, NEW ops \in {1, 2}
    PROVE  /\ prog.sembufs[ops].start = <<Sembuf(Waits(ops), -1), Sembuf(0, -1)>>
           /\ prog.sembufs[ops].stop = <<Sembuf(0, 1), Sembuf(Raises(ops), 1)>>
           /\ {Waits(ops), Raises(ops)} = {1, 2} /\ Waits(ops) # Raises(ops)
           /\ {Full, EmptyCells} = {1, 2} /\ Full # EmptyCells
  <1>1. CASE program \in {"pc"} \cup Pc2Servers
    <2>1. prog.sembufs = pc_sembufs
      BY <1>1, ProgramIs DEF pc, pc2, pc2_sembufs
    <2>2. Full = 2 /\ EmptyCells = 1
      BY <1>1 DEF Full, EmptyCells, Pc2Servers
    <2>3. /\ pc_sembufs[1].start = <<Sembuf(1, -1), Sembuf(0, -1)>>
          /\ pc_sembufs[1].stop = <<Sembuf(0, 1), Sembuf(2, 1)>>
          /\ pc_sembufs[2].start = <<Sembuf(2, -1), Sembuf(0, -1)>>
          /\ pc_sembufs[2].stop = <<Sembuf(0, 1), Sembuf(1, 1)>>
      BY DEF pc_sembufs
    <2> QED
      BY <2>1, <2>2, <2>3 DEF Waits, Raises
  <1>2. CASE program = "pc_last"
    <2>1. prog.sembufs = pc_last_sembufs
      BY <1>2, ProgramIs DEF pc_last
    <2>2. Full = 1 /\ EmptyCells = 2
      BY <1>2 DEF Full, EmptyCells
    <2>3. /\ pc_last_sembufs[1].start = <<Sembuf(2, -1), Sembuf(0, -1)>>
          /\ pc_last_sembufs[1].stop = <<Sembuf(0, 1), Sembuf(1, 1)>>
          /\ pc_last_sembufs[2].start = <<Sembuf(1, -1), Sembuf(0, -1)>>
          /\ pc_last_sembufs[2].stop = <<Sembuf(0, 1), Sembuf(2, 1)>>
      BY DEF pc_last_sembufs
    <2> QED
      BY <2>1, <2>2, <2>3 DEF Waits, Raises
  <1> QED
    BY <1>1, <1>2 DEF PcServers, Pc2Servers

\* The semaphores as main makes them.
LEMMA SemsAre ==
    ASSUME program \in AllPrograms
    PROVE  /\ prog.main.sems \in [0 .. 2 -> Nat]
           /\ program \in PcServers =>
                 prog.main.sems[0] = 1 /\ prog.main.sems[Full] = 0 /\ prog.main.sems[EmptyCells] = SIZE
  <1> DEFINE ring == [s \in 0 .. 2 |-> <<1, SIZE, 0>>[s + 1]]
             array == [s \in 0 .. 2 |-> <<1, 0, SIZE>>[s + 1]]
  <1>1. ring \in [0 .. 2 -> Nat] /\ ring[0] = 1 /\ ring[1] = SIZE /\ ring[2] = 0
    BY RpcProgramsAssumption
  <1>2. array \in [0 .. 2 -> Nat] /\ array[0] = 1 /\ array[1] = 0 /\ array[2] = SIZE
    BY RpcProgramsAssumption
  <1>3. CASE program \in {"pc"} \cup Pc2Servers
    <2>1. prog.main.sems = ring
      BY <1>3, ProgramIs DEF pc, pc_main, pc_init_sem, pc2, pc2_main
    <2>2. Full = 2 /\ EmptyCells = 1
      BY <1>3 DEF Full, EmptyCells, Pc2Servers
    <2> QED
      BY <1>1, <2>1, <2>2
  <1>4. CASE program = "pc_last"
    <2>1. prog.main.sems = array
      BY <1>4, ProgramIs DEF pc_last, pc_last_main
    <2>2. Full = 1 /\ EmptyCells = 2
      BY <1>4 DEF Full, EmptyCells
    <2> QED
      BY <1>2, <2>1, <2>2
  <1>5. CASE program \in DictServers \cup {"obakery", "obakery_old", "calc"}
    <2>1. prog.main.sems = NoSems
      BY <1>5, ProgramIs DEF dict_threads, dict_main, dict_one, dict_copy_main, obakery, obakery_main,
                             obakery_old, old_main, calc, calculator_main, DictServers
    <2>2. program \notin PcServers
      BY <1>5 DEF PcServers, DictServers
    <2> QED
      BY <2>1, <2>2 DEF NoSems
  <1> QED
    BY <1>3, <1>4, <1>5 DEF AllPrograms

\* A service takes its semaphores, and gives back.
LEMMA StartSems ==
    ASSUME program \in PcServers, sem \in [0 .. 2 -> Nat], NEW t, NEW ops \in {1, 2},
           Semops(t, prog.sembufs[ops].start)
    PROVE  /\ sem' \in [0 .. 2 -> Nat] /\ sem[0] > 0 /\ sem'[0] = sem[0] - 1
           /\ sem[Waits(ops)] > 0 /\ sem'[Waits(ops)] = sem[Waits(ops)] - 1
           /\ sem'[Raises(ops)] = sem[Raises(ops)]
  <1> DEFINE w == Waits(ops)
             a == <<Sembuf(w, -1), Sembuf(0, -1)>>
  <1>1. w \in {1, 2} /\ Raises(ops) \in {1, 2} /\ Raises(ops) # w
    BY SembufsAre
  <1>2. Ready2(sem, a) /\ sem' = After2(sem, a)
    BY SembufsAre DEF Semops
  <1>3. a[1].num = w /\ a[1].op = -1 /\ a[2].num = 0 /\ a[2].op = -1
    BY DEF Sembuf
  <1> HIDE DEF a, w
  <1> DEFINE v == Apply(sem, a[1])
  <1>4. v = [sem EXCEPT ![w] = @ - 1]
    BY <1>1, <1>3 DEF Apply
  <1>5. v[w] = sem[w] - 1 /\ v[0] = sem[0] /\ v[Raises(ops)] = sem[Raises(ops)] /\ DOMAIN v = 0 .. 2
    BY <1>1, <1>4
  <1>6. sem[w] + -1 >= 0 /\ v[0] + -1 >= 0
    BY <1>2, <1>3 DEF Ready2, Ready
  <1>7. sem' = [v EXCEPT ![0] = @ - 1]
    BY <1>2, <1>3, <1>4 DEF After2, Apply
  <1>8. sem' \in [0 .. 2 -> Nat]
    <2>1. \A s \in 0 .. 2 : v[s] = IF s = w THEN sem[w] - 1 ELSE sem[s]
      BY <1>1, <1>4
    <2>2. \A s \in 0 .. 2 : sem'[s] = IF s = 0 THEN sem[0] - 1 ELSE v[s]
      BY <1>5, <1>7
    <2>3. \A s \in 0 .. 2 : sem'[s] \in Nat
      BY <1>5, <1>6, <2>1, <2>2
    <2>4. sem' = [s \in 0 .. 2 |-> sem'[s]]
      BY <1>5, <1>7
    <2> QED
      BY <2>3, <2>4
  <1> HIDE DEF v
  <1> QED
    BY <1>1, <1>5, <1>6, <1>7, <1>8 DEF w

LEMMA StopSems ==
    ASSUME program \in PcServers, sem \in [0 .. 2 -> Nat], NEW t, NEW ops \in {1, 2},
           Semops(t, prog.sembufs[ops].stop)
    PROVE  /\ sem' \in [0 .. 2 -> Nat] /\ sem'[0] = sem[0] + 1
           /\ sem'[Waits(ops)] = sem[Waits(ops)] /\ sem'[Raises(ops)] = sem[Raises(ops)] + 1
  <1> DEFINE r == Raises(ops)
             a == <<Sembuf(0, 1), Sembuf(r, 1)>>
  <1>1. r \in {1, 2} /\ Waits(ops) \in {1, 2} /\ Waits(ops) # r
    BY SembufsAre
  <1>2. sem' = After2(sem, a)
    BY SembufsAre DEF Semops
  <1>3. a[1].num = 0 /\ a[1].op = 1 /\ a[2].num = r /\ a[2].op = 1
    BY DEF Sembuf
  <1> HIDE DEF a, r
  <1> DEFINE v == Apply(sem, a[1])
  <1>4. v = [sem EXCEPT ![0] = @ + 1]
    BY <1>1, <1>3 DEF Apply
  <1>5. v \in [0 .. 2 -> Nat] /\ v[0] = sem[0] + 1 /\ v[r] = sem[r] /\ v[Waits(ops)] = sem[Waits(ops)]
    BY <1>1, <1>4
  <1>6. sem' = [v EXCEPT ![r] = @ + 1]
    BY <1>2, <1>3, <1>4 DEF After2, Apply
  <1> HIDE DEF v
  <1> QED
    BY <1>1, <1>5, <1>6 DEF r

(***************************************************************************)
(* The threads at certain places.                                          *)
(***************************************************************************)
\* A step leaves the threads at the places S as they are, but for their numbers.
SameRun(x, y) == x.todo = y.todo /\ x.arg = y.arg /\ x.ops = y.ops /\ x.reg = y.reg /\ x.i = y.i
Kept(S) ==
    /\ \A u \in Threads(S)' : \E v \in Threads(S) : SameRun(thr'[u], thr[v])
    /\ \A v \in Threads(S) : \E u \in Threads(S)' : SameRun(thr'[u], thr[v])
    /\ (\A v, w \in Threads(S) : v = w) => \A v, w \in Threads(S)' : v = w

LEMMA SamePlace == \A x, y : SameRun(x, y) => Place(x) = Place(y)
  BY DEF SameRun, Place

LEMMA ThreadsAre ==
    /\ \A S : \A t \in DOMAIN thr : t \in Threads(S) <=> Place(thr[t]) \in S
    /\ \A S : \A u \in DOMAIN thr' : u \in Threads(S)' <=> Place(thr'[u]) \in S
    /\ \A S : Threads(S) \subseteq DOMAIN thr /\ Threads(S)' \subseteq DOMAIN thr'
  <1>1. \A S : \A t \in DOMAIN thr : t \in Threads(S) <=> Place(thr[t]) \in S
    BY DEF Threads
  <1>2. \A S : \A u \in DOMAIN thr' : u \in Threads(S)' <=> Place(thr'[u]) \in S
    BY DEF Threads, Place
  <1>3. \A S : Threads(S) \subseteq DOMAIN thr /\ Threads(S)' \subseteq DOMAIN thr'
    BY DEF Threads
  <1> QED
    BY <1>1, <1>2, <1>3

LEMMA KeptIfSame == ASSUME thr' = thr, NEW S PROVE Kept(S)
  <1>1. Threads(S)' = Threads(S)
    BY DEF Threads, Place
  <1> QED
    BY <1>1 DEF Kept, SameRun

LEMMA KeptByMove ==
    ASSUME NEW t \in DOMAIN thr, Others(t), NEW S, Place(thr[t]) \notin S, Place(thr'[t]) \notin S
    PROVE  Kept(S)
  <1>1. \A u \in DOMAIN thr : u # t => thr'[u] = thr[u]
    BY DEF Others
  <1>2. Threads(S)' = Threads(S)
    BY <1>1, ThreadsAre DEF Others
  <1>3. t \notin Threads(S) /\ Threads(S) \subseteq DOMAIN thr
    BY ThreadsAre
  <1> QED
    BY <1>1, <1>2, <1>3 DEF Kept, SameRun

LEMMA KeptByEnd ==
    ASSUME ThreadsInv, NEW t \in DOMAIN thr, Ends(t), NEW S, Place(thr[t]) \notin S
    PROVE  Kept(S)
  <1>1. /\ \A u \in DOMAIN thr' : Shift(u, t) \in DOMAIN thr \ {t} /\ thr'[u] = thr[Shift(u, t)]
        /\ \A v \in DOMAIN thr \ {t} : \E u \in DOMAIN thr' : v = Shift(u, t)
        /\ \A u, v \in DOMAIN thr' : Shift(u, t) = Shift(v, t) => u = v
    BY EndsIs
  <1>2. ASSUME NEW u \in Threads(S)' PROVE Shift(u, t) \in Threads(S) /\ SameRun(thr'[u], thr[Shift(u, t)])
    <2>1. u \in DOMAIN thr' /\ Place(thr'[u]) \in S
      BY ThreadsAre
    <2>2. Shift(u, t) \in DOMAIN thr /\ thr'[u] = thr[Shift(u, t)]
      BY <1>1, <2>1
    <2> QED
      BY <2>1, <2>2, ThreadsAre DEF SameRun
  <1>3. ASSUME NEW v \in Threads(S) PROVE \E u \in Threads(S)' : SameRun(thr'[u], thr[v])
    <2>1. v \in DOMAIN thr \ {t} /\ Place(thr[v]) \in S
      BY ThreadsAre
    <2>2. PICK u \in DOMAIN thr' : v = Shift(u, t)
      BY <1>1, <2>1
    <2>3. thr'[u] = thr[v]
      BY <1>1, <2>2
    <2>4. u \in Threads(S)'
      BY <2>1, <2>3, ThreadsAre
    <2> QED
      BY <2>3, <2>4 DEF SameRun
  <1>4. ASSUME \A v, w \in Threads(S) : v = w, NEW v \in Threads(S)', NEW w \in Threads(S)' PROVE v = w
    <2>1. Shift(v, t) = Shift(w, t)
      BY <1>2, <1>4
    <2>2. v \in DOMAIN thr' /\ w \in DOMAIN thr'
      BY ThreadsAre
    <2> QED
      BY <1>1, <2>1, <2>2
  <1> QED
    BY <1>2, <1>3, <1>4 DEF Kept

LEMMA KeptByReceive ==
    ASSUME ThreadsInv, CallsInv, program \in AllPrograms, NEW d \in net, Receive(d), NEW S, "switch" \notin S
    PROVE  Kept(S)
  <1>1. /\ thr' \in Seq(ThreadRecords) /\ Len(thr') = Len(thr) + 1 /\ Len(thr) \in Nat
        /\ Place(thr'[Len(thr) + 1]) = "switch"
    BY ReceiveIs
  <1>2. DOMAIN thr = 1 .. Len(thr) /\ DOMAIN thr' = 1 .. Len(thr) + 1
    BY <1>1 DEF ThreadsInv
  <1>3. ASSUME NEW u \in DOMAIN thr PROVE SameRun(thr'[u], thr[u])
    BY <1>3, ReceiveIs DEF SameRun
  <1>4. Threads(S)' = Threads(S)
    <2>1. \A u \in DOMAIN thr : Place(thr'[u]) = Place(thr[u])
      BY <1>3, SamePlace
    <2>2. Len(thr) + 1 \notin Threads(S)' /\ Len(thr) + 1 \notin Threads(S)
      BY <1>1, <1>2, ThreadsAre
    <2>3. \A u \in DOMAIN thr : u \in DOMAIN thr'
      BY <1>1, <1>2
    <2>4. \A u \in DOMAIN thr' : u \in DOMAIN thr \/ u = Len(thr) + 1
      BY <1>1, <1>2
    <2> QED
      BY <2>1, <2>2, <2>3, <2>4, ThreadsAre
  <1> QED
    BY <1>3, <1>4, ThreadsAre DEF Kept

\* The places of the services' own steps.
Own == Serving \cup {"load_inc", "store_inc", "load_dec", "store_dec", "move"}

\* No step but those of its service moves a thread from or to such a place.
LEMMA KeptByServer ==
    ASSUME BaseInv,
           \/ \E c \in Clients : Call(c) \/ Timeout(c)
           \/ \E d \in net : Receive(d)
           \/ \E t \in DOMAIN thr : AtThread(t) \/ AtEnd(t),
           NEW S, S \subseteq Own
    PROVE  Kept(S)
  <1>1. program \in AllPrograms /\ ThreadsInv /\ CallsInv
    BY ProgramIs DEF BaseInv
  <1>2. {"switch", "getargs", "if", "start", "initw", "reply", "end"} \cap S = {}
    BY DEF Own, Serving
  <1>3. ASSUME NEW c \in Clients, Call(c) \/ Timeout(c) PROVE Kept(S)
    BY <1>3, KeptIfSame DEF Call, Timeout
  <1>4. ASSUME NEW d \in net, Receive(d) PROVE Kept(S)
    BY <1>1, <1>2, <1>4, KeptByReceive
  <1>5. ASSUME NEW t \in DOMAIN thr, AtEnd(t) PROVE Kept(S)
    <2>1. Ends(t) /\ Place(thr[t]) \notin S
      BY <1>1, <1>2, <1>5, EndSteps
    <2> QED
      BY <1>1, <2>1, KeptByEnd
  <1>6. ASSUME NEW t \in DOMAIN thr, Switch(t) PROVE Kept(S)
    <2>1. Others(t) /\ Place(thr'[t]) \in {"start", "initw", "getargs"}
      BY <1>1, <1>6, SwitchIs
    <2>2. Place(thr[t]) = "switch"
      BY <1>1, <1>6, AtPlace DEF Switch
    <2> QED
      BY <1>2, <2>1, <2>2, KeptByMove
  <1>7. ASSUME NEW t \in DOMAIN thr, Getargs(t) PROVE Kept(S)
    <2>1. Others(t) /\ Place(thr[t]) = "getargs" /\ Follows(Place(thr'[t]), "getargs")
      BY <1>1, <1>7, DecodesIs
    <2>2. Place(thr'[t]) \notin Own
      BY <2>1 DEF Follows, Own, Serving
    <2> QED
      BY <1>2, <2>1, <2>2, KeptByMove
  <1>8. ASSUME NEW t \in DOMAIN thr, If(t) PROVE Kept(S)
    <2>1. Others(t) /\ Place(thr[t]) = "if" /\ thr'[t].todo = Tail(thr[t].todo)
      BY <1>1, <1>8, IfIs
    <2>2. IsPlan(thr[t].todo) /\ thr[t].todo # <<>> /\ Head(thr[t].todo) = "if"
      BY <1>1, <1>8, AtPlace DEF If
    <2>3. Place(thr'[t]) = "end" \/ Follows(Place(thr'[t]), "if")
      BY <2>1, <2>2, PlanTail DEF Place
    <2>4. Place(thr'[t]) \in {"start", "end"}
      BY <2>3 DEF Follows
    <2> QED
      BY <1>2, <2>1, <2>4, KeptByMove
  <1> QED
    BY <1>3, <1>4, <1>5, <1>6, <1>7, <1>8 DEF AtThread

(***************************************************************************)
(* The services of the producers and consumers.                            *)
(***************************************************************************)
\* What a step of a service is, and where it leaves its thread.
LEMMA PcPlaces ==
    ASSUME program \in AllPrograms, ThreadsInv, NEW t \in DOMAIN thr, PcStep(t)
    PROVE  /\ Others(t) /\ program \in PcServers /\ thr[t].ops \in {1, 2}
           /\ \/ /\ ServiceOf(t) /\ Place(thr[t]) = "service" /\ Place(thr'[t]) \in {"start", "end"}
              \/ /\ thr'[t].ops = thr[t].ops
                 /\ \/ /\ Start(t) /\ Place(thr[t]) = "start" /\ Place(thr'[t]) \in {"put", "take"}
                       /\ Place(thr'[t]) = thr[t].todo[2]
                    \/ Put(t) /\ Place(thr[t]) = "put" /\ Place(thr'[t]) = "advance_prod"
                    \/ AdvanceProd(t) /\ Place(thr[t]) = "advance_prod" /\ Place(thr'[t]) = "stop"
                    \/ Take(t) /\ Place(thr[t]) = "take" /\ Place(thr'[t]) = "advance_cons"
                    \/ AdvanceCons(t) /\ Place(thr[t]) = "advance_cons" /\ Place(thr'[t]) = "stop"
                    \/ Stop(t) /\ Place(thr[t]) = "stop" /\ Place(thr'[t]) = "reply"
  <1>1. Others(t) /\ program \in PcServers
    BY PcWorks DEF Works
  <1>2. \A s : At(t, s) => ThreadOK(thr[t]) /\ Place(thr[t]) = s
    BY AtPlace
  <1>3. ASSUME NEW s \in {"service", "start", "put", "advance_prod", "take", "advance_cons", "stop"}, At(t, s)
        PROVE  thr[t].ops \in {1, 2}
    BY <1>1, <1>2, <1>3 DEF ThreadOK
  <1>4. thr[t].ops \in {1, 2}
    BY <1>3 DEF PcStep, Start, Stop, Put, AdvanceProd, Take, AdvanceCons, ServiceOf
  <1>5. ASSUME NEW s, At(t, s), MovesOn(t), s \notin {"switch", "reply"}
        PROVE  /\ thr'[t].ops = thr[t].ops /\ Place(thr[t]) = s
               /\ Follows(Place(thr'[t]), s) /\ Place(thr'[t]) = thr[t].todo[2]
    <2>1. IsPlan(thr[t].todo) /\ thr[t].todo # <<>> /\ Head(thr[t].todo) = s /\ Place(thr[t]) = s
      BY <1>5, AtPlace
    <2> DEFINE p == thr[t].todo
               r == Tail(p)
    <2>2. /\ Len(p) \in Nat \ {0} /\ r \in Seq(Steps) /\ Len(r) = Len(p) - 1
          /\ \A n \in 1 .. Len(p) - 1 : r[n] = p[n + 1]
          /\ r = <<>> => Head(p) \in {"switch", "reply"}
          /\ r # <<>> => Follows(Head(r), Head(p))
      BY <2>1, PlanTail
    <2>3. thr'[t].todo = r /\ thr'[t].ops = thr[t].ops /\ Head(p) = s
      BY <1>5, <2>1 DEF MovesOn
    <2> HIDE DEF r
    <2>4. r # <<>>
      BY <1>5, <2>2, <2>3
    <2>5. Head(r) = r[1] /\ Len(r) # 0 /\ Len(r) \in Nat
      BY <2>2, <2>4
    <2>6. 1 \in 1 .. Len(p) - 1
      <3> DEFINE m == Len(p)
                 n == Len(r)
      <3>1. n = m - 1 /\ m \in Nat \ {0} /\ n # 0
        BY <2>2, <2>5
      <3> HIDE DEF m, n
      <3>2. 1 \in 1 .. m - 1
        BY <3>1
      <3> QED
        BY <3>2 DEF m
    <2>7. Head(r) = p[2]
      BY <2>2, <2>5, <2>6
    <2> QED
      BY <2>1, <2>2, <2>3, <2>4, <2>7 DEF Place
  <1>6. {"put", "take"} \subseteq Outcomes
    BY DEF Outcomes
  <1>7. ASSUME Start(t) PROVE thr'[t].ops = thr[t].ops /\ Place(thr[t]) = "start" /\ Place(thr'[t]) \in {"put", "take"}
                              /\ Place(thr'[t]) = thr[t].todo[2]
    <2>1. At(t, "start") /\ MovesOn(t)
      BY <1>7, Passes DEF Start
    <2> QED
      BY <1>5, <2>1 DEF Follows
  <1>8. ASSUME Put(t) PROVE thr'[t].ops = thr[t].ops /\ Place(thr[t]) = "put" /\ Place(thr'[t]) = "advance_prod"
    <2>1. At(t, "put") /\ MovesOn(t)
      BY <1>6, <1>8, DoesIt DEF Put
    <2> QED
      BY <1>5, <2>1 DEF Follows
  <1>9. ASSUME AdvanceProd(t)
        PROVE  thr'[t].ops = thr[t].ops /\ Place(thr[t]) = "advance_prod" /\ Place(thr'[t]) = "stop"
    <2>1. At(t, "advance_prod") /\ MovesOn(t)
      BY <1>9, Passes DEF AdvanceProd
    <2> QED
      BY <1>5, <2>1 DEF Follows
  <1>10. ASSUME Take(t) PROVE thr'[t].ops = thr[t].ops /\ Place(thr[t]) = "take" /\ Place(thr'[t]) = "advance_cons"
    <2>1. At(t, "take") /\ MovesOn(t)
      BY <1>6, <1>10, DoesIt DEF Take
    <2> QED
      BY <1>5, <2>1 DEF Follows
  <1>11. ASSUME AdvanceCons(t)
         PROVE  thr'[t].ops = thr[t].ops /\ Place(thr[t]) = "advance_cons" /\ Place(thr'[t]) = "stop"
    <2>1. At(t, "advance_cons") /\ MovesOn(t)
      BY <1>11, Passes DEF AdvanceCons
    <2> QED
      BY <1>5, <2>1 DEF Follows
  <1>12. ASSUME Stop(t) PROVE thr'[t].ops = thr[t].ops /\ Place(thr[t]) = "stop" /\ Place(thr'[t]) = "reply"
    <2>1. At(t, "stop") /\ MovesOn(t)
      BY <1>12, Passes DEF Stop
    <2> QED
      BY <1>5, <2>1 DEF Follows
  <1>13. ASSUME ServiceOf(t) PROVE Place(thr[t]) = "service" /\ Place(thr'[t]) \in {"start", "end"}
    <2>1. /\ Head(<<"start", "put", "advance_prod", "stop", "reply">>) = "start"
          /\ Head(<<"start", "take", "advance_cons", "stop", "reply">>) = "start"
      OBVIOUS
    <2>2. thr'[t].todo = <<>> \/ Head(thr'[t].todo) = "start"
      BY <1>13, <2>1, ServiceIs
    <2> QED
      BY <1>13, <2>2, ServiceIs DEF Place
  <1> QED
    BY <1>1, <1>4, <1>7, <1>8, <1>9, <1>10, <1>11, <1>12, <1>13 DEF PcStep

\* The only thread that serves, before and after its step.
LEMMA OnlyOne ==
    ASSUME NEW t \in DOMAIN thr, Others(t), Threads(Serving) \subseteq {t}, NEW S, S \subseteq Serving
    PROVE  /\ Threads(S) = IF Place(thr[t]) \in S THEN {t} ELSE {}
           /\ Threads(S)' = IF Place(thr'[t]) \in S THEN {t} ELSE {}
  <1>1. \A u \in DOMAIN thr : u # t => thr'[u] = thr[u] /\ Place(thr[u]) \notin Serving
    BY ThreadsAre DEF Others
  <1>2. Threads(S) = IF Place(thr[t]) \in S THEN {t} ELSE {}
    BY <1>1, ThreadsAre
  <1>3. Threads(S)' = IF Place(thr'[t]) \in S THEN {t} ELSE {}
    <2>1. \A u \in DOMAIN thr' : u # t => Place(thr'[u]) \notin S
      BY <1>1 DEF Others
    <2>2. DOMAIN thr' = DOMAIN thr
      BY DEF Others
    <2> QED
      BY <2>1, <2>2, ThreadsAre
  <1> QED
    BY <1>2, <1>3

PcInv == BaseInv /\ PcTypeOK /\ ServingInv

LEMMA LettersType == 0 \in Letters /\ NoLetter \notin Letters /\ \A a \in Letters : (a + 1) % NLetters \in Letters
  BY PcRpcAssumption DEF Letters, NoLetter

\* Where the threads that serve are kept, so is what they exclude each other by.
LEMMA ServingKept ==
    ASSUME PcInv, program' = program, Kept(Serving), Kept({"advance_prod"}), Kept({"advance_cons"}),
           UNCHANGED <<sem, prod_ptr, cons_ptr>>
    PROVE  ServingInv'
  <1> SUFFICES ASSUME program \in PcServers
               PROVE  /\ \A t, u \in Threads(Serving)' : t = u
                      /\ sem'[0] = IF Threads(Serving)' = {} THEN 1 ELSE 0
                      /\ Threads({"advance_prod"})' # {} => prod_ptr' < SIZE
                      /\ Threads({"advance_cons"})' # {} => cons_ptr' < SIZE
    BY DEF ServingInv
  <1>1. \A S : Kept(S) => (Threads(S)' = {} <=> Threads(S) = {})
    BY DEF Kept
  <1>2. \A t, u \in Threads(Serving) : t = u
    BY DEF PcInv, ServingInv
  <1>3. \A t, u \in Threads(Serving)' : t = u
    BY <1>2 DEF Kept
  <1> QED
    BY <1>1, <1>3 DEF PcInv, ServingInv

\* One service at a time runs, and the array and the semaphores keep their types.
LEMMA ServingMoves ==
    ASSUME PcInv, NEW t \in DOMAIN thr, PcStep(t)
    PROVE  PcTypeOK' /\ ServingInv'
  <1>1. program \in AllPrograms /\ ThreadsInv
    BY ProgramIs DEF PcInv, BaseInv
  <1>2. /\ Others(t) /\ program \in PcServers /\ thr[t].ops \in {1, 2} /\ UNCHANGED program
    BY <1>1, PcPlaces, PcWorks DEF Works, served
  <1>3. /\ sem \in [0 .. 2 -> Nat] /\ sem[0] \in Nat
        /\ buffer \in [0 .. SIZE - 1 -> Letters \cup {NoLetter}]
        /\ prod_ptr \in 0 .. SIZE /\ cons_ptr \in 0 .. SIZE /\ alpha \in Letters
        /\ puts \in Seq(Letters) /\ takes \in Seq(Letters \cup {NoLetter})
        /\ mixed \in BOOLEAN
    BY DEF PcInv, PcTypeOK
  <1>4. /\ \A v, w \in Threads(Serving) : v = w
        /\ sem[0] = IF Threads(Serving) = {} THEN 1 ELSE 0
        /\ Threads({"advance_prod"}) # {} => prod_ptr < SIZE
        /\ Threads({"advance_cons"}) # {} => cons_ptr < SIZE
    BY <1>2 DEF PcInv, ServingInv
  <1>5. SIZE \in Nat \ {0}
    BY RpcProgramsAssumption
  <1>6. ASSUME Threads(Serving) \subseteq {t}
        PROVE  /\ Threads(Serving)' = IF Place(thr'[t]) \in Serving THEN {t} ELSE {}
               /\ \A p \in Serving : /\ Threads({p}) = IF Place(thr[t]) = p THEN {t} ELSE {}
                                     /\ Threads({p})' = IF Place(thr'[t]) = p THEN {t} ELSE {}
    <2>1. \A p \in Serving : {p} \subseteq Serving
      OBVIOUS
    <2> QED
      BY <1>2, <1>6, <2>1, OnlyOne
  <1>7. ASSUME Place(thr[t]) \in Serving PROVE Threads(Serving) = {t} /\ sem[0] = 0
    <2>1. t \in Threads(Serving)
      BY <1>7, ThreadsAre
    <2> QED
      BY <1>4, <2>1
  <1>8. ASSUME Threads(Serving) \subseteq {t},
               sem' \in [0 .. 2 -> Nat], sem'[0] = IF Place(thr'[t]) \in Serving THEN 0 ELSE 1,
               Place(thr'[t]) = "advance_prod" => prod_ptr' < SIZE,
               Place(thr'[t]) = "advance_cons" => cons_ptr' < SIZE
        PROVE  ServingInv'
    <2>1. {"advance_prod", "advance_cons"} \subseteq Serving
      BY DEF Serving
    <2>2. /\ \A v, w \in Threads(Serving)' : v = w
          /\ sem'[0] = IF Threads(Serving)' = {} THEN 1 ELSE 0
          /\ Threads({"advance_prod"})' # {} => prod_ptr' < SIZE
          /\ Threads({"advance_cons"})' # {} => cons_ptr' < SIZE
      BY <1>6, <1>8, <2>1
    <2> QED
      BY <2>2 DEF ServingInv
  <1>9. CASE ServiceOf(t) /\ Place(thr[t]) = "service" /\ Place(thr'[t]) \in {"start", "end"}
    <2>1. Kept(Serving) /\ Kept({"advance_prod"}) /\ Kept({"advance_cons"})
      BY <1>2, <1>9, KeptByMove DEF Serving
    <2>2. UNCHANGED pcvars
      BY <1>9 DEF ServiceOf
    <2> QED
      BY <1>2, <2>1, <2>2, ServingKept DEF pcvars, PcTypeOK, PcInv
  <1>10. CASE Start(t) /\ Place(thr[t]) = "start" /\ Place(thr'[t]) \in {"put", "take"}
    <2>1. Semops(t, prog.sembufs[thr[t].ops].start)
          /\ UNCHANGED <<buffer, prod_ptr, cons_ptr, alpha, puts, takes>>
          /\ mixed' = (mixed \/ thr[t].todo[2] # <<"put", "take">>[thr[t].ops])
      BY <1>10 DEF Start
    <2>2. sem' \in [0 .. 2 -> Nat] /\ sem[0] > 0 /\ sem'[0] = sem[0] - 1
      BY <1>2, <1>3, <2>1, StartSems
    <2>3. Threads(Serving) = {}
      BY <1>4, <2>2
    <2>4. sem'[0] = 0
      BY <1>4, <2>2, <2>3
    <2>5. Place(thr'[t]) \in Serving
      BY <1>10 DEF Serving
    <2>6. ServingInv'
      BY <1>8, <1>10, <2>2, <2>3, <2>4, <2>5
    <2> QED
      BY <1>3, <2>1, <2>2, <2>6 DEF PcTypeOK
  <1>11. CASE Put(t) /\ Place(thr[t]) = "put" /\ Place(thr'[t]) = "advance_prod"
    <2>1. /\ buffer' = [buffer EXCEPT ![prod_ptr] = alpha] /\ puts' = Append(puts, alpha) /\ prod_ptr < SIZE
          /\ UNCHANGED <<sem, prod_ptr, cons_ptr, alpha, takes, mixed>>
      BY <1>11 DEF Put
    <2>2. Place(thr[t]) \in Serving /\ Place(thr'[t]) \in Serving
      BY <1>11 DEF Serving
    <2>3. ServingInv'
      BY <1>3, <1>7, <1>8, <1>11, <2>1, <2>2
    <2>4. prod_ptr \in 0 .. SIZE - 1
      BY <1>3, <1>5, <2>1
    <2>5. buffer' \in [0 .. SIZE - 1 -> Letters \cup {NoLetter}] /\ puts' \in Seq(Letters)
      BY <1>3, <2>1, <2>4
    <2> QED
      BY <1>3, <2>1, <2>3, <2>5 DEF PcTypeOK
  <1>12. CASE AdvanceProd(t) /\ Place(thr[t]) = "advance_prod" /\ Place(thr'[t]) = "stop"
    <2>1. /\ prod_ptr' = IF prog.wraps /\ prod_ptr + 1 = SIZE THEN 0 ELSE prod_ptr + 1
          /\ alpha' = (alpha + 1) % NLetters
          /\ UNCHANGED <<sem, buffer, cons_ptr, puts, takes, mixed>>
      BY <1>12 DEF AdvanceProd
    <2>2. Place(thr[t]) \in Serving /\ Place(thr'[t]) \in Serving
      BY <1>12 DEF Serving
    <2>3. ServingInv'
      BY <1>3, <1>7, <1>8, <1>12, <2>1, <2>2
    <2>4. prod_ptr < SIZE
      BY <1>4, <1>12, ThreadsAre
    <2>5. prod_ptr' \in 0 .. SIZE
      BY <1>3, <1>5, <2>1, <2>4
    <2>6. alpha' \in Letters
      BY <1>3, <2>1, LettersType
    <2> QED
      BY <1>3, <2>1, <2>3, <2>5, <2>6 DEF PcTypeOK
  <1>13. CASE Take(t) /\ Place(thr[t]) = "take" /\ Place(thr'[t]) = "advance_cons"
    <2>1. /\ takes' = Append(takes, buffer[cons_ptr]) /\ cons_ptr < SIZE
          /\ buffer' = IF prog.clears THEN [buffer EXCEPT ![cons_ptr] = NoLetter] ELSE buffer
          /\ UNCHANGED <<sem, prod_ptr, cons_ptr, alpha, puts, mixed>>
      BY <1>13 DEF Take
    <2>2. Place(thr[t]) \in Serving /\ Place(thr'[t]) \in Serving
      BY <1>13 DEF Serving
    <2>3. ServingInv'
      BY <1>3, <1>7, <1>8, <1>13, <2>1, <2>2
    <2>4. cons_ptr \in 0 .. SIZE - 1
      BY <1>3, <1>5, <2>1
    <2>5. buffer' \in [0 .. SIZE - 1 -> Letters \cup {NoLetter}] /\ takes' \in Seq(Letters \cup {NoLetter})
      BY <1>3, <2>1, <2>4
    <2> QED
      BY <1>3, <2>1, <2>3, <2>5 DEF PcTypeOK
  <1>14. CASE AdvanceCons(t) /\ Place(thr[t]) = "advance_cons" /\ Place(thr'[t]) = "stop"
    <2>1. /\ cons_ptr' = IF prog.wraps /\ cons_ptr + 1 = SIZE THEN 0 ELSE cons_ptr + 1
          /\ UNCHANGED <<sem, buffer, prod_ptr, alpha, puts, takes, mixed>>
      BY <1>14 DEF AdvanceCons
    <2>2. Place(thr[t]) \in Serving /\ Place(thr'[t]) \in Serving
      BY <1>14 DEF Serving
    <2>3. ServingInv'
      BY <1>3, <1>7, <1>8, <1>14, <2>1, <2>2
    <2>4. cons_ptr < SIZE
      BY <1>4, <1>14, ThreadsAre
    <2>5. cons_ptr' \in 0 .. SIZE
      BY <1>3, <1>5, <2>1, <2>4
    <2> QED
      BY <1>3, <2>1, <2>3, <2>5 DEF PcTypeOK
  <1>15. CASE Stop(t) /\ Place(thr[t]) = "stop" /\ Place(thr'[t]) = "reply"
    <2>1. Semops(t, prog.sembufs[thr[t].ops].stop)
          /\ UNCHANGED <<buffer, prod_ptr, cons_ptr, alpha, puts, takes, mixed>>
      BY <1>15 DEF Stop
    <2>2. sem' \in [0 .. 2 -> Nat] /\ sem'[0] = sem[0] + 1
      BY <1>2, <1>3, <2>1, StopSems
    <2>3. Place(thr[t]) \in Serving /\ Place(thr'[t]) \notin Serving
      BY <1>15 DEF Serving
    <2>4. sem'[0] = 1
      BY <1>7, <2>2, <2>3
    <2>5. ServingInv'
      BY <1>7, <1>8, <1>15, <2>2, <2>3, <2>4
    <2> QED
      BY <1>3, <2>1, <2>2, <2>5 DEF PcTypeOK
  <1> QED
    BY <1>1, <1>9, <1>10, <1>11, <1>12, <1>13, <1>14, <1>15, PcPlaces

LEMMA PcStepKeeps == ASSUME PcInv, Next PROVE PcTypeOK' /\ ServingInv'
  <1>1. program' = program
    BY CallsStep DEF PcInv
  <1>2. program \in AllPrograms /\ ThreadsInv /\ nwords \in Int /\ BaseInv
    BY ProgramIs DEF PcInv, BaseInv
  <1>3. ASSUME UNCHANGED pcvars PROVE PcTypeOK'
    BY <1>3 DEF PcInv, PcTypeOK, pcvars
  <1>4. Serving \subseteq Own /\ {"advance_prod"} \subseteq Own /\ {"advance_cons"} \subseteq Own
    BY DEF Own, Serving
  <1>5. ASSUME UNCHANGED services,
               \/ \E c \in Clients : Call(c) \/ Timeout(c)
               \/ \E d \in net : Receive(d)
               \/ \E t \in DOMAIN thr : AtThread(t) \/ AtEnd(t)
        PROVE  PcTypeOK' /\ ServingInv'
    <2>1. Kept(Serving) /\ Kept({"advance_prod"}) /\ Kept({"advance_cons"})
      BY <1>2, <1>4, <1>5, KeptByServer
    <2>2. UNCHANGED pcvars
      BY <1>5 DEF services
    <2> QED
      BY <1>1, <1>3, <2>1, <2>2, ServingKept DEF pcvars
  <1>6. ASSUME program \notin PcServers, UNCHANGED pcvars PROVE PcTypeOK' /\ ServingInv'
    <2>1. program' \notin PcServers
      BY <1>1, <1>6
    <2> QED
      BY <1>3, <1>6, <2>1 DEF ServingInv
  <1>7. PcServers \cap DictServers = {} /\ PcServers \cap {"obakery", "obakery_old", "calc"} = {}
    BY DEF PcServers, DictServers
  <1>8. ASSUME NEW t \in DOMAIN thr, DictStep(t) \/ BakeryStep(t), UNCHANGED pcvars
        PROVE  PcTypeOK' /\ ServingInv'
    BY <1>2, <1>6, <1>7, <1>8, DictWorks, BakeryWorks
  <1> QED
    BY <1>5, <1>8, Kinds, ServingMoves

LEMMA PcInit0 == ASSUME Init PROVE PcTypeOK /\ ServingInv
  <1>1. program \in AllPrograms
    BY ProgramIs DEF Init, SunRpcInit
  <1>2. SIZE \in Nat \ {0} /\ 0 \in Letters
    BY LettersType, RpcProgramsAssumption
  <1>3. /\ sem = prog.main.sems /\ buffer = [x \in 0 .. SIZE - 1 |-> NoLetter]
        /\ prod_ptr = 0 /\ cons_ptr = 0 /\ alpha = 0 /\ puts = <<>> /\ takes = <<>> /\ mixed = FALSE
        /\ thr = <<>>
    BY DEF Init, PcInit, SunRpcInit
  <1>4. PcTypeOK
    BY <1>1, <1>2, <1>3, SemsAre DEF PcTypeOK
  <1>5. \A S : Threads(S) = {}
    BY <1>3 DEF Threads
  <1>6. ServingInv
    BY <1>1, <1>3, <1>5, SemsAre DEF ServingInv
  <1> QED
    BY <1>4, <1>6

LEMMA PcInvariance == Spec => [](PcTypeOK /\ ServingInv)
  <1>1. Init => PcTypeOK /\ ServingInv
    BY PcInit0
  <1>2. NumbersIInv /\ PcTypeOK /\ ServingInv /\ [Next]_vars => (PcTypeOK /\ ServingInv)'
    <2> SUFFICES ASSUME NumbersIInv, PcTypeOK, ServingInv, [Next]_vars PROVE (PcTypeOK /\ ServingInv)'
      OBVIOUS
    <2>1. CASE Next
      BY <2>1, PcStepKeeps DEF NumbersIInv, PcInv
    <2>2. CASE UNCHANGED vars
      <3>1. UNCHANGED pcvars /\ UNCHANGED <<program, thr>>
        BY <2>2 DEF vars, rpcvars, served
      <3>2. PcTypeOK'
        BY <3>1 DEF pcvars, PcTypeOK
      <3>3. ServingInv'
        BY <3>1 DEF ServingInv, Threads, Place, pcvars
      <3> QED
        BY <3>2, <3>3
    <2> QED
      BY <2>1, <2>2
  <1> QED
    BY <1>1, <1>2, NumbersInvariance, PTL DEF Spec

(***************************************************************************)
(* Type correctness.                                                       *)
(***************************************************************************)
ServerInv ==
    /\ cur \in net \cup {NoDatagram} /\ fresh \in BOOLEAN
    /\ received \in 0 .. MaxRequests[program] /\ Len(thr) <= MaxThreads

LEMMA ServerStep == ASSUME BaseInv, ServerInv, Next PROVE ServerInv'
  <1>1. program \in AllPrograms /\ ThreadsInv /\ CallsInv /\ program' = program
    BY ProgramIs, CallsStep DEF BaseInv
  <1>2. MaxRequests[program] \in Nat /\ MaxThreads \in Nat \ {0} /\ Len(thr) \in Nat
    BY SunRpcAssumption DEF BaseInv, ThreadsInv
  <1>3. ASSUME UNCHANGED received, cur' \in net' \cup {NoDatagram}, fresh' \in BOOLEAN, Len(thr') <= Len(thr),
               Len(thr') \in Nat
        PROVE  ServerInv'
    <2>1. Len(thr') <= MaxThreads
      BY <1>2, <1>3 DEF ServerInv
    <2>2. NoDatagram' = NoDatagram
      BY DEF NoDatagram
    <2> QED
      BY <1>1, <1>3, <2>1, <2>2 DEF ServerInv
  <1>4. ASSUME NEW c \in Clients, Call(c) \/ Timeout(c) PROVE ServerInv'
    <2>1. UNCHANGED <<received, cur, fresh, thr>> /\ net \subseteq net'
      BY <1>4 DEF Call, Timeout
    <2> QED
      BY <1>2, <1>3, <2>1 DEF ServerInv
  <1>5. ASSUME NEW d \in net, Receive(d) PROVE ServerInv'
    <2>1. /\ received < MaxRequests[program] /\ received' = received + 1
          /\ Len(thr) < IF dispatch.thread THEN MaxThreads ELSE 1
          /\ cur' = d /\ fresh' = ~dispatch.getargs /\ UNCHANGED net
      BY <1>5 DEF Receive
    <2>2. Len(thr') = Len(thr) + 1
      BY <1>1, <1>5, ReceiveIs
    <2>3. fresh' \in BOOLEAN
      BY <1>1, <2>1, GetargsIs
    <2>4. Len(thr') <= MaxThreads
      <3>1. Len(thr) < MaxThreads \/ Len(thr) < 1
        BY <2>1
      <3> QED
        BY <1>2, <2>2, <3>1
    <2>5. received' \in 0 .. MaxRequests[program]
      BY <1>2, <2>1 DEF ServerInv
    <2>6. cur' \in net' /\ received' \in 0 .. MaxRequests[program']
      BY <1>1, <2>1, <2>5
    <2> QED
      BY <2>3, <2>4, <2>6 DEF ServerInv
  <1>6. ASSUME NEW t \in DOMAIN thr, AtEnd(t) PROVE ServerInv'
    <2>1. Ends(t) /\ UNCHANGED <<net, cur, received>> /\ fresh' \in {FALSE, fresh}
      BY <1>1, <1>6, EndSteps
    <2>2. thr' \in Seq(ThreadRecords) /\ Len(thr') = Len(thr) - 1
      BY <1>1, <2>1, EndsIs
    <2>3. Len(thr') \in Nat
      BY <2>2
    <2>4. Len(thr') <= Len(thr)
      BY <1>2, <2>2
    <2> QED
      BY <1>3, <2>1, <2>3, <2>4 DEF ServerInv
  <1>7. ASSUME NEW t \in DOMAIN thr, AtThread(t) \/ PcStep(t) \/ DictStep(t) \/ BakeryStep(t) PROVE ServerInv'
    <2>1. /\ Others(t) /\ UNCHANGED <<net, cur, received>> /\ fresh' \in {FALSE, fresh}
      BY <1>7, ThreadKept
    <2>2. Len(thr') = Len(thr)
      BY <2>1 DEF Others
    <2>3. cur' \in net' \cup {NoDatagram} /\ fresh' \in BOOLEAN
      BY <2>1 DEF ServerInv
    <2> QED
      BY <1>2, <1>3, <2>1, <2>2, <2>3
  <1> QED
    BY <1>4, <1>5, <1>6, <1>7, Kinds

LEMMA TypesFromInv == ASSUME BaseInv, ServerInv PROVE SunRpcTypeOK
  <1>1. program \in AllPrograms /\ program \in Servers /\ ThreadsInv /\ CallsInv
    BY ProgramIs DEF BaseInv
  <1>2. ASSUME NEW c \in Clients
        PROVE  /\ client[c].at \in {"idle", "waits"} /\ client[c].call \in 0 .. MaxCalls
               /\ client[c].role \in {Ended, 0, 1, RoleLetter} \cup Slots
    <2>1. /\ client[c].at \in {"idle", "waits"} /\ client[c].call \in 0 .. MaxCalls
          /\ client[c].role \in DOMAIN prog.client.runs \cup {Ended}
      BY <1>1 DEF CallsInv
    <2>2. DOMAIN prog.client.runs \subseteq {0, 1, RoleLetter} \cup Slots
      BY <1>1, ClientIs DEF ClientOK
    <2> QED
      BY <2>1, <2>2
  <1>3. ASSUME NEW d \in net \cup {cur}
        PROVE  /\ d.from \in Clients \cup {NoClient} /\ d.call \in 0 .. MaxCalls /\ d.proc \in 0 .. 4
               /\ d.arg \in prog.args \cup {NoArg}
    <2>1. CASE d \in net
      <3>1. /\ d.from \in Clients /\ d.call \in 1 .. MaxCalls /\ d.proc \in 1 .. 4
            /\ d.arg \in prog.args \cup {NoArg}
        BY <1>1, <2>1, DatagramIs
      <3> QED
        BY <3>1, RpcProgramsAssumption
    <2>2. CASE d = NoDatagram
      BY <2>2, RpcProgramsAssumption DEF NoDatagram
    <2> QED
      BY <2>1, <2>2 DEF ServerInv
  <1>4. ASSUME NEW t \in DOMAIN thr
        PROVE  /\ thr[t].arg \in prog.args \cup {NoArg} /\ thr[t].ops \in 0 .. 4 /\ thr[t].reg \in Int
               /\ thr[t].i \in Nat /\ Len(thr[t].todo) <= 8
    <2>1. thr[t] \in ThreadRecords /\ ThreadOK(thr[t])
      BY <1>1 DEF ThreadsInv
    <2> QED
      BY <2>1 DEF ThreadRecords, ThreadOK, IsPlan
  <1>5. Len(thr) \in 0 .. MaxThreads
    <2>1. Len(thr) \in Nat
      BY <1>1 DEF ThreadsInv
    <2> QED
      BY <2>1, SunRpcAssumption DEF ServerInv
  <1> QED
    BY <1>1, <1>2, <1>3, <1>4, <1>5 DEF SunRpcTypeOK, ServerInv

LEMMA ServerInvariance == Spec => []ServerInv
  <1>1. Init => ServerInv
    <2> SUFFICES ASSUME Init PROVE ServerInv
      OBVIOUS
    <2>1. program \in Servers /\ cur = NoDatagram /\ fresh = FALSE /\ received = 0 /\ thr = <<>>
      BY DEF Init, SunRpcInit
    <2>2. MaxRequests[program] \in Nat /\ MaxThreads \in Nat
      BY <2>1, SunRpcAssumption
    <2>3. Len(thr) <= MaxThreads
      BY <2>1, <2>2
    <2>4. received \in 0 .. MaxRequests[program]
      BY <2>1, <2>2
    <2>5. cur \in net \cup {NoDatagram} /\ fresh \in BOOLEAN
      BY <2>1
    <2> QED
      BY <2>3, <2>4, <2>5 DEF ServerInv
  <1>2. NumbersIInv /\ ServerInv /\ [Next]_vars => ServerInv'
    <2> SUFFICES ASSUME NumbersIInv, ServerInv, [Next]_vars PROVE ServerInv'
      OBVIOUS
    <2>1. CASE Next
      BY <2>1, ServerStep DEF NumbersIInv
    <2>2. CASE UNCHANGED vars
      <3>1. UNCHANGED <<program, cur, fresh, thr, net, received>>
        BY <2>2 DEF vars, rpcvars, served
      <3> QED
        BY <3>1 DEF ServerInv, NoDatagram
    <2> QED
      BY <2>1, <2>2
  <1> QED
    BY <1>1, <1>2, NumbersInvariance, PTL DEF Spec

\* The variables have their types in every program, with any number of clients,
\* calls, threads, cells, words and slots: no index leaves the ring, and no
\* semaphore becomes negative (pc2/pc_svc.c 73, threads_rpc/dict_srp.c 16,
\* obakery/bakery_server.c 34).
THEOREM TypeCorrect == Spec => []TypeOK
  <1>1. NumbersIInv /\ PcTypeOK /\ ServingInv /\ ServerInv => TypeOK
    BY TypesFromInv DEF NumbersIInv, TypeOK
  <1> QED
    BY <1>1, NumbersInvariance, PcInvariance, ServerInvariance, PTL

(***************************************************************************)
(* The letters in the ring.                                                *)
(***************************************************************************)
\* Counting round by one, and different numbers that are not a round apart.
LEMMA ModIs == ASSUME NEW N \in Nat \ {0}, NEW q \in Int, NEW r \in 0 .. N - 1 PROVE (N * q + r) % N = r
  OBVIOUS

LEMMA ModNext ==
    ASSUME NEW N \in Nat \ {0}, NEW n \in Nat
    PROVE  (n + 1) % N = (IF (n % N) + 1 = N THEN 0 ELSE (n % N) + 1) /\ n % N \in 0 .. N - 1
  <1> DEFINE q == n \div N
             r == n % N
  <1>1. q \in Int /\ r \in 0 .. N - 1 /\ n = N * q + r
    OBVIOUS
  <1> HIDE DEF q, r
  <1>2. CASE r + 1 = N
    <2>1. n + 1 = N * (q + 1) + 0 /\ q + 1 \in Int
      BY <1>1, <1>2
    <2>2. (N * (q + 1) + 0) % N = 0
      BY <2>1, ModIs
    <2> QED
      BY <1>1, <1>2, <2>1, <2>2 DEF r
  <1>3. CASE r + 1 # N
    <2>1. n + 1 = N * q + (r + 1) /\ r + 1 \in 0 .. N - 1
      BY <1>1, <1>3
    <2>2. (N * q + (r + 1)) % N = r + 1
      BY <1>1, <2>1, ModIs
    <2> QED
      BY <1>1, <1>3, <2>1, <2>2 DEF r
  <1> QED
    BY <1>2, <1>3

LEMMA ModDistinct ==
    ASSUME NEW N \in Nat \ {0}, NEW j \in Nat, NEW k \in Nat, j < k, k - j < N
    PROVE  j % N # k % N
  <1> DEFINE p == j \div N
             q == k \div N
             r == j % N
             s == k % N
  <1>1. p \in Int /\ r \in 0 .. N - 1 /\ j = N * p + r
    OBVIOUS
  <1>2. q \in Int /\ s \in 0 .. N - 1 /\ k = N * q + s
    OBVIOUS
  <1> HIDE DEF p, q, r, s
  <1> SUFFICES ASSUME r = s PROVE FALSE
    BY DEF r, s
  <1>3. k - j = N * (q - p)
    BY <1>1, <1>2
  <1>4. q - p \in Int
    BY <1>1, <1>2
  <1> DEFINE m == q - p
  <1> HIDE DEF m
  <1>5. m \in Int /\ N * m > 0 /\ N * m < N
    BY <1>3, <1>4 DEF m
  <1>6. CASE m <= 0
    <2>1. N * m <= 0
      BY <1>5, <1>6
    <2> QED
      BY <1>5, <2>1
  <1>7. CASE m >= 1
    <2>1. N * m >= N
      BY <1>5, <1>7
    <2> QED
      BY <1>5, <2>1
  <1> QED
    BY <1>5, <1>6, <1>7

\* The cell after a cell, and the cells that are in use at a time.
LEMMA CellsAre ==
    /\ \A k \in Nat : CellOf(k) \in Nat
    /\ \A k \in Nat : CellOf(k + 1) = IF prog.wraps /\ CellOf(k) + 1 = SIZE THEN 0 ELSE CellOf(k) + 1
    /\ \A j, k \in Nat : j < k /\ k - j < SIZE => CellOf(j) # CellOf(k)
    /\ CellOf(0) = 0
    /\ prog.wraps => \A k \in Nat : CellOf(k) < SIZE
    /\ \A j, k \in Nat : j <= k /\ CellOf(k) < SIZE => CellOf(j) < SIZE
  <1>1. SIZE \in Nat \ {0}
    BY RpcProgramsAssumption
  <1>2. CASE prog.wraps
    <2>1. \A k : CellOf(k) = k % SIZE
      BY <1>2 DEF CellOf, Cell
    <2>2. \A k \in Nat : CellOf(k) \in Nat
      <3>1. \A k \in Nat : k % SIZE \in Nat
        BY <1>1, ModNext
      <3> QED
        BY <2>1, <3>1
    <2>3. \A k \in Nat : CellOf(k + 1) = IF CellOf(k) + 1 = SIZE THEN 0 ELSE CellOf(k) + 1
      BY <1>1, <2>1, ModNext
    <2>4. \A j, k \in Nat : j < k /\ k - j < SIZE => CellOf(j) # CellOf(k)
      BY <1>1, <2>1, ModDistinct
    <2>5. CellOf(0) = 0
      BY <1>1, <2>1
    <2>6. \A k \in Nat : CellOf(k) < SIZE
      <3>1. \A k \in Nat : k % SIZE < SIZE
        BY <1>1, ModNext
      <3> QED
        BY <2>1, <3>1
    <2> QED
      BY <1>2, <2>2, <2>3, <2>4, <2>5, <2>6
  <1>3. CASE ~prog.wraps
    <2>1. \A k : CellOf(k) = k
      BY <1>3 DEF CellOf, Cell
    <2> QED
      BY <1>1, <1>3, <2>1
  <1> QED
    BY <1>2, <1>3

\* Where the threads that serve are kept, so are the letters.
LEMMA SameTables ==
    ASSUME program' = program
    PROVE  Full' = Full /\ EmptyCells' = EmptyCells /\ \A k : CellOf(k)' = CellOf(k)
  BY SameProgram DEF Full, EmptyCells, CellOf

LEMMA LettersKept ==
    ASSUME LettersInv, program' = program, \A p \in Serving : Kept({p}), UNCHANGED pcvars
    PROVE  LettersInv'
  <1> SUFFICES ASSUME program \in PcServers, ~mixed PROVE LettersOK'
    BY DEF LettersInv, pcvars
  <1>1. LettersOK
    BY DEF LettersInv
  <1>2. ASSUME NEW p \in Serving
        PROVE  (Threads({p})' = {} <=> Threads({p}) = {}) /\ \A o : (AtWith(p, o)' <=> AtWith(p, o))
    <2>1. /\ \A u \in Threads({p})' : \E v \in Threads({p}) : thr'[u].ops = thr[v].ops
          /\ \A v \in Threads({p}) : \E u \in Threads({p})' : thr'[u].ops = thr[v].ops
      BY <1>2 DEF Kept, SameRun
    <2>2. Threads({p})' = {} <=> Threads({p}) = {}
      BY <2>1
    <2>3. \A o : (AtWith(p, o)' <=> AtWith(p, o))
      BY <2>1 DEF AtWith
    <2> QED
      BY <2>2, <2>3
  <1>3. {"put", "advance_prod", "take", "advance_cons", "stop"} \subseteq Serving
    BY DEF Serving
  <1>4. /\ Full' = Full /\ EmptyCells' = EmptyCells /\ \A k : CellOf(k)' = CellOf(k)
        /\ UNCHANGED <<sem, buffer, prod_ptr, cons_ptr, puts, takes>> /\ Stored' = Stored
    BY SameTables DEF pcvars, Stored
  <1>5. /\ Threads({"put"})' # {} => AtWith("put", 1)'
        /\ Threads({"advance_prod"})' # {} => AtWith("advance_prod", 1)'
        /\ Threads({"take"})' # {} => AtWith("take", 2)'
        /\ Threads({"advance_cons"})' # {} => AtWith("advance_cons", 2)' /\ Len(takes') > 0
    BY <1>1, <1>2, <1>3, <1>4 DEF LettersOK
  <1>6. /\ (AtWith("put", 1)' <=> AtWith("put", 1))
        /\ (AtWith("advance_prod", 1)' <=> AtWith("advance_prod", 1))
        /\ (AtWith("take", 2)' <=> AtWith("take", 2))
        /\ (AtWith("advance_cons", 2)' <=> AtWith("advance_cons", 2))
        /\ (AtWith("stop", 1)' <=> AtWith("stop", 1)) /\ (AtWith("stop", 2)' <=> AtWith("stop", 2))
    BY <1>2, <1>3
  <1>7. /\ sem'[Full'] = IF AtWith("advance_prod", 1)' \/ AtWith("stop", 1)' \/ AtWith("take", 2)'
                         THEN Stored' - 1 ELSE Stored'
        /\ sem'[EmptyCells'] = IF AtWith("put", 1)' \/ AtWith("advance_cons", 2)' \/ AtWith("stop", 2)'
                               THEN SIZE - Stored' - 1 ELSE SIZE - Stored'
    BY <1>1, <1>4, <1>6 DEF LettersOK
  <1>8. /\ prod_ptr' = CellOf(IF AtWith("advance_prod", 1) THEN Len(puts) - 1 ELSE Len(puts))'
        /\ cons_ptr' = CellOf(IF AtWith("advance_cons", 2) THEN Len(takes) - 1 ELSE Len(takes))'
    <2>1. \A k, l : k = l => CellOf(k)' = CellOf(l)
      BY <1>4
    <2>2. /\ prod_ptr = CellOf(IF AtWith("advance_prod", 1) THEN Len(puts) - 1 ELSE Len(puts))
          /\ cons_ptr = CellOf(IF AtWith("advance_cons", 2) THEN Len(takes) - 1 ELSE Len(takes))
      BY <1>1 DEF LettersOK
    <2>3. /\ (IF AtWith("advance_prod", 1)' THEN Len(puts') - 1 ELSE Len(puts'))
                = IF AtWith("advance_prod", 1) THEN Len(puts) - 1 ELSE Len(puts)
          /\ (IF AtWith("advance_cons", 2)' THEN Len(takes') - 1 ELSE Len(takes'))
                = IF AtWith("advance_cons", 2) THEN Len(takes) - 1 ELSE Len(takes)
      BY <1>4, <1>6
    <2> QED
      BY <1>4, <2>2, <2>3 DEF CellOf
  <1>9. /\ Stored' >= 0 /\ \A n \in 1 .. Len(takes') : takes'[n] = puts'[n]
        /\ \A n \in Len(takes') + 1 .. Len(puts') : buffer'[CellOf(n - 1)'] = puts'[n]
    BY <1>1, <1>4 DEF LettersOK
  <1> QED
    BY <1>5, <1>7, <1>8, <1>9 DEF LettersOK

\* LettersOK, if the thread that serves is at p with the semaphores of o.
Flat(p, o) ==
    /\ p \in {"put", "advance_prod"} => o = 1
    /\ p \in {"take", "advance_cons"} => o = 2
    /\ p = "advance_cons" => Len(takes) > 0
    /\ sem[Full] = IF p = "advance_prod" \/ (p = "stop" /\ o = 1) \/ p = "take" THEN Stored - 1 ELSE Stored
    /\ sem[EmptyCells] = IF p = "put" \/ p = "advance_cons" \/ (p = "stop" /\ o = 2)
                         THEN SIZE - Stored - 1 ELSE SIZE - Stored
    /\ prod_ptr = CellOf(IF p = "advance_prod" THEN Len(puts) - 1 ELSE Len(puts))
    /\ cons_ptr = CellOf(IF p = "advance_cons" THEN Len(takes) - 1 ELSE Len(takes))
    /\ Stored >= 0
    /\ \A n \in 1 .. Len(takes) : takes[n] = puts[n]
    /\ \A n \in Len(takes) + 1 .. Len(puts) : buffer[CellOf(n - 1)] = puts[n]

\* The thread that serves, if there is one, is at p with the semaphores of o.
ServesAt(p, o) ==
    \A s \in Serving : (Threads({s}) # {} <=> p = s) /\ \A k : (AtWith(s, k) <=> p = s /\ o = k)

LEMMA FlatIs == \A p, o : ServesAt(p, o) => (LettersOK <=> Flat(p, o))
  <1> SUFFICES ASSUME NEW p, NEW o, ServesAt(p, o) PROVE LettersOK <=> Flat(p, o)
    OBVIOUS
  <1>0. \A s \in Serving : (Threads({s}) # {} <=> p = s) /\ \A k : (AtWith(s, k) <=> p = s /\ o = k)
    BY DEF ServesAt
  <1>1. {"put", "advance_prod", "take", "advance_cons", "stop"} \subseteq Serving
    BY DEF Serving
  <1> DEFINE both == /\ p \in {"put", "advance_prod"} => o = 1
                     /\ p \in {"take", "advance_cons"} => o = 2
                     /\ p = "advance_cons" => Len(takes) > 0
             rest == /\ Stored >= 0
                     /\ \A n \in 1 .. Len(takes) : takes[n] = puts[n]
                     /\ \A n \in Len(takes) + 1 .. Len(puts) : buffer[CellOf(n - 1)] = puts[n]
  <1>2. /\ Threads({"put"}) # {} <=> p = "put"
        /\ Threads({"advance_prod"}) # {} <=> p = "advance_prod"
        /\ Threads({"take"}) # {} <=> p = "take"
        /\ Threads({"advance_cons"}) # {} <=> p = "advance_cons"
    BY <1>0, <1>1
  <1>3. /\ AtWith("put", 1) <=> p = "put" /\ o = 1
        /\ AtWith("advance_prod", 1) <=> p = "advance_prod" /\ o = 1
        /\ AtWith("take", 2) <=> p = "take" /\ o = 2
        /\ AtWith("advance_cons", 2) <=> p = "advance_cons" /\ o = 2
        /\ AtWith("stop", 1) <=> p = "stop" /\ o = 1
        /\ AtWith("stop", 2) <=> p = "stop" /\ o = 2
    BY <1>0, <1>1
  <1>4. both <=> /\ Threads({"put"}) # {} => AtWith("put", 1)
                 /\ Threads({"advance_prod"}) # {} => AtWith("advance_prod", 1)
                 /\ Threads({"take"}) # {} => AtWith("take", 2)
                 /\ Threads({"advance_cons"}) # {} => AtWith("advance_cons", 2) /\ Len(takes) > 0
    BY <1>2, <1>3
  <1>5. ASSUME both
        PROVE  /\ AtWith("put", 1) <=> p = "put"
               /\ AtWith("advance_prod", 1) <=> p = "advance_prod"
               /\ AtWith("take", 2) <=> p = "take"
               /\ AtWith("advance_cons", 2) <=> p = "advance_cons"
    BY <1>3, <1>5
  <1>6. LettersOK <=>
          /\ both
          /\ sem[Full] = IF p = "advance_prod" \/ (p = "stop" /\ o = 1) \/ p = "take" THEN Stored - 1 ELSE Stored
          /\ sem[EmptyCells] = IF p = "put" \/ p = "advance_cons" \/ (p = "stop" /\ o = 2)
                               THEN SIZE - Stored - 1 ELSE SIZE - Stored
          /\ prod_ptr = CellOf(IF p = "advance_prod" THEN Len(puts) - 1 ELSE Len(puts))
          /\ cons_ptr = CellOf(IF p = "advance_cons" THEN Len(takes) - 1 ELSE Len(takes))
          /\ rest
    <2> HIDE DEF both
    <2>1. ASSUME both
          PROVE  LettersOK <=>
            /\ sem[Full] = IF p = "advance_prod" \/ (p = "stop" /\ o = 1) \/ p = "take" THEN Stored - 1 ELSE Stored
            /\ sem[EmptyCells] = IF p = "put" \/ p = "advance_cons" \/ (p = "stop" /\ o = 2)
                                 THEN SIZE - Stored - 1 ELSE SIZE - Stored
            /\ prod_ptr = CellOf(IF p = "advance_prod" THEN Len(puts) - 1 ELSE Len(puts))
            /\ cons_ptr = CellOf(IF p = "advance_cons" THEN Len(takes) - 1 ELSE Len(takes))
            /\ rest
      BY <1>3, <1>4, <1>5, <2>1 DEF LettersOK
    <2>2. LettersOK => both
      BY <1>4 DEF LettersOK
    <2> QED
      BY <2>1, <2>2
  <1> QED
    BY <1>6 DEF Flat

LEMMA FlatNext == \A p, o : ServesAt(p, o)' => (LettersOK' <=> Flat(p, o)')
  <1>1. (\A p, o : ServesAt(p, o) => (LettersOK <=> Flat(p, o)))'
    BY FlatIs, PTL
  <1> QED
    BY <1>1

\* The thread t at p and its record after the step at q.
LEMMA FlatSteps ==
    ASSUME NEW t \in DOMAIN thr, Others(t), Threads(Serving) \subseteq {t}
    PROVE  /\ LettersOK => Flat(Place(thr[t]), thr[t].ops)
           /\ \A q, r : Place(thr'[t]) = q /\ thr'[t].ops = r /\ Flat(q, r)' => LettersOK'
  <1>1. ASSUME NEW s \in Serving
        PROVE  /\ Threads({s}) = (IF Place(thr[t]) = s THEN {t} ELSE {})
               /\ Threads({s})' = (IF Place(thr'[t]) = s THEN {t} ELSE {})
    <2>1. {s} \subseteq Serving
      BY <1>1
    <2> QED
      BY <2>1, OnlyOne
  <1> DEFINE p == Place(thr[t])
             o == thr[t].ops
  <1>2. ServesAt(p, o)
    <2>1. ASSUME NEW s \in Serving, NEW k PROVE AtWith(s, k) <=> p = s /\ o = k
      <3>1. CASE p = s
        <4>1. Threads({s}) = {t}
          BY <1>1, <3>1
        <4> QED
          BY <3>1, <4>1 DEF AtWith
      <3>2. CASE p # s
        <4>1. Threads({s}) = {}
          BY <1>1, <3>2
        <4> QED
          BY <3>2, <4>1 DEF AtWith
      <3> QED
        BY <3>1, <3>2
    <2>2. \A s \in Serving : (Threads({s}) # {} <=> p = s)
      BY <1>1
    <2> HIDE DEF p, o
    <2> QED
      BY <2>1, <2>2 DEF ServesAt
  <1>3. LettersOK <=> Flat(p, o)
    <2> HIDE DEF p, o
    <2> QED
      BY <1>2, FlatIs
  <1>4. ASSUME NEW q, NEW r, Place(thr'[t]) = q, thr'[t].ops = r, Flat(q, r)' PROVE LettersOK'
    <2>1. ASSUME NEW s \in Serving, NEW k PROVE AtWith(s, k)' <=> q = s /\ r = k
      <3>1. CASE q = s
        <4>1. Threads({s})' = {t}
          BY <1>1, <1>4, <3>1
        <4> QED
          BY <1>4, <3>1, <4>1 DEF AtWith
      <3>2. CASE q # s
        <4>1. Threads({s})' = {}
          BY <1>1, <1>4, <3>2
        <4> QED
          BY <3>2, <4>1 DEF AtWith
      <3> QED
        BY <3>1, <3>2
    <2>2. \A s \in Serving : (Threads({s})' # {} <=> q = s)
      BY <1>1, <1>4
    <2>3. ServesAt(q, r)'
      BY <2>1, <2>2 DEF ServesAt, Serving
    <2> QED
      BY <1>4, <2>3, FlatNext
  <1> QED
    BY <1>3, <1>4

\* Only pc clears the cells, and its ring wraps.
LEMMA ClearsWraps == ASSUME program \in PcServers PROVE prog.clears => prog.wraps
  <1>1. CASE program = "pc"
    BY <1>1, ProgramIs DEF pc, pc_producer_1_svc
  <1>2. CASE program \in Pc2Servers
    BY <1>2, ProgramIs DEF pc2, pc2_consumer_1_svc
  <1>3. CASE program = "pc_last"
    BY <1>3, ProgramIs DEF pc_last, consumer
  <1> QED
    BY <1>1, <1>2, <1>3 DEF PcServers, Pc2Servers

\* A letter is put in a cell that no letter is in.
LEMMA PutKeeps ==
    ASSUME PcTypeOK, Flat("put", 1), prod_ptr < SIZE, program' = program,
           buffer' = [buffer EXCEPT ![prod_ptr] = alpha], puts' = Append(puts, alpha),
           UNCHANGED <<sem, prod_ptr, cons_ptr, takes>>
    PROVE  Flat("advance_prod", 1)'
  <1>1. /\ buffer \in [0 .. SIZE - 1 -> Letters \cup {NoLetter}] /\ prod_ptr \in 0 .. SIZE
        /\ puts \in Seq(Letters) /\ takes \in Seq(Letters \cup {NoLetter}) /\ sem \in [0 .. 2 -> Nat]
        /\ SIZE \in Nat \ {0} /\ alpha \in Letters
    BY RpcProgramsAssumption DEF PcTypeOK
  <1> DEFINE p == Len(puts)
             k == Len(takes)
  <1>2. p \in Nat /\ k \in Nat /\ puts' \in Seq(Letters) /\ Len(puts') = p + 1 /\ Len(takes') = k
        /\ puts'[p + 1] = alpha /\ \A n \in 1 .. p : puts'[n] = puts[n]
    BY <1>1
  <1> HIDE DEF p, k
  <1>3. /\ sem[Full] = p - k /\ sem[EmptyCells] = SIZE - (p - k) - 1 /\ p - k >= 0
        /\ prod_ptr = CellOf(p) /\ cons_ptr = CellOf(k)
        /\ \A n \in 1 .. k : takes[n] = puts[n]
        /\ \A n \in k + 1 .. p : buffer[CellOf(n - 1)] = puts[n]
    BY DEF Flat, Stored, p, k
  <1>4. sem[EmptyCells] \in Nat
    <2>1. EmptyCells \in 0 .. 2
      BY DEF EmptyCells, Full
    <2> QED
      BY <1>1, <2>1
  <1>5. p - k < SIZE
    BY <1>1, <1>2, <1>3, <1>4
  <1>6. Full' = Full /\ EmptyCells' = EmptyCells /\ \A n : CellOf(n)' = CellOf(n)
    BY SameTables
  <1>7. ASSUME NEW n \in k + 1 .. p + 1 PROVE buffer'[CellOf(n - 1)] = puts'[n]
    <2>1. n - 1 \in Nat /\ n - 1 <= p
      BY <1>2, <1>7
    <2>2. CellOf(n - 1) \in 0 .. SIZE - 1
      <3>1. CellOf(n - 1) \in Nat /\ CellOf(n - 1) < SIZE
        BY <1>2, <1>3, <2>1, CellsAre
      <3> QED
        BY <1>1, <3>1
    <2>3. CASE n = p + 1
      <3>1. n - 1 = p
        BY <1>2, <2>3
      <3>2. buffer'[CellOf(n - 1)] = alpha
        BY <1>1, <1>3, <2>2, <3>1
      <3> QED
        BY <1>2, <2>3, <3>2
    <2>4. CASE n # p + 1
      <3>1. n \in k + 1 .. p /\ n \in 1 .. p /\ n - 1 < p /\ p - (n - 1) < SIZE
        BY <1>1, <1>2, <1>5, <1>7, <2>4
      <3>2. CellOf(n - 1) # CellOf(p)
        BY <1>2, <2>1, <3>1, CellsAre
      <3>3. buffer'[CellOf(n - 1)] = buffer[CellOf(n - 1)]
        BY <1>1, <1>3, <2>2, <3>2
      <3> QED
        BY <1>2, <1>3, <3>1, <3>3
    <2> QED
      BY <2>3, <2>4
  <1>8. ASSUME NEW n \in 1 .. k PROVE takes'[n] = puts'[n]
    <2>1. n \in 1 .. p
      BY <1>2, <1>3
    <2> QED
      BY <1>2, <1>3, <2>1
  <1>9. Stored' = p + 1 - k
    BY <1>2 DEF Stored
  <1>10. Len(puts') - 1 = p /\ Stored' >= 0 /\ Stored' - 1 = p - k /\ SIZE - Stored' = SIZE - (p - k) - 1
    BY <1>1, <1>2, <1>3, <1>9
  <1>11. sem'[Full'] = Stored' - 1 /\ sem'[EmptyCells'] = SIZE - Stored'
    BY <1>3, <1>6, <1>10
  <1>12. prod_ptr' = Cell(prog'.wraps, Len(puts') - 1) /\ cons_ptr' = Cell(prog'.wraps, Len(takes'))
    BY <1>2, <1>3, <1>10, SameProgram DEF CellOf
  <1>13. \A n \in Len(takes') + 1 .. Len(puts') : buffer'[CellOf(n - 1)'] = puts'[n]
    BY <1>2, <1>6, <1>7
  <1>14. \A n \in 1 .. Len(takes') : takes'[n] = puts'[n]
    BY <1>2, <1>8
  <1> QED
    BY <1>10, <1>11, <1>12, <1>13, <1>14 DEF Flat, CellOf

\* A letter is taken from the cell that it is in.
LEMMA TakeKeeps ==
    ASSUME PcTypeOK, Flat("take", 2), cons_ptr < SIZE, program' = program, program \in PcServers,
           takes' = Append(takes, buffer[cons_ptr]),
           buffer' = IF prog.clears THEN [buffer EXCEPT ![cons_ptr] = NoLetter] ELSE buffer,
           UNCHANGED <<sem, prod_ptr, cons_ptr, puts>>
    PROVE  Flat("advance_cons", 2)'
  <1>1. /\ buffer \in [0 .. SIZE - 1 -> Letters \cup {NoLetter}] /\ cons_ptr \in 0 .. SIZE
        /\ puts \in Seq(Letters) /\ takes \in Seq(Letters \cup {NoLetter}) /\ sem \in [0 .. 2 -> Nat]
        /\ SIZE \in Nat \ {0}
    BY RpcProgramsAssumption DEF PcTypeOK
  <1> DEFINE p == Len(puts)
             k == Len(takes)
             x == buffer[cons_ptr]
  <1>2. x \in Letters \cup {NoLetter}
    BY <1>1
  <1>3. /\ p \in Nat /\ k \in Nat /\ takes' \in Seq(Letters \cup {NoLetter}) /\ Len(takes') = k + 1
        /\ Len(puts') = p /\ takes'[k + 1] = x /\ \A n \in 1 .. k : takes'[n] = takes[n]
    BY <1>1, <1>2
  <1> HIDE DEF p, k, x
  <1>4. /\ sem[Full] = p - k - 1 /\ sem[EmptyCells] = SIZE - (p - k) /\ p - k >= 0
        /\ prod_ptr = CellOf(p) /\ cons_ptr = CellOf(k)
        /\ \A n \in 1 .. k : takes[n] = puts[n]
        /\ \A n \in k + 1 .. p : buffer[CellOf(n - 1)] = puts[n]
    BY DEF Flat, Stored, p, k
  <1>5. sem[Full] \in Nat /\ sem[EmptyCells] \in Nat
    <2>1. Full \in 0 .. 2 /\ EmptyCells \in 0 .. 2
      BY DEF EmptyCells, Full
    <2> QED
      BY <1>1, <2>1
  <1>6. p - k >= 1 /\ p - k <= SIZE
    BY <1>1, <1>3, <1>4, <1>5
  <1>7. Full' = Full /\ EmptyCells' = EmptyCells /\ \A n : CellOf(n)' = CellOf(n)
    BY SameTables
  <1>8. ASSUME NEW n \in k + 1 + 1 .. p PROVE buffer'[CellOf(n - 1)] = puts'[n]
    <2>1. n - 1 \in Nat /\ k < n - 1 /\ n - 1 - k < SIZE /\ n \in k + 1 .. p
      BY <1>1, <1>3, <1>6, <1>8
    <2>2. buffer[CellOf(n - 1)] = puts[n]
      BY <1>4, <2>1
    <2>3. CASE prog.clears
      <3>1. prog.wraps
        BY <2>3, ClearsWraps
      <3>2. CellOf(n - 1) \in Nat /\ CellOf(n - 1) < SIZE /\ CellOf(k) # CellOf(n - 1)
        BY <1>3, <2>1, <3>1, CellsAre
      <3>3. CellOf(n - 1) \in 0 .. SIZE - 1
        BY <1>1, <3>2
      <3>4. buffer' = [buffer EXCEPT ![cons_ptr] = NoLetter]
        BY <2>3
      <3>5. buffer'[CellOf(n - 1)] = buffer[CellOf(n - 1)]
        BY <1>1, <1>4, <3>2, <3>3, <3>4
      <3> QED
        BY <2>2, <3>5
    <2>4. CASE ~prog.clears
      BY <2>2, <2>4
    <2> QED
      BY <2>3, <2>4
  <1>9. ASSUME NEW n \in 1 .. k + 1 PROVE takes'[n] = puts'[n]
    <2>1. CASE n = k + 1
      <3>1. n \in k + 1 .. p /\ n - 1 = k
        BY <1>3, <1>6, <2>1
      <3>2. buffer[CellOf(n - 1)] = puts[n]
        BY <1>4, <3>1
      <3> QED
        BY <1>3, <1>4, <2>1, <3>1, <3>2 DEF x
    <2>2. CASE n # k + 1
      <3>1. n \in 1 .. k
        BY <1>3, <2>2
      <3> QED
        BY <1>3, <1>4, <3>1
    <2> QED
      BY <2>1, <2>2
  <1>10. Stored' = p - (k + 1)
    BY <1>3 DEF Stored
  <1>11. Len(takes') - 1 = k /\ Len(takes') > 0 /\ Stored' >= 0 /\ Stored' = p - k - 1 /\ SIZE - Stored' - 1 = SIZE - (p - k)
    BY <1>1, <1>3, <1>6, <1>10
  <1>12. sem'[Full'] = Stored' /\ sem'[EmptyCells'] = SIZE - Stored' - 1
    BY <1>4, <1>7, <1>11
  <1>13. prod_ptr' = Cell(prog'.wraps, Len(puts')) /\ cons_ptr' = Cell(prog'.wraps, Len(takes') - 1)
    BY <1>3, <1>4, <1>11, SameProgram DEF CellOf
  <1>14. \A n \in Len(takes') + 1 .. Len(puts') : buffer'[CellOf(n - 1)'] = puts'[n]
    BY <1>3, <1>7, <1>8
  <1>15. \A n \in 1 .. Len(takes') : takes'[n] = puts'[n]
    BY <1>3, <1>9
  <1> QED
    BY <1>11, <1>12, <1>13, <1>14, <1>15 DEF Flat, CellOf

\* A pointer goes on to the next cell.
LEMMA AdvanceProdKeeps ==
    ASSUME PcTypeOK, Flat("advance_prod", 1), program' = program,
           prod_ptr' = IF prog.wraps /\ prod_ptr + 1 = SIZE THEN 0 ELSE prod_ptr + 1,
           UNCHANGED <<sem, buffer, cons_ptr, puts, takes>>
    PROVE  Flat("stop", 1)'
  <1> DEFINE p == Len(puts)
             k == Len(takes)
  <1>1. p \in Nat /\ k \in Nat /\ Full \in 0 .. 2 /\ sem[Full] \in Nat /\ Stored = p - k
    BY DEF PcTypeOK, Full, Stored
  <1>2. /\ sem[Full] = Stored - 1 /\ sem[EmptyCells] = SIZE - Stored /\ Stored >= 0
        /\ prod_ptr = CellOf(p - 1) /\ cons_ptr = CellOf(k)
        /\ \A n \in 1 .. Len(takes) : takes[n] = puts[n]
        /\ \A n \in Len(takes) + 1 .. Len(puts) : buffer[CellOf(n - 1)] = puts[n]
    BY DEF Flat
  <1> HIDE DEF p, k
  <1>3. p - 1 \in Nat /\ p - 1 + 1 = p
    BY <1>1, <1>2
  <1>4. prod_ptr' = CellOf(p)
    BY <1>2, <1>3, CellsAre
  <1>5. Full' = Full /\ EmptyCells' = EmptyCells /\ Stored' = Stored /\ \A n : CellOf(n)' = CellOf(n)
    BY SameTables DEF Stored
  <1>6. prod_ptr' = Cell(prog'.wraps, Len(puts')) /\ cons_ptr' = Cell(prog'.wraps, Len(takes'))
    BY <1>2, <1>4, SameProgram DEF CellOf, p, k
  <1>7. \A n \in Len(takes') + 1 .. Len(puts') : buffer'[CellOf(n - 1)'] = puts'[n]
    BY <1>2, <1>5
  <1> QED
    BY <1>2, <1>5, <1>6, <1>7 DEF Flat, CellOf

LEMMA AdvanceConsKeeps ==
    ASSUME PcTypeOK, Flat("advance_cons", 2), program' = program,
           cons_ptr' = IF prog.wraps /\ cons_ptr + 1 = SIZE THEN 0 ELSE cons_ptr + 1,
           UNCHANGED <<sem, buffer, prod_ptr, puts, takes>>
    PROVE  Flat("stop", 2)'
  <1> DEFINE p == Len(puts)
             k == Len(takes)
  <1>1. p \in Nat /\ k \in Nat /\ k > 0
    BY DEF PcTypeOK, Flat
  <1>2. /\ sem[Full] = Stored /\ sem[EmptyCells] = SIZE - Stored - 1 /\ Stored >= 0
        /\ prod_ptr = CellOf(p) /\ cons_ptr = CellOf(k - 1)
        /\ \A n \in 1 .. Len(takes) : takes[n] = puts[n]
        /\ \A n \in Len(takes) + 1 .. Len(puts) : buffer[CellOf(n - 1)] = puts[n]
    BY DEF Flat
  <1> HIDE DEF p, k
  <1>3. k - 1 \in Nat /\ k - 1 + 1 = k
    BY <1>1
  <1>4. cons_ptr' = CellOf(k)
    BY <1>2, <1>3, CellsAre
  <1>5. Full' = Full /\ EmptyCells' = EmptyCells /\ Stored' = Stored /\ \A n : CellOf(n)' = CellOf(n)
    BY SameTables DEF Stored
  <1>6. prod_ptr' = Cell(prog'.wraps, Len(puts')) /\ cons_ptr' = Cell(prog'.wraps, Len(takes'))
    BY <1>2, <1>4, SameProgram DEF CellOf, p, k
  <1>7. \A n \in Len(takes') + 1 .. Len(puts') : buffer'[CellOf(n - 1)'] = puts'[n]
    BY <1>2, <1>5
  <1> QED
    BY <1>2, <1>5, <1>6, <1>7 DEF Flat, CellOf

\* Only the semaphores change.
LEMMA SemsChange ==
    ASSUME PcTypeOK, NEW p, NEW q, NEW o, Flat(p, o), program' = program,
           p \notin {"advance_prod", "advance_cons"}, q \notin {"advance_prod", "advance_cons"},
           q = "put" => o = 1, q = "take" => o = 2,
           sem'[Full] = IF (q = "stop" /\ o = 1) \/ q = "take" THEN Stored - 1 ELSE Stored,
           sem'[EmptyCells] = IF q = "put" \/ (q = "stop" /\ o = 2) THEN SIZE - Stored - 1 ELSE SIZE - Stored,
           UNCHANGED <<buffer, prod_ptr, cons_ptr, puts, takes>>
    PROVE  Flat(q, o)'
  <1>1. Full' = Full /\ EmptyCells' = EmptyCells /\ Stored' = Stored /\ \A n : CellOf(n)' = CellOf(n)
    BY SameTables DEF Stored
  <1>2. prod_ptr = CellOf(Len(puts)) /\ cons_ptr = CellOf(Len(takes))
    BY DEF Flat
  <1>3. prod_ptr' = Cell(prog'.wraps, Len(puts')) /\ cons_ptr' = Cell(prog'.wraps, Len(takes'))
    BY <1>2, SameProgram DEF CellOf
  <1>4. /\ Stored' >= 0 /\ \A n \in 1 .. Len(takes') : takes'[n] = puts'[n]
        /\ \A n \in Len(takes') + 1 .. Len(puts') : buffer'[CellOf(n - 1)'] = puts'[n]
    BY <1>1 DEF Flat
  <1>5. /\ sem'[Full'] = IF (q = "stop" /\ o = 1) \/ q = "take" THEN Stored' - 1 ELSE Stored'
        /\ sem'[EmptyCells'] = IF q = "put" \/ (q = "stop" /\ o = 2) THEN SIZE - Stored' - 1 ELSE SIZE - Stored'
    BY <1>1
  <1> QED
    BY <1>3, <1>4, <1>5 DEF Flat, CellOf

LEMMA LettersMove ==
    ASSUME PcInv, LettersInv, NEW t \in DOMAIN thr, PcStep(t)
    PROVE  LettersInv'
  <1>1. program \in AllPrograms /\ ThreadsInv /\ PcTypeOK
    BY ProgramIs DEF PcInv, BaseInv
  <1>2. /\ Others(t) /\ program \in PcServers /\ thr[t].ops \in {1, 2} /\ UNCHANGED program
    BY <1>1, PcPlaces, PcWorks DEF Works, served
  <1> SUFFICES ASSUME ~mixed' PROVE LettersOK'
    BY DEF LettersInv
  <1>3. ~mixed /\ LettersOK
    <2>1. mixed' = mixed \/ mixed' = (mixed \/ thr[t].todo[2] # <<"put", "take">>[thr[t].ops])
      BY DEF PcStep, Start, Stop, Put, AdvanceProd, Take, AdvanceCons, ServiceOf, pcvars
    <2>2. ~mixed
      BY <2>1
    <2> QED
      BY <1>2, <2>2 DEF LettersInv
  <1> PICK p, q, o : p = Place(thr[t]) /\ q = Place(thr'[t]) /\ o = thr[t].ops
    OBVIOUS
  <1>4. CASE ServiceOf(t) /\ p = "service" /\ q \in {"start", "end"}
    <2>1. \A s \in Serving : Kept({s})
      BY <1>2, <1>4, KeptByMove DEF Serving
    <2>2. UNCHANGED pcvars
      BY <1>4 DEF ServiceOf
    <2>3. LettersInv'
      BY <1>2, <2>1, <2>2, LettersKept
    <2>4. program' \in PcServers
      BY <1>2
    <2> QED
      BY <2>3, <2>4 DEF LettersInv
  <1>5. ASSUME thr'[t].ops = o, Threads(Serving) \subseteq {t}, Flat(p, o) => Flat(q, o)' PROVE LettersOK'
    <2>1. Flat(p, o)
      BY <1>2, <1>3, <1>5, FlatSteps
    <2>2. Place(thr'[t]) = q /\ thr'[t].ops = o /\ Flat(q, o)'
      BY <1>5, <2>1
    <2> QED
      BY <1>2, <1>5, <2>2, FlatSteps
  <1>6. ASSUME p \in Serving PROVE Threads(Serving) \subseteq {t}
    <2>1. t \in Threads(Serving)
      BY <1>6, ThreadsAre
    <2> QED
      BY <1>2, <2>1 DEF PcInv, ServingInv
  <1>7. /\ sem \in [0 .. 2 -> Nat] /\ Full \in 0 .. 2 /\ EmptyCells \in 0 .. 2
    BY <1>1 DEF PcTypeOK, Full, EmptyCells
  <1>8. CASE Start(t) /\ p = "start" /\ q \in {"put", "take"} /\ q = thr[t].todo[2] /\ thr'[t].ops = o
    <2>1. /\ Semops(t, prog.sembufs[o].start) /\ mixed' = (mixed \/ thr[t].todo[2] # <<"put", "take">>[o])
          /\ UNCHANGED <<buffer, prod_ptr, cons_ptr, alpha, puts, takes>>
      BY <1>8 DEF Start
    <2>2. /\ sem' \in [0 .. 2 -> Nat] /\ sem[0] > 0 /\ sem'[Waits(o)] = sem[Waits(o)] - 1
          /\ sem'[Raises(o)] = sem[Raises(o)]
      BY <1>2, <1>7, <2>1, StartSems
    <2>3. Threads(Serving) = {}
      BY <1>2, <2>2 DEF PcInv, ServingInv
    <2>4. q = <<"put", "take">>[o]
      BY <1>8, <2>1
    <2>5. (o = 1 => q = "put") /\ (o = 2 => q = "take")
      BY <2>4
    <2>6. ASSUME Flat(p, o) PROVE Flat(q, o)'
      <3>1. sem[Full] = Stored /\ sem[EmptyCells] = SIZE - Stored
        BY <1>8, <2>6 DEF Flat
      <3>2. /\ o = 1 => sem'[EmptyCells] = sem[EmptyCells] - 1 /\ sem'[Full] = sem[Full]
            /\ o = 2 => sem'[Full] = sem[Full] - 1 /\ sem'[EmptyCells] = sem[EmptyCells]
        BY <2>2 DEF Waits, Raises
      <3>3. Flat(p, o) /\ p = "start" /\ q \in {"put", "take"} /\ o \in {1, 2}
            /\ (o = 1 => q = "put") /\ (o = 2 => q = "take")
        BY <1>2, <1>8, <2>5, <2>6
      <3>4. /\ sem'[Full] = IF (q = "stop" /\ o = 1) \/ q = "take" THEN Stored - 1 ELSE Stored
            /\ sem'[EmptyCells] = IF q = "put" \/ (q = "stop" /\ o = 2) THEN SIZE - Stored - 1 ELSE SIZE - Stored
        BY <3>1, <3>2, <3>3
      <3>5. Flat(q, o)'
        BY <1>1, <1>2, <2>1, <3>3, <3>4, SemsChange
      <3> QED
        BY <3>5
    <2> QED
      BY <1>5, <1>8, <2>3, <2>6
  <1>9. CASE Put(t) /\ p = "put" /\ q = "advance_prod" /\ thr'[t].ops = o
    <2>1. /\ prod_ptr < SIZE /\ buffer' = [buffer EXCEPT ![prod_ptr] = alpha] /\ puts' = Append(puts, alpha)
          /\ UNCHANGED <<sem, prod_ptr, cons_ptr, takes>>
      BY <1>9 DEF Put
    <2>2. ASSUME Flat(p, o) PROVE Flat(q, o)'
      <3>1. o = 1 /\ Flat("put", 1)
        BY <1>9, <2>2 DEF Flat
      <3>2. Flat("advance_prod", 1)'
        BY <1>1, <1>2, <2>1, <3>1, PutKeeps
      <3> QED
        BY <1>9, <3>1, <3>2
    <2>3. Threads(Serving) \subseteq {t}
      BY <1>6, <1>9 DEF Serving
    <2> QED
      BY <1>5, <1>9, <2>2, <2>3
  <1>10. CASE AdvanceProd(t) /\ p = "advance_prod" /\ q = "stop" /\ thr'[t].ops = o
    <2>1. /\ prod_ptr' = IF prog.wraps /\ prod_ptr + 1 = SIZE THEN 0 ELSE prod_ptr + 1
          /\ UNCHANGED <<sem, buffer, cons_ptr, puts, takes>>
      BY <1>10 DEF AdvanceProd
    <2>2. ASSUME Flat(p, o) PROVE Flat(q, o)'
      <3>1. o = 1 /\ Flat("advance_prod", 1)
        BY <1>10, <2>2 DEF Flat
      <3>2. Flat("stop", 1)'
        BY <1>1, <1>2, <2>1, <3>1, AdvanceProdKeeps
      <3> QED
        BY <1>10, <3>1, <3>2
    <2>3. Threads(Serving) \subseteq {t}
      BY <1>6, <1>10 DEF Serving
    <2> QED
      BY <1>5, <1>10, <2>2, <2>3
  <1>11. CASE Take(t) /\ p = "take" /\ q = "advance_cons" /\ thr'[t].ops = o
    <2>1. /\ cons_ptr < SIZE /\ takes' = Append(takes, buffer[cons_ptr])
          /\ buffer' = IF prog.clears THEN [buffer EXCEPT ![cons_ptr] = NoLetter] ELSE buffer
          /\ UNCHANGED <<sem, prod_ptr, cons_ptr, puts>>
      BY <1>11 DEF Take
    <2>2. ASSUME Flat(p, o) PROVE Flat(q, o)'
      <3>1. o = 2 /\ Flat("take", 2)
        BY <1>11, <2>2 DEF Flat
      <3>2. Flat("advance_cons", 2)'
        BY <1>1, <1>2, <2>1, <3>1, TakeKeeps
      <3> QED
        BY <1>11, <3>1, <3>2
    <2>3. Threads(Serving) \subseteq {t}
      BY <1>6, <1>11 DEF Serving
    <2> QED
      BY <1>5, <1>11, <2>2, <2>3
  <1>12. CASE AdvanceCons(t) /\ p = "advance_cons" /\ q = "stop" /\ thr'[t].ops = o
    <2>1. /\ cons_ptr' = IF prog.wraps /\ cons_ptr + 1 = SIZE THEN 0 ELSE cons_ptr + 1
          /\ UNCHANGED <<sem, buffer, prod_ptr, puts, takes>>
      BY <1>12 DEF AdvanceCons
    <2>2. ASSUME Flat(p, o) PROVE Flat(q, o)'
      <3>1. o = 2 /\ Flat("advance_cons", 2)
        BY <1>12, <2>2 DEF Flat
      <3>2. Flat("stop", 2)'
        BY <1>1, <1>2, <2>1, <3>1, AdvanceConsKeeps
      <3> QED
        BY <1>12, <3>1, <3>2
    <2>3. Threads(Serving) \subseteq {t}
      BY <1>6, <1>12 DEF Serving
    <2> QED
      BY <1>5, <1>12, <2>2, <2>3
  <1>13. CASE Stop(t) /\ p = "stop" /\ q = "reply" /\ thr'[t].ops = o
    <2>1. /\ Semops(t, prog.sembufs[o].stop)
          /\ UNCHANGED <<buffer, prod_ptr, cons_ptr, alpha, puts, takes>>
      BY <1>13 DEF Stop
    <2>2. sem'[Waits(o)] = sem[Waits(o)] /\ sem'[Raises(o)] = sem[Raises(o)] + 1
      BY <1>2, <1>7, <2>1, StopSems
    <2>3. ASSUME Flat(p, o) PROVE Flat(q, o)'
      <3>1. /\ sem[Full] = IF o = 1 THEN Stored - 1 ELSE Stored
            /\ sem[EmptyCells] = IF o = 2 THEN SIZE - Stored - 1 ELSE SIZE - Stored
        BY <1>13, <2>3 DEF Flat
      <3>2. /\ o = 1 => sem'[Full] = sem[Full] + 1 /\ sem'[EmptyCells] = sem[EmptyCells]
            /\ o = 2 => sem'[EmptyCells] = sem[EmptyCells] + 1 /\ sem'[Full] = sem[Full]
        BY <2>2 DEF Waits, Raises
      <3>3. Flat(p, o) /\ p = "stop" /\ q = "reply" /\ o \in {1, 2}
        BY <1>2, <1>13, <2>3
      <3>4. Stored \in Int /\ SIZE \in Int
        BY <1>1, RpcProgramsAssumption DEF PcTypeOK, Stored
      <3>5. /\ sem'[Full] = IF (q = "stop" /\ o = 1) \/ q = "take" THEN Stored - 1 ELSE Stored
            /\ sem'[EmptyCells] = IF q = "put" \/ (q = "stop" /\ o = 2) THEN SIZE - Stored - 1 ELSE SIZE - Stored
        BY <3>1, <3>2, <3>3, <3>4
      <3>6. Flat(q, o)'
        BY <1>1, <1>2, <2>1, <3>3, <3>5, SemsChange
      <3> QED
        BY <3>6
    <2>4. Threads(Serving) \subseteq {t}
      BY <1>6, <1>13 DEF Serving
    <2> QED
      BY <1>5, <1>13, <2>3, <2>4
  <1> QED
    BY <1>1, <1>4, <1>8, <1>9, <1>10, <1>11, <1>12, <1>13, PcPlaces

LEMMA PrefixIs ==
    ASSUME NEW S, NEW T, NEW s \in Seq(S), NEW r \in Seq(T), Len(s) <= Len(r),
           \A n \in 1 .. Len(s) : s[n] = r[n]
    PROVE  IsPrefix(s, r)
  <1>1. Len(s) \in Nat /\ Len(r) \in Nat
    OBVIOUS
  <1>2. SubSeq(s, 1, Len(s)) = [n \in 1 .. Len(s) |-> s[n]]
    BY <1>1
  <1>3. SubSeq(r, 1, Len(s)) = [n \in 1 .. Len(s) |-> r[n]]
    BY <1>1
  <1> QED
    BY <1>2, <1>3 DEF IsPrefix

LEMMA PutsType ==
    ASSUME PcTypeOK PROVE Len(puts) \in Nat /\ Len(takes) \in Nat /\ Stored \in Int
  <1>1. puts \in Seq(Letters) /\ takes \in Seq(Letters \cup {NoLetter})
    BY DEF PcTypeOK
  <1>2. Len(puts) \in Nat /\ Len(takes) \in Nat
    BY <1>1
  <1> QED
    BY <1>2 DEF Stored

\* A server of another kind has no letters.
NoLetters == program \notin PcServers => puts = <<>> /\ takes = <<>>

LEMMA LettersStep == ASSUME PcInv, LettersInv, NoLetters, Next PROVE LettersInv' /\ NoLetters'
  <1>1. program' = program
    BY CallsStep DEF PcInv
  <1>2. program \in AllPrograms /\ ThreadsInv /\ nwords \in Int /\ BaseInv
    BY ProgramIs DEF PcInv, BaseInv
  <1>3. \A s \in Serving : {s} \subseteq Own
    BY DEF Own
  <1>4. ASSUME UNCHANGED pcvars PROVE NoLetters'
    BY <1>1, <1>4 DEF NoLetters, pcvars
  <1>5. ASSUME UNCHANGED services,
               \/ \E c \in Clients : Call(c) \/ Timeout(c)
               \/ \E d \in net : Receive(d)
               \/ \E t \in DOMAIN thr : AtThread(t) \/ AtEnd(t)
        PROVE  LettersInv' /\ NoLetters'
    <2>1. \A s \in Serving : Kept({s})
      BY <1>2, <1>3, <1>5, KeptByServer
    <2>2. UNCHANGED pcvars
      BY <1>5 DEF services
    <2> QED
      BY <1>1, <1>4, <2>1, <2>2, LettersKept
  <1>6. ASSUME program \notin PcServers PROVE LettersInv'
    BY <1>1, <1>6 DEF LettersInv
  <1>7. PcServers \cap DictServers = {} /\ PcServers \cap {"obakery", "obakery_old", "calc"} = {}
    BY DEF PcServers, DictServers
  <1>8. ASSUME NEW t \in DOMAIN thr, DictStep(t) \/ BakeryStep(t), UNCHANGED pcvars
        PROVE  LettersInv' /\ NoLetters'
    BY <1>2, <1>4, <1>6, <1>7, <1>8, DictWorks, BakeryWorks
  <1>9. ASSUME NEW t \in DOMAIN thr, PcStep(t) PROVE LettersInv' /\ NoLetters'
    <2>1. program \in PcServers
      BY <1>2, <1>9, PcPlaces
    <2>2. NoLetters'
      BY <1>1, <2>1 DEF NoLetters
    <2> QED
      BY <1>9, <2>2, LettersMove
  <1> QED
    BY <1>5, <1>8, <1>9, Kinds

LEMMA LettersInit == ASSUME Init PROVE LettersInv /\ NoLetters
  <1>1. program \in AllPrograms /\ SIZE \in Nat \ {0}
    BY ProgramIs, RpcProgramsAssumption DEF Init, SunRpcInit
  <1>2. /\ sem = prog.main.sems /\ prod_ptr = 0 /\ cons_ptr = 0 /\ puts = <<>> /\ takes = <<>> /\ thr = <<>>
    BY DEF Init, PcInit, SunRpcInit
  <1>3. \A S : Threads(S) = {}
    BY <1>2 DEF Threads
  <1>4. \A s, k : ~AtWith(s, k)
    BY <1>3 DEF AtWith
  <1>5. Len(puts) = 0 /\ Len(takes) = 0 /\ Stored = 0
    BY <1>2 DEF Stored
  <1>6. 0 % SIZE = 0
    BY <1>1
  <1>7. CellOf(0) = 0
    BY <1>6 DEF CellOf, Cell
  <1>8. ASSUME program \in PcServers PROVE LettersOK
    <2>1. sem[Full] = 0 /\ sem[EmptyCells] = SIZE
      BY <1>1, <1>2, <1>8, SemsAre
    <2>2. /\ Threads({"put"}) # {} => AtWith("put", 1)
          /\ Threads({"advance_prod"}) # {} => AtWith("advance_prod", 1)
          /\ Threads({"take"}) # {} => AtWith("take", 2)
          /\ Threads({"advance_cons"}) # {} => AtWith("advance_cons", 2) /\ Len(takes) > 0
      BY <1>3
    <2>3. sem[Full] = Stored /\ sem[EmptyCells] = SIZE - Stored
      BY <1>1, <1>5, <2>1
    <2>4. prod_ptr = CellOf(Len(puts)) /\ cons_ptr = CellOf(Len(takes))
      BY <1>2, <1>5, <1>7
    <2>5. 1 .. Len(takes) = {} /\ Len(takes) + 1 .. Len(puts) = {}
      BY <1>5
    <2> QED
      BY <1>4, <1>5, <2>2, <2>3, <2>4, <2>5 DEF LettersOK
  <1> QED
    BY <1>2, <1>8 DEF LettersInv, NoLetters

LEMMA LettersInvariance == Spec => [](PcTypeOK /\ LettersInv /\ NoLetters)
  <1>1. Init => LettersInv /\ NoLetters
    BY LettersInit
  <1>2. NumbersIInv /\ PcTypeOK /\ ServingInv /\ LettersInv /\ NoLetters /\ [Next]_vars
           => LettersInv' /\ NoLetters'
    <2> SUFFICES ASSUME NumbersIInv, PcTypeOK, ServingInv, LettersInv, NoLetters, [Next]_vars
                 PROVE  LettersInv' /\ NoLetters'
      OBVIOUS
    <2>1. CASE Next
      BY <2>1, LettersStep DEF NumbersIInv, PcInv
    <2>2. CASE UNCHANGED vars
      <3>1. UNCHANGED pcvars /\ program' = program /\ thr' = thr
        BY <2>2 DEF vars, rpcvars, served
      <3>2. \A s \in Serving : Kept({s})
        BY <3>1, KeptIfSame
      <3>3. NoLetters'
        BY <3>1 DEF NoLetters, pcvars
      <3> QED
        BY <3>1, <3>2, <3>3, LettersKept
    <2> QED
      BY <2>1, <2>2
  <1> QED
    BY <1>1, <1>2, NumbersInvariance, PcInvariance, PTL DEF Spec

\* The letters are taken in the order in which they were put, for any number of
\* clients, calls, threads, letters and cells, as long as no service runs between
\* the other's semaphores (pc2/pc_svc.c 73, rpc_pc/pc_svc.c 79).
THEOREM InOrder == Spec => []LettersInOrder
  <1>1. ASSUME PcTypeOK, LettersInv, NoLetters PROVE LettersInOrder
    <2> SUFFICES ASSUME ~mixed PROVE IsPrefix(takes, puts)
      BY DEF LettersInOrder
    <2>1. puts \in Seq(Letters) /\ takes \in Seq(Letters \cup {NoLetter})
      BY <1>1 DEF PcTypeOK
    <2>2. Len(takes) <= Len(puts) /\ \A n \in 1 .. Len(takes) : takes[n] = puts[n]
      <3>1. CASE program \in PcServers
        <4>1. Stored >= 0 /\ \A n \in 1 .. Len(takes) : takes[n] = puts[n]
          BY <1>1, <3>1 DEF LettersInv, LettersOK
        <4> QED
          BY <1>1, <4>1, PutsType DEF Stored
      <3>2. CASE program \notin PcServers
        <4>1. puts = <<>> /\ takes = <<>>
          BY <1>1, <3>2 DEF NoLetters
        <4> QED
          BY <4>1
      <3> QED
        BY <3>1, <3>2
    <2> QED
      BY <2>1, <2>2, PrefixIs
  <1>2. PcTypeOK /\ LettersInv /\ NoLetters => LettersInOrder
    BY <1>1
  <1> QED
    BY <1>2, LettersInvariance, PTL

(***************************************************************************)
(* The dictionary.                                                         *)
(***************************************************************************)
InDict == {"load_inc", "store_inc", "load_dec", "store_dec", "move"}

LEMMA WithinIs == Within = Threads(InDict) /\ Within' = Threads(InDict)'
  <1>1. \A x : (x.todo # <<>> /\ Head(x.todo) \in InDict) <=> Place(x) \in InDict
    BY DEF Place, InDict
  <1>2. \A t : (\E s \in InDict : At(t, s)) <=> Place(thr[t]) \in InDict
    BY <1>1 DEF At
  <1>3. \A t : (\E s \in InDict : At(t, s)') <=> Place(thr'[t]) \in InDict
    BY <1>1 DEF At
  <1>4. Within = Threads(InDict)
    BY <1>2 DEF Within, Threads, InDict
  <1>5. Within' = {t \in DOMAIN thr' : Place(thr'[t]) \in InDict}
    BY <1>3 DEF Within, InDict
  <1>6. Threads(InDict)' = {t \in DOMAIN thr' : Place(thr'[t]) \in InDict}
    BY DEF Threads, Place, InDict
  <1> QED
    BY <1>4, <1>5, <1>6

LEMMA RunSame ==
    ASSUME UNCHANGED <<dict, nwords, before>>
    PROVE  \A x, y : SameRun(x, y) /\ RunOK(y) => RunOK(x)'
  <1> SUFFICES ASSUME NEW x, NEW y, SameRun(x, y), RunOK(y) PROVE RunOK(x)'
    OBVIOUS
  <1>1. \A n : BagOf(n)' = BagOf(n)
    BY DEF BagOf
  <1>2. x.todo = y.todo /\ x.arg = y.arg /\ x.reg = y.reg /\ x.i = y.i
    BY DEF SameRun
  <1>3. Place(x)' = Place(x) /\ Place(x) = Place(y)
    BY <1>2 DEF Place
  <1> QED
    BY <1>1, <1>2, <1>3 DEF RunOK

LEMMA DictKept ==
    ASSUME DictInv, program' = program, Kept(InDict), UNCHANGED dictvars
    PROVE  DictInv' /\ (Within' = {} <=> Within = {})
  <1>1. /\ \A u \in Within' : \E v \in Within : SameRun(thr'[u], thr[v])
        /\ \A v \in Within : \E u \in Within' : SameRun(thr'[u], thr[v])
        /\ (\A v, w \in Within : v = w) => \A v, w \in Within' : v = w
    BY WithinIs DEF Kept
  <1>2. ASSUME program \in DictServers, ~overlapped, NEW u \in Within' PROVE RunOK(thr[u])'
    <2>1. PICK v \in Within : SameRun(thr'[u], thr[v])
      BY <1>1
    <2>2. RunOK(thr[v])
      BY <1>2 DEF DictInv
    <2> PICK x : x = thr'[u]
      OBVIOUS
    <2>3. RunOK(x)'
      BY <2>1, <2>2, RunSame DEF dictvars
    <2> QED
      BY <2>3
  <1> QED
    BY <1>1, <1>2 DEF DictInv, dictvars

\* One more of a word.
LEMMA OneMore ==
    ASSUME NEW S, IsFiniteSet(S), NEW x, x \notin S
    PROVE  Cardinality(S \cup {x}) = Cardinality(S) + 1 /\ Cardinality(S) \in Nat
  BY FS_AddElement, FS_CardinalityType

LEMMA PlacesAre == IsFiniteSet(Places) /\ Places \subseteq Nat /\ \A S : S \subseteq Places => IsFiniteSet(S)
  <1>1. IsFiniteSet(Places) /\ Places \subseteq Nat
    BY DictRpcAssumption, FS_Interval DEF Places
  <1> QED
    BY <1>1, FS_Subset

LEMMA FoundIs ==
    ASSUME NEW w \in Words
    PROVE  Bag[w] = Cardinality(Found(w)) /\ Bag[w] \in Nat /\ (Bag[w] = 0 <=> Found(w) = {})
  <1>1. Found(w) \subseteq Places
    BY DEF Found
  <1>2. IsFiniteSet(Found(w))
    BY <1>1, PlacesAre
  <1>3. Bag[w] = Cardinality(Found(w))
    BY DEF Bag, Found
  <1> QED
    BY <1>2, <1>3, FS_CardinalityType, FS_EmptySet

\* What is written past the end is not counted.
LEMMA BagPast ==
    ASSUME DictTypeOK, NEW k \in Places, NEW v, dict' = [dict EXCEPT ![k] = v], NEW n \in Int, n <= k
    PROVE  BagOf(n)' = BagOf(n)
  <1>1. \A x \in Places : x < n => dict'[x] = dict[x]
    BY PlacesAre DEF DictTypeOK
  <1>2. \A w : {x \in Places : x < n /\ dict'[x] = w} = {x \in Places : x < n /\ dict[x] = w}
    BY <1>1
  <1> QED
    BY <1>2 DEF BagOf

LEMMA BagMore ==
    ASSUME DictTypeOK, NEW k \in Places, NEW w \in Words
    PROVE  BagOf(k + 1)[w] = (IF dict[k] = w THEN BagOf(k)[w] + 1 ELSE BagOf(k)[w]) /\ BagOf(k)[w] \in Nat
  <1> DEFINE S == {x \in Places : x < k /\ dict[x] = w}
             T == {x \in Places : x < k + 1 /\ dict[x] = w}
  <1>1. BagOf(k)[w] = Cardinality(S) /\ BagOf(k + 1)[w] = Cardinality(T)
    BY DEF BagOf
  <1>2. IsFiniteSet(S) /\ k \notin S
    BY PlacesAre
  <1>3. \A x \in Places : x < k + 1 <=> (x < k \/ x = k)
    BY PlacesAre
  <1>4. T = IF dict[k] = w THEN S \cup {k} ELSE S
    BY <1>3
  <1> HIDE DEF S, T
  <1> QED
    BY <1>1, <1>2, <1>4, OneMore

\* The last word is moved to the place of one that is deleted.
LEMMA BagMoved ==
    ASSUME DictTypeOK, NEW n \in Places, NEW i \in Places, i <= n,
           dict' = [dict EXCEPT ![i] = dict[n]], NEW w \in Words
    PROVE  BagOf(n + 1)[w] = (IF dict[i] = w THEN BagOf(n)'[w] + 1 ELSE BagOf(n)'[w]) /\ BagOf(n)'[w] \in Nat
  <1>1. CASE i = n
    <2>1. n \in Int /\ n <= i /\ dict' = [dict EXCEPT ![i] = dict[n]]
      BY <1>1, PlacesAre
    <2> PICK v : v = dict[n]
      OBVIOUS
    <2>2. dict' = [dict EXCEPT ![i] = v]
      BY <2>1
    <2>3. BagOf(n)' = BagOf(n)
      BY <2>1, <2>2, BagPast
    <2> QED
      BY <1>1, <2>3, BagMore
  <1>2. CASE i # n
    <2> DEFINE R == {x \in Places : x < n /\ x # i /\ dict[x] = w}
               S == {x \in Places : x < n /\ dict[x] = w}
               T == {x \in Places : x < n /\ dict'[x] = w}
    <2>1. i < n
      BY <1>2, PlacesAre
    <2>2. BagOf(n)[w] = Cardinality(S) /\ BagOf(n)'[w] = Cardinality(T)
      BY DEF BagOf
    <2>3. IsFiniteSet(R) /\ i \notin R
      BY PlacesAre
    <2>4. S = IF dict[i] = w THEN R \cup {i} ELSE R
      BY <2>1
    <2>5. \A x \in Places : dict'[x] = IF x = i THEN dict[n] ELSE dict[x]
      BY DEF DictTypeOK
    <2>6. T = IF dict[n] = w THEN R \cup {i} ELSE R
      BY <2>1, <2>5
    <2> HIDE DEF R, S, T
    <2>7. Cardinality(R \cup {i}) = Cardinality(R) + 1 /\ Cardinality(R) \in Nat
      BY <2>3, OneMore
    <2> QED
      BY <2>2, <2>4, <2>6, <2>7, BagMore
  <1> QED
    BY <1>1, <1>2

LEMMA DictPlaces ==
    ASSUME program \in AllPrograms, ThreadsInv, nwords \in Int, NEW t \in DOMAIN thr, DictStep(t)
    PROVE  /\ Others(t) /\ program \in DictServers /\ thr'[t].arg = thr[t].arg
           /\ \/ Initw(t) /\ Place(thr[t]) = "initw" /\ Place(thr'[t]) = "reply" /\ thr[t].arg = 0
              \/ /\ thr[t].arg \in Words
                 /\ \/ Strcpy(t) /\ Place(thr[t]) = "strcpy" /\ Place(thr'[t]) = "load_inc"
                    \/ /\ Load(t) /\ thr'[t].reg = nwords /\ thr'[t].i = thr[t].i
                       /\ \/ Place(thr[t]) = "load_inc" /\ Place(thr'[t]) = "store_inc"
                          \/ Place(thr[t]) = "load_dec" /\ Place(thr'[t]) = "store_dec"
                    \/ StoreInc(t) /\ Place(thr[t]) = "store_inc" /\ Place(thr'[t]) = "reply"
                    \/ /\ Scan(t) /\ Place(thr[t]) = "scan" /\ Place(thr'[t]) = "load_dec"
                       /\ thr'[t].i \in Found(thr[t].arg)
                    \/ NotFound(t) /\ Place(thr[t]) = "scan" /\ Place(thr'[t]) = "reply"
                    \/ /\ StoreDec(t) /\ Place(thr[t]) = "store_dec" /\ Place(thr'[t]) = "move"
                       /\ thr'[t].i = thr[t].i
                    \/ Move(t) /\ Place(thr[t]) = "move" /\ Place(thr'[t]) = "reply"
                    \/ Lookupw(t) /\ Place(thr[t]) = "lookupw" /\ Place(thr'[t]) = "reply"
  <1>1. Others(t) /\ program \in DictServers /\ thr'[t].arg = thr[t].arg
    BY DictWorks DEF Works
  <1>2. ASSUME NEW s, At(t, s), MovesOn(t), s \notin {"switch", "reply"}
        PROVE  Place(thr[t]) = s /\ Follows(Place(thr'[t]), s)
    <2>1. IsPlan(thr[t].todo) /\ thr[t].todo # <<>> /\ Head(thr[t].todo) = s /\ Place(thr[t]) = s
      BY <1>2, AtPlace
    <2> QED
      BY <1>2, <2>1, PlanTail DEF MovesOn, Place
  <1>3. ASSUME NEW s, At(t, s) PROVE ThreadOK(thr[t]) /\ Place(thr[t]) = s
    BY <1>3, AtPlace
  <1>4. \A s \in {"strcpy", "load_inc", "store_inc", "scan", "load_dec", "store_dec", "move", "lookupw"} :
           At(t, s) => thr[t].arg \in Words
    BY <1>3 DEF ThreadOK
  <1>5. {"initw", "insertw", "deletew", "lookupw"} \subseteq Outcomes
    BY DEF Outcomes
  <1>6. CASE Initw(t)
    <2>1. At(t, "initw") /\ MovesOn(t)
      BY <1>5, <1>6, DoesIt DEF Initw, Returns
    <2>2. thr[t].arg = 0
      BY <1>3, <2>1 DEF ThreadOK, NoArg
    <2> QED
      BY <1>1, <1>2, <1>6, <2>1, <2>2 DEF Follows
  <1>7. CASE Strcpy(t)
    <2>1. At(t, "strcpy") /\ MovesOn(t)
      BY <1>7, Passes DEF Strcpy
    <2> QED
      BY <1>1, <1>2, <1>4, <1>7, <2>1 DEF Follows
  <1>8. CASE Load(t)
    <2>1. MovesOn(t) /\ thr'[t].reg = nwords /\ thr'[t].i = thr[t].i
      BY <1>8, LoadIs
    <2>2. At(t, "load_inc") \/ At(t, "load_dec")
      BY <1>8 DEF Load
    <2>3. CASE At(t, "load_inc")
      BY <1>1, <1>2, <1>4, <1>8, <2>1, <2>3 DEF Follows
    <2>4. CASE At(t, "load_dec")
      BY <1>1, <1>2, <1>4, <1>8, <2>1, <2>4 DEF Follows
    <2> QED
      BY <2>2, <2>3, <2>4
  <1>9. CASE StoreInc(t)
    <2>1. At(t, "store_inc") /\ MovesOn(t)
      BY <1>5, <1>9, DoesIt DEF StoreInc, Returns
    <2> QED
      BY <1>1, <1>2, <1>4, <1>9, <2>1 DEF Follows
  <1>10. CASE Scan(t)
    <2>1. At(t, "scan") /\ MovesOn(t) /\ thr'[t].i \in Found(thr[t].arg)
      BY <1>10, ScanIs DEF Scan
    <2> QED
      BY <1>1, <1>2, <1>4, <1>10, <2>1 DEF Follows
  <1>11. CASE NotFound(t)
    <2>1. At(t, "scan") /\ thr'[t].todo = <<"reply">>
      BY <1>11, NotFoundIs DEF NotFound
    <2>2. <<"reply">> # <<>> /\ Head(<<"reply">>) = "reply"
      OBVIOUS
    <2>3. Place(thr'[t]) = "reply"
      BY <2>1, <2>2 DEF Place
    <2> QED
      BY <1>1, <1>3, <1>4, <1>11, <2>1, <2>3
  <1>12. CASE StoreDec(t)
    <2>1. At(t, "store_dec") /\ MovesOn(t) /\ thr'[t].i = thr[t].i
      BY <1>12, Passes DEF StoreDec
    <2> QED
      BY <1>1, <1>2, <1>4, <1>12, <2>1 DEF Follows
  <1>13. CASE Move(t)
    <2>1. At(t, "move") /\ MovesOn(t)
      BY <1>5, <1>13, DoesIt DEF Move, Returns
    <2> QED
      BY <1>1, <1>2, <1>4, <1>13, <2>1 DEF Follows
  <1>14. CASE Lookupw(t)
    <2>1. At(t, "lookupw") /\ MovesOn(t)
      BY <1>5, <1>14, DoesIt DEF Lookupw, Returns
    <2> QED
      BY <1>1, <1>2, <1>4, <1>14, <2>1 DEF Follows
  <1> QED
    BY <1>6, <1>7, <1>8, <1>9, <1>10, <1>11, <1>12, <1>13, <1>14 DEF DictStep

LEMMA OneWithin ==
    ASSUME NEW t \in DOMAIN thr, Others(t), Within \subseteq {t}
    PROVE  /\ Within = IF Place(thr[t]) \in InDict THEN {t} ELSE {}
           /\ Within' = IF Place(thr'[t]) \in InDict THEN {t} ELSE {}
  <1>1. \A u \in DOMAIN thr : u # t => thr'[u] = thr[u] /\ Place(thr[u]) \notin InDict
    BY WithinIs, ThreadsAre DEF Others
  <1>2. Within = IF Place(thr[t]) \in InDict THEN {t} ELSE {}
    BY <1>1, WithinIs, ThreadsAre
  <1>3. \A u \in DOMAIN thr' : u # t => Place(thr'[u]) \notin InDict
    BY <1>1 DEF Others
  <1>4. DOMAIN thr' = DOMAIN thr
    BY DEF Others
  <1>5. Within' = IF Place(thr'[t]) \in InDict THEN {t} ELSE {}
    BY <1>3, <1>4, WithinIs, ThreadsAre
  <1> QED
    BY <1>2, <1>5

\* The bag that the abstract dictionary holds, and its actions.
Held == IF overlapped \/ Within # {} THEN before ELSE Bag

LEMMA DictActs ==
    /\ Held' = Held /\ ret' = ret => UNCHANGED Dict!dvars
    /\ /\ Held' = [w \in Words |-> 0] /\ ret' = [call |-> "initw", word |-> 0, result |-> 1]
       => Dict!Next
    /\ \A w \in Words :
          /\ Held' = [Held EXCEPT ![w] = @ + 1] /\ ret' = [call |-> "insertw", word |-> w, result |-> 1]
          => Dict!Next
    /\ \A w \in Words :
          /\ Held[w] > 0 /\ Held' = [Held EXCEPT ![w] = @ - 1]
          /\ ret' = [call |-> "deletew", word |-> w, result |-> 1]
          => Dict!Next
    /\ \A w \in Words :
          /\ ~(Held[w] > 0) /\ Held' = Held /\ ret' = [call |-> "deletew", word |-> w, result |-> 0]
          => Dict!Next
    /\ \A w \in Words :
          /\ Held' = Held
          /\ ret' = [call |-> "lookupw", word |-> w, result |-> IF Held[w] > 0 THEN 1 ELSE 0]
          => Dict!Next
  <1>1. Held' = Held /\ ret' = ret => UNCHANGED Dict!dvars
    BY DEF Held, Dict!dvars
  <1>2. /\ Held' = [w \in Words |-> 0] /\ ret' = [call |-> "initw", word |-> 0, result |-> 1]
        => Dict!Next
    BY DEF Held, Dict!Next, Dict!Initw, Dict!Empty, Dict!Returns
  <1>3. ASSUME NEW w \in Words, Held' = [Held EXCEPT ![w] = @ + 1],
               ret' = [call |-> "insertw", word |-> w, result |-> 1]
        PROVE  Dict!Next
    BY <1>3 DEF Held, Dict!Next, Dict!Insertw, Dict!Returns
  <1>4. ASSUME NEW w \in Words, Held[w] > 0, Held' = [Held EXCEPT ![w] = @ - 1],
               ret' = [call |-> "deletew", word |-> w, result |-> 1]
        PROVE  Dict!Next
    BY <1>4 DEF Held, Dict!Next, Dict!Deletew, Dict!In, Dict!Returns
  <1>5. ASSUME NEW w \in Words, ~(Held[w] > 0), Held' = Held,
               ret' = [call |-> "deletew", word |-> w, result |-> 0]
        PROVE  Dict!Next
    BY <1>5 DEF Held, Dict!Next, Dict!Deletew, Dict!In, Dict!Returns
  <1>6. ASSUME NEW w \in Words, Held' = Held,
               ret' = [call |-> "lookupw", word |-> w, result |-> IF Held[w] > 0 THEN 1 ELSE 0]
        PROVE  Dict!Next
    BY <1>6 DEF Held, Dict!Next, Dict!Lookupw, Dict!In, Dict!Returns
  <1> QED
    BY <1>1, <1>2, <1>3, <1>4, <1>5, <1>6

\* A call that overlaps with another leaves the abstract dictionary alone.
LEMMA DictOverlaps ==
    ASSUME NEW t \in DOMAIN thr, DictStep(t), overlapped'
    PROVE  (overlapped \/ Within # {}) /\ before' = before /\ ret' = ret
  <1>1. CASE Initw(t)
    BY <1>1 DEF Initw, Begins, Returns
  <1>2. CASE Strcpy(t)
    BY <1>2 DEF Strcpy, Begins
  <1>3. CASE Load(t)
    BY <1>3 DEF Load, dictvars
  <1>4. CASE StoreInc(t)
    BY <1>4 DEF StoreInc, Returns
  <1>5. CASE Scan(t)
    BY <1>5 DEF Scan, Begins
  <1>6. CASE NotFound(t)
    BY <1>6 DEF NotFound, Begins
  <1>7. CASE StoreDec(t)
    BY <1>7 DEF StoreDec
  <1>8. CASE Move(t)
    BY <1>8 DEF Move, Returns
  <1>9. CASE Lookupw(t)
    BY <1>9 DEF Lookupw, Begins, Returns
  <1> QED
    BY <1>1, <1>2, <1>3, <1>4, <1>5, <1>6, <1>7, <1>8, <1>9 DEF DictStep

DictEffect == DictInv' /\ (Dict!Next \/ UNCHANGED Dict!dvars)

\* A call that overlaps with none: its first step, the next ones, and its last.
LEMMA DictSolo ==
    ASSUME DictTypeOK, DictInv, program \in DictServers, program' = program, ~overlapped, ~overlapped',
           NEW t \in DOMAIN thr, Others(t),
           Within = {} \/ Place(thr[t]) \in InDict
    PROVE  /\ Within = (IF Place(thr[t]) \in InDict THEN {t} ELSE {}) /\ nwords \in 0 .. DICTSIZ
           /\ Place(thr[t]) \in InDict => RunOK(thr[t]) /\ Held = before
           /\ Place(thr[t]) \notin InDict => Held = Bag
           /\ Place(thr'[t]) \notin InDict /\ nwords' \in 0 .. DICTSIZ => DictInv' /\ Held' = Bag'
           /\ \A y : thr'[t] = y /\ Place(y) \in InDict /\ nwords' \in 0 .. DICTSIZ /\ RunOK(y)'
                        => DictInv' /\ Held' = before'
  <1>1. Within \subseteq {t} /\ nwords \in 0 .. DICTSIZ /\ \A u \in Within : RunOK(thr[u])
    <2>1. (\A v, u \in Within : v = u) /\ nwords \in 0 .. DICTSIZ /\ \A u \in Within : RunOK(thr[u])
      BY DEF DictInv
    <2>2. Place(thr[t]) \in InDict => t \in Within
      BY WithinIs, ThreadsAre
    <2> QED
      BY <2>1, <2>2
  <1>2. /\ Within = IF Place(thr[t]) \in InDict THEN {t} ELSE {}
        /\ Within' = IF Place(thr'[t]) \in InDict THEN {t} ELSE {}
    BY <1>1, OneWithin
  <1>3. Place(thr[t]) \in InDict => RunOK(thr[t]) /\ Held = before
    BY <1>1, <1>2 DEF Held
  <1>4. Place(thr[t]) \notin InDict => Held = Bag
    BY <1>2 DEF Held
  <1>5. ASSUME Place(thr'[t]) \notin InDict, nwords' \in 0 .. DICTSIZ PROVE DictInv' /\ Held' = Bag'
    <2>1. Within' = {}
      BY <1>2, <1>5
    <2> QED
      BY <1>5, <2>1 DEF DictInv, Held
  <1>6. ASSUME NEW y, thr'[t] = y, Place(y) \in InDict, nwords' \in 0 .. DICTSIZ, RunOK(y)'
        PROVE  DictInv' /\ Held' = before'
    <2>1. Within' = {t}
      BY <1>2, <1>6
    <2>2. \A u \in Within' : RunOK(thr[u])'
      <3>1. RunOK(thr[t])'
        BY <1>6
      <3> QED
        BY <2>1, <3>1
    <2>3. Held' = before'
      BY <2>1 DEF Held
    <2>4. \A v, u \in Within' : v = u
      BY <2>1
    <2> QED
      BY <1>6, <2>2, <2>3, <2>4 DEF DictInv
  <1> QED
    BY <1>1, <1>2, <1>3, <1>4, <1>5, <1>6

LEMMA DictBegins ==
    ASSUME program \in AllPrograms, ThreadsInv, nwords \in Int, NEW t \in DOMAIN thr, DictStep(t), ~overlapped'
    PROVE  ~overlapped /\ (Place(thr[t]) \notin InDict => Within = {})
  <1>1. Begins => ~overlapped /\ Within = {}
    BY DEF Begins
  <1>2. {"load_inc", "store_inc", "load_dec", "store_dec", "move"} \subseteq InDict
    BY DEF InDict
  <1>3. CASE Initw(t) \/ Strcpy(t) \/ Scan(t) \/ NotFound(t) \/ Lookupw(t)
    BY <1>1, <1>3 DEF Initw, Strcpy, Scan, NotFound, Lookupw
  <1>4. CASE Load(t)
    <2>1. ~overlapped
      BY <1>4 DEF Load, dictvars
    <2>2. Place(thr[t]) \in InDict
      BY <1>2, <1>4, LoadIs
    <2> QED
      BY <2>1, <2>2
  <1>5. CASE StoreInc(t)
    BY <1>2, <1>5, AtPlace DEF StoreInc
  <1>6. CASE StoreDec(t)
    BY <1>2, <1>6, AtPlace DEF StoreDec
  <1>7. CASE Move(t)
    BY <1>2, <1>7, AtPlace DEF Move
  <1> QED
    BY <1>3, <1>4, <1>5, <1>6, <1>7 DEF DictStep

LEMMA DictMove ==
    ASSUME BaseInv, DictTypeOK, DictInv, NEW t \in DOMAIN thr, DictStep(t)
    PROVE  DictEffect
  <1>1. program \in AllPrograms /\ ThreadsInv /\ nwords \in Int
    BY ProgramIs DEF BaseInv
  <1>2. Others(t) /\ program \in DictServers /\ program' = program /\ thr'[t].arg = thr[t].arg
    BY <1>1, DictWorks DEF Works, served
  <1>3. CASE overlapped'
    <2>1. (overlapped \/ Within # {}) /\ before' = before /\ ret' = ret
      BY <1>3, DictOverlaps
    <2>2. Held' = Held
      BY <1>3, <2>1 DEF Held
    <2>3. DictInv'
      BY <1>3 DEF DictInv
    <2> QED
      BY <2>1, <2>2, <2>3, DictActs DEF DictEffect
  <1> SUFFICES ASSUME ~overlapped' PROVE DictEffect
    BY <1>3
  <1>4. ~overlapped /\ (Place(thr[t]) \notin InDict => Within = {})
    BY <1>1, DictBegins
  <1> PICK x, y, p, q, w, n :
        x = thr[t] /\ y = thr'[t] /\ p = Place(x) /\ q = Place(y) /\ w = x.arg /\ n = nwords
    OBVIOUS
  <1>5. /\ n \in 0 .. DICTSIZ
        /\ p \in InDict => RunOK(x) /\ Held = before
        /\ p \notin InDict => Held = Bag
        /\ q \notin InDict /\ nwords' \in 0 .. DICTSIZ => DictInv' /\ Held' = Bag'
        /\ q \in InDict /\ nwords' \in 0 .. DICTSIZ /\ RunOK(y)' => DictInv' /\ Held' = before'
    BY <1>2, <1>4, DictSolo
  <1>6. Begins => before' = Bag
    BY DEF Begins
  <1>7. Bag = BagOf(n) /\ Place(y)' = q /\ y.arg = w
    BY <1>2 DEF Bag, BagOf, Place
  <1>8. {"load_inc", "store_inc", "load_dec", "store_dec", "move"} \subseteq InDict
    BY DEF InDict
  <1>9. {"initw", "strcpy", "scan", "lookupw", "reply"} \cap InDict = {}
    BY DEF InDict
  <1>10. CASE Initw(t) /\ p = "initw" /\ q = "reply" /\ w = 0
    <2>1. nwords' = 0 /\ ret' = [call |-> "initw", word |-> 0, result |-> 1]
      BY <1>10 DEF Initw, Returns
    <2>2. nwords' \in 0 .. DICTSIZ
      BY <2>1, DictRpcAssumption
    <2>3. \A v : {z \in Places : z < nwords' /\ dict'[z] = v} = {}
      <3>1. \A z \in Places : ~(z < nwords')
        BY <2>1, PlacesAre
      <3> QED
        BY <3>1
    <2>4. Cardinality({}) = 0
      BY FS_EmptySet
    <2>5. Bag' = [v \in Words |-> 0]
      BY <2>3, <2>4 DEF Bag
    <2>6. DictInv' /\ Held' = Bag'
      BY <1>5, <1>9, <1>10, <2>2
    <2> QED
      BY <2>1, <2>5, <2>6, DictActs DEF DictEffect
  <1>11. CASE w \in Words /\ Strcpy(t) /\ p = "strcpy" /\ q = "load_inc"
    <2>1. n \in Places /\ dict' = [dict EXCEPT ![n] = w] /\ nwords' = n /\ ret' = ret /\ before' = Bag
      BY <1>6, <1>11 DEF Strcpy
    <2>2. n \in Int /\ n <= n /\ nwords' \in 0 .. DICTSIZ
      BY <1>5, <2>1
    <2>3. BagOf(n)' = BagOf(n)
      BY <2>1, <2>2, BagPast
    <2>4. dict'[n] = w
      BY <2>1 DEF DictTypeOK
    <2>5. RunOK(y)'
      BY <1>7, <1>11, <2>1, <2>3, <2>4 DEF RunOK
    <2>6. DictInv' /\ Held' = Held
      BY <1>5, <1>8, <1>9, <1>11, <2>1, <2>2, <2>5
    <2> QED
      BY <2>1, <2>6, DictActs DEF DictEffect
  <1>12. CASE Load(t) /\ y.reg = n /\ y.i = x.i /\ ((p = "load_inc" /\ q = "store_inc") \/ (p = "load_dec" /\ q = "store_dec"))
    <2>1. UNCHANGED dictvars
      BY <1>12 DEF Load
    <2>2. nwords' = n /\ dict' = dict /\ before' = before /\ ret' = ret /\ nwords' \in 0 .. DICTSIZ
      BY <1>5, <2>1 DEF dictvars
    <2>3. RunOK(x)
      BY <1>5, <1>8, <1>12
    <2>4. BagOf(n)' = BagOf(n)
      BY <2>2 DEF BagOf
    <2>5. RunOK(y)'
      BY <1>7, <1>12, <2>2, <2>3, <2>4 DEF RunOK
    <2>6. DictInv' /\ Held' = Held
      BY <1>5, <1>8, <1>12, <2>2, <2>5
    <2> QED
      BY <2>2, <2>6, DictActs DEF DictEffect
  <1>13. CASE w \in Words /\ StoreInc(t) /\ p = "store_inc" /\ q = "reply"
    <2>1. RunOK(x) /\ Held = before
      BY <1>5, <1>8, <1>13
    <2>2. x.reg = n /\ n \in Places /\ dict[n] = w /\ before = BagOf(n)
      BY <1>13, <2>1 DEF RunOK
    <2>3. nwords' = n + 1 /\ dict' = dict /\ n + 1 > 0 /\ nwords' \in 0 .. DICTSIZ
      BY <1>13, <2>2, PlacesAre, DictRpcAssumption DEF StoreInc, Places
    <2>4. ret' = [call |-> "insertw", word |-> w, result |-> 1]
      BY <1>13, <2>3 DEF StoreInc, Returns
    <2>5. Bag' = BagOf(n + 1)
      BY <2>3 DEF Bag, BagOf
    <2>6. \A v \in Words : BagOf(n + 1)[v] = IF v = w THEN BagOf(n)[v] + 1 ELSE BagOf(n)[v]
      BY <2>2, BagMore
    <2>7. BagOf(n + 1) = [BagOf(n) EXCEPT ![w] = @ + 1]
      BY <2>6, BagType
    <2>8. DictInv' /\ Held' = [Held EXCEPT ![w] = @ + 1]
      BY <1>5, <1>9, <1>13, <2>1, <2>2, <2>3, <2>5, <2>7
    <2> QED
      BY <1>13, <2>4, <2>8, DictActs DEF DictEffect
  <1>14. CASE w \in Words /\ Scan(t) /\ p = "scan" /\ q = "load_dec" /\ y.i \in Found(w)
    <2>1. nwords' = n /\ dict' = dict /\ before' = Bag /\ ret' = ret /\ nwords' \in 0 .. DICTSIZ
      BY <1>5, <1>6, <1>14 DEF Scan
    <2>2. y.i \in Places /\ y.i < n /\ dict[y.i] = w
      BY <1>14 DEF Found
    <2>3. BagOf(n)' = BagOf(n)
      BY <2>1 DEF BagOf
    <2>4. RunOK(y)'
      BY <1>7, <1>14, <2>1, <2>2, <2>3 DEF RunOK
    <2>5. DictInv' /\ Held' = Held
      BY <1>5, <1>8, <1>9, <1>14, <2>1, <2>4
    <2> QED
      BY <2>1, <2>5, DictActs DEF DictEffect
  <1>15. CASE w \in Words /\ NotFound(t) /\ p = "scan" /\ q = "reply"
    <2>1. nwords' = n /\ dict' = dict /\ nwords' \in 0 .. DICTSIZ /\ Found(w) = {}
          /\ ret' = [call |-> "deletew", word |-> w, result |-> 0]
      BY <1>5, <1>15 DEF NotFound
    <2>2. Bag' = Bag
      BY <2>1 DEF Bag
    <2>3. Bag[w] = 0
      BY <1>15, <2>1, FoundIs
    <2>4. DictInv' /\ Held' = Held /\ ~(Held[w] > 0)
      BY <1>5, <1>9, <1>15, <2>1, <2>2, <2>3
    <2> QED
      BY <1>15, <2>1, <2>4, DictActs DEF DictEffect
  <1>16. CASE w \in Words /\ StoreDec(t) /\ p = "store_dec" /\ q = "move" /\ y.i = x.i
    <2>1. RunOK(x) /\ Held = before
      BY <1>5, <1>8, <1>16
    <2>2. x.reg = n /\ x.i < n /\ x.i \in Places /\ dict[x.i] = w /\ before = BagOf(n)
      BY <1>16, <2>1 DEF RunOK
    <2>3. nwords' = n - 1 /\ dict' = dict /\ before' = before /\ ret' = ret
      BY <1>16, <2>2 DEF StoreDec
    <2>4. n - 1 \in Places /\ nwords' \in 0 .. DICTSIZ /\ x.i <= n - 1 /\ (n - 1) + 1 = n
      BY <1>5, <2>2, <2>3, DictRpcAssumption DEF Places
    <2>5. BagOf(n)' = BagOf(n)
      BY <2>3 DEF BagOf
    <2>6. RunOK(y)'
      BY <1>7, <1>16, <2>2, <2>3, <2>4, <2>5 DEF RunOK
    <2>7. DictInv' /\ Held' = Held
      BY <1>5, <1>8, <1>16, <2>1, <2>3, <2>4, <2>6
    <2> QED
      BY <2>3, <2>7, DictActs DEF DictEffect
  <1>17. CASE w \in Words /\ Move(t) /\ p = "move" /\ q = "reply"
    <2>1. RunOK(x) /\ Held = before
      BY <1>5, <1>8, <1>17
    <2>2. n \in Places /\ x.i \in Places /\ x.i <= n /\ dict[x.i] = w /\ before = BagOf(n + 1)
      BY <1>17, <2>1 DEF RunOK
    <2> PICK i : i = x.i
      OBVIOUS
    <2>3. dict' = [dict EXCEPT ![i] = dict[n]] /\ nwords' = n /\ nwords' \in 0 .. DICTSIZ
          /\ ret' = [call |-> "deletew", word |-> w, result |-> 1]
      BY <1>5, <1>17 DEF Move, Returns
    <2>4. Bag' = BagOf(n)'
      BY <2>3 DEF Bag, BagOf
    <2>5. \A v \in Words : /\ BagOf(n + 1)[v] = IF v = w THEN BagOf(n)'[v] + 1 ELSE BagOf(n)'[v]
                           /\ BagOf(n)'[v] \in Nat
      <3>1. i \in Places /\ n \in Places /\ i <= n /\ dict[i] = w
        BY <2>2
      <3>2. \A v \in Words : /\ BagOf(n + 1)[v] = IF dict[i] = v THEN BagOf(n)'[v] + 1 ELSE BagOf(n)'[v]
                             /\ BagOf(n)'[v] \in Nat
        BY <2>3, <3>1, BagMoved
      <3>3. \A v : dict[i] = v <=> v = w
        BY <3>1
      <3> QED
        BY <3>2, <3>3
    <2>6. BagOf(n + 1) \in [Words -> Nat] /\ Bag' \in [Words -> Nat]
      <3>1. BagOf(n)' = [v \in Words |-> BagOf(n)'[v]]
        BY DEF BagOf
      <3>2. [v \in Words |-> BagOf(n)'[v]] \in [Words -> Nat]
        BY <2>5
      <3> QED
        BY <2>4, <3>1, <3>2, BagType
    <2>7. Bag' = [BagOf(n + 1) EXCEPT ![w] = @ - 1] /\ BagOf(n + 1)[w] > 0
      BY <1>17, <2>4, <2>5, <2>6
    <2>8. DictInv' /\ Held' = [Held EXCEPT ![w] = @ - 1] /\ Held[w] > 0
      BY <1>5, <1>9, <1>17, <2>1, <2>2, <2>3, <2>7
    <2> QED
      BY <1>17, <2>3, <2>8, DictActs DEF DictEffect
  <1>18. CASE w \in Words /\ Lookupw(t) /\ p = "lookupw" /\ q = "reply"
    <2>1. nwords' = n /\ dict' = dict /\ nwords' \in 0 .. DICTSIZ
          /\ ret' = [call |-> "lookupw", word |-> w, result |-> IF Found(w) # {} THEN 1 ELSE 0]
      BY <1>5, <1>18 DEF Lookupw, Returns
    <2>2. Bag' = Bag
      BY <2>1 DEF Bag
    <2>3. Found(w) # {} <=> Bag[w] > 0
      BY <1>18, FoundIs
    <2>4. DictInv' /\ Held' = Held /\ (Held[w] > 0 <=> Found(w) # {})
      BY <1>5, <1>9, <1>18, <2>1, <2>2, <2>3
    <2> QED
      BY <1>18, <2>1, <2>4, DictActs DEF DictEffect
  <1> QED
    BY <1>1, <1>10, <1>11, <1>12, <1>13, <1>14, <1>15, <1>16, <1>17, <1>18, DictPlaces

LEMMA DictStays ==
    ASSUME BaseInv, DictInv, program' = program, Kept(InDict), UNCHANGED dictvars
    PROVE  DictEffect
  <1>1. DictInv' /\ (Within' = {} <=> Within = {})
    BY DictKept
  <1>2. Bag' = Bag /\ UNCHANGED <<before, overlapped, ret>>
    BY DEF Bag, dictvars
  <1>3. Held' = Held
    BY <1>1, <1>2 DEF Held
  <1> QED
    BY <1>1, <1>2, <1>3, DictActs DEF DictEffect

LEMMA DictPreserved == ASSUME BaseInv, DictTypeOK, DictInv, Next PROVE DictEffect
  <1>1. program' = program
    BY CallsStep
  <1>2. program \in AllPrograms /\ ThreadsInv /\ nwords \in Int
    BY ProgramIs DEF BaseInv
  <1>3. InDict \subseteq Own
    BY DEF InDict, Own
  <1>4. ASSUME UNCHANGED services,
               \/ \E c \in Clients : Call(c) \/ Timeout(c)
               \/ \E d \in net : Receive(d)
               \/ \E t \in DOMAIN thr : AtThread(t) \/ AtEnd(t)
        PROVE  DictEffect
    <2>1. Kept(InDict)
      BY <1>3, <1>4, KeptByServer
    <2>2. UNCHANGED dictvars
      BY <1>4 DEF services
    <2> QED
      BY <1>1, <2>1, <2>2, DictStays
  <1>5. \A s \in InDict : s \in {"initw", "strcpy", "load_inc", "store_inc", "scan", "load_dec", "store_dec", "move",
                                 "lookupw"}
    BY DEF InDict
  <1>6. ASSUME NEW t \in DOMAIN thr, PcStep(t) \/ BakeryStep(t), UNCHANGED dictvars PROVE DictEffect
    <2>1. Others(t) /\ program \notin DictServers
      BY <1>2, <1>6, PcWorks, BakeryWorks DEF Works, PcServers, DictServers
    <2>2. \A u \in DOMAIN thr : IsPlan(thr[u].todo)
      BY <1>2 DEF ThreadsInv, ThreadOK
    <2>3. ASSUME NEW x, IsPlan(x.todo) PROVE Place(x) \notin InDict
      <3>1. Place(x) # "end" => Place(x) \in Steps
        BY <2>3, PlaceIsStep
      <3> QED
        BY <1>2, <1>5, <2>1, <3>1, StepsOf DEF InDict
    <2>4. IsPlan(thr'[t].todo)
      BY <1>2, <1>6, PcWorks, BakeryWorks DEF Works, ThreadOK
    <2>5. Place(thr[t]) \notin InDict /\ Place(thr'[t]) \notin InDict
      BY <2>2, <2>3, <2>4
    <2>6. Kept(InDict)
      BY <2>1, <2>5, KeptByMove
    <2> QED
      BY <1>1, <1>6, <2>6, DictStays
  <1> QED
    BY <1>4, <1>6, Kinds, DictMove

LEMMA DictInvInit == ASSUME Init PROVE DictInv /\ Dict!Init
  <1>1. /\ dict = [x \in Places |-> 0] /\ nwords = 0 /\ ret = [call |-> "none", word |-> 0, result |-> 0]
        /\ before = Bag /\ overlapped = FALSE /\ thr = <<>>
    BY DEF Init, DictInit, SunRpcInit
  <1>2. Within = {}
    BY <1>1 DEF Within
  <1>3. 0 \in 0 .. DICTSIZ
    BY DictRpcAssumption
  <1>4. DictInv
    BY <1>1, <1>2, <1>3 DEF DictInv
  <1>5. \A w : {x \in Places : x < nwords /\ dict[x] = w} = {}
    <2>1. \A x \in Places : ~(x < nwords)
      BY <1>1, PlacesAre
    <2> QED
      BY <2>1
  <1>6. Cardinality({}) = 0
    BY FS_EmptySet
  <1>7. Bag = [w \in Words |-> 0]
    BY <1>5, <1>6 DEF Bag
  <1> QED
    BY <1>1, <1>2, <1>4, <1>7 DEF Dict!Init, Dict!Empty

\* Refinement: while no calls overlap, the array with its counter is a bag of
\* words, for any numbers of clients, calls and threads, any words and any DICTSIZ
\* (dict_srp.c 16-43, dict_server.c 20-47).
THEOREM Refinement == Spec => ImplementsDictionary
  <1>1. Init => DictInv /\ Dict!Init
    BY DictInvInit
  <1>2. NumbersIInv /\ DictInv /\ [Next]_vars => DictInv' /\ [Dict!Next]_(Dict!dvars)
    <2> SUFFICES ASSUME NumbersIInv, DictInv, [Next]_vars PROVE DictInv' /\ [Dict!Next]_(Dict!dvars)
      OBVIOUS
    <2>1. CASE Next
      BY <2>1, DictPreserved DEF NumbersIInv, DictEffect
    <2>2. CASE UNCHANGED vars
      <3>1. UNCHANGED dictvars /\ program' = program /\ thr' = thr
        BY <2>2 DEF vars, rpcvars, served
      <3>2. DictEffect
        BY <3>1, KeptIfSame, DictStays DEF NumbersIInv
      <3> QED
        BY <3>2 DEF DictEffect
    <2> QED
      BY <2>1, <2>2
  <1> QED
    BY <1>1, <1>2, NumbersInvariance, PTL DEF Spec, ImplementsDictionary, Dict!Spec

\* Without threads, calls do not overlap.
OneByOne ==
    /\ ~dispatch.thread => Len(thr) <= 1
    /\ program = "dict_one" => ~overlapped

LEMMA NoOverlap ==
    ASSUME program \in AllPrograms, ThreadsInv, nwords \in Int, NEW t \in DOMAIN thr, DictStep(t),
           Within \subseteq {t}, ~overlapped
    PROVE  ~overlapped'
  <1>1. Place(thr[t]) \notin InDict => Within = {}
    BY DictWorks, OneWithin DEF Works
  <1>2. {"initw", "strcpy", "scan", "lookupw"} \cap InDict = {}
    BY DEF InDict
  <1>3. CASE Initw(t) \/ Strcpy(t) \/ Scan(t) \/ NotFound(t) \/ Lookupw(t)
    <2>1. Begins /\ \E s \in {"initw", "strcpy", "scan", "lookupw"} : At(t, s)
      BY <1>3 DEF Initw, Strcpy, Scan, NotFound, Lookupw
    <2>2. Place(thr[t]) \notin InDict
      BY <1>2, <2>1, AtPlace
    <2> QED
      BY <1>1, <2>1, <2>2 DEF Begins
  <1>4. CASE Load(t) \/ StoreInc(t) \/ StoreDec(t) \/ Move(t)
    BY <1>4 DEF Load, StoreInc, StoreDec, Move, dictvars
  <1> QED
    BY <1>3, <1>4 DEF DictStep

LEMMA OneByOneStep == ASSUME BaseInv, OneByOne, Next PROVE OneByOne'
  <1>1. program \in AllPrograms /\ ThreadsInv /\ CallsInv /\ program' = program /\ nwords \in Int
    BY ProgramIs, CallsStep DEF BaseInv
  <1>2. dispatch' = dispatch /\ Len(thr) \in Nat
    BY <1>1 DEF dispatch, prog, ThreadsInv
  <1>3. ASSUME Len(thr') <= Len(thr), Len(thr') \in Nat PROVE ~dispatch'.thread => Len(thr') <= 1
    BY <1>2, <1>3 DEF OneByOne
  <1>4. ASSUME UNCHANGED dictvars PROVE program' = "dict_one" => ~overlapped'
    BY <1>1, <1>4 DEF OneByOne, dictvars
  <1>5. ASSUME NEW c \in Clients, Call(c) \/ Timeout(c), UNCHANGED services PROVE OneByOne'
    <2>1. thr' = thr
      BY <1>5 DEF Call, Timeout
    <2> QED
      BY <1>2, <1>3, <1>4, <1>5, <2>1 DEF OneByOne, services
  <1>6. ASSUME NEW d \in net, Receive(d), UNCHANGED services PROVE OneByOne'
    <2>1. Len(thr) < IF dispatch.thread THEN MaxThreads ELSE 1
      BY <1>6 DEF Receive
    <2>2. Len(thr') = Len(thr) + 1
      BY <1>1, <1>6, ReceiveIs
    <2>3. ~dispatch'.thread => Len(thr') <= 1
      BY <1>2, <2>1, <2>2
    <2> QED
      BY <1>4, <1>6, <2>3 DEF OneByOne, services
  <1>7. ASSUME NEW t \in DOMAIN thr, AtEnd(t), UNCHANGED services PROVE OneByOne'
    <2>1. Ends(t)
      BY <1>1, <1>7, EndSteps
    <2>2. thr' \in Seq(ThreadRecords) /\ Len(thr') = Len(thr) - 1
      BY <1>1, <2>1, EndsIs
    <2>3. Len(thr') \in Nat /\ Len(thr') <= Len(thr)
      BY <1>2, <2>2
    <2> QED
      BY <1>3, <1>4, <1>7, <2>3 DEF OneByOne, services
  <1>8. ASSUME NEW t \in DOMAIN thr, AtThread(t) \/ PcStep(t) \/ DictStep(t) \/ BakeryStep(t)
        PROVE  Len(thr') <= Len(thr) /\ Len(thr') \in Nat
    <2>1. Others(t)
      BY <1>8, ThreadKept
    <2> QED
      BY <1>2, <2>1 DEF Others
  <1>9. ASSUME NEW t \in DOMAIN thr, AtThread(t) \/ PcStep(t) \/ BakeryStep(t), UNCHANGED dictvars PROVE OneByOne'
    BY <1>3, <1>4, <1>8, <1>9 DEF OneByOne
  <1>10. ASSUME NEW t \in DOMAIN thr, DictStep(t) PROVE OneByOne'
    <2>1. ASSUME program = "dict_one" PROVE ~overlapped'
      <3>1. ~dispatch.thread /\ ~overlapped
        BY <2>1, ProgramIs DEF OneByOne, dispatch, dict_one, dict_copy_main, copy_rdictprog_1
      <3>2. DOMAIN thr = 1 .. Len(thr) /\ Len(thr) <= 1
        BY <1>1, <3>1 DEF OneByOne, ThreadsInv
      <3>3. DOMAIN thr \subseteq {t}
        BY <1>2, <3>2
      <3>4. Within \subseteq {t}
        BY <3>3 DEF Within
      <3> QED
        BY <1>1, <1>10, <3>1, <3>4, NoOverlap
    <2> QED
      BY <1>1, <1>3, <1>8, <1>10, <2>1 DEF OneByOne
  <1> QED
    BY <1>5, <1>6, <1>7, <1>9, <1>10, Kinds DEF services

\* In the server without threads no two calls overlap, however often a datagram
\* comes: with Refinement, it is a bag of words always (dict_server.c 20-47,
\* "dict_svc copy.c").
THEOREM NeverOverlapped == Spec => [](program = "dict_one" => ~overlapped)
  <1>1. Init => OneByOne
    BY DEF Init, DictInit, SunRpcInit, OneByOne
  <1>2. NumbersIInv /\ OneByOne /\ [Next]_vars => OneByOne'
    <2> SUFFICES ASSUME NumbersIInv, OneByOne, [Next]_vars PROVE OneByOne'
      OBVIOUS
    <2>1. CASE Next
      BY <2>1, OneByOneStep DEF NumbersIInv
    <2>2. CASE UNCHANGED vars
      BY <2>2 DEF vars, rpcvars, served, dictvars, OneByOne, dispatch, prog
    <2> QED
      BY <2>1, <2>2
  <1>3. OneByOne => (program = "dict_one" => ~overlapped)
    BY DEF OneByOne
  <1> QED
    BY <1>1, <1>2, <1>3, NumbersInvariance, PTL DEF Spec
=============================================================================
