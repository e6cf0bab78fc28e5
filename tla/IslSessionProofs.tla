-------------------------- MODULE IslSessionProofs --------------------------
(* Theorems about IslSession for nests of any depth. The calls of a function  *)
(* are typed like a linear program: before each call it is known which        *)
(* variables hold a reference of their own, and which ones carry the failures *)
(* of the calls so far on to the result. A call turns one such knowledge into *)
(* another one; a sequence of calls composes.                                 *)
EXTENDS IslSession, FiniteSetTheorems, SequenceTheorems, TLAPS

Arguments(c) == {c.from[k] : k \in DOMAIN c.from}

Calls == [op : {"read", "copy", "call", "free", "check"}, to : Names, from : Seq(Names)]

\* What is known: the variables that own a reference, those one of which is NULL
\* after a failure, and whether Deps has not been assigned yet.
Knowledge == [held : SUBSET Names, carriers : SUBSET Names, fresh : BOOLEAN]

Know(held, carriers, fresh) == [held |-> held, carriers |-> carriers, fresh |-> fresh]

\* A NULL among the carriers before an assignment of v from vs is one after it.
Carried(before, v, vs, after) ==
    \A u \in before : (u \in after /\ u # v) \/ (u \in vs /\ v \in after)

Makes(c, a, b) ==
    /\ c.op \in {"read", "call"}
    /\ Arguments(c) \subseteq a.held
    /\ \A k, l \in DOMAIN c.from : c.from[k] = c.from[l] => k = l
    /\ c.to \notin a.held \ Arguments(c)
    /\ b.held = (a.held \ Arguments(c)) \cup {c.to}
    /\ c.to \in b.carriers
    /\ Carried(a.carriers, c.to, Arguments(c), b.carriers)
    /\ b.fresh => a.fresh /\ c.to # "Deps"

Copies(c, a, b) ==
    /\ c.op = "copy"
    /\ c.to \in {"W", "R"} /\ c.to \notin a.held
    /\ Len(c.from) = 1 /\ c.from[1] \in a.held
    /\ b.held = a.held \cup {c.to}
    /\ Carried(a.carriers, c.to, Arguments(c), b.carriers)
    /\ b.fresh => a.fresh

Frees(c, a, b) ==
    /\ c.op = "free"
    /\ Len(c.from) = 1 /\ c.from[1] \in a.held
    /\ b.held = a.held \ Arguments(c)
    /\ a.carriers \subseteq b.carriers
    /\ b.fresh => a.fresh

Checks(c, a, b) ==
    /\ c = CheckInputs
    /\ a.held = Inputs /\ b.held = Inputs
    /\ a.carriers \subseteq Inputs
    /\ a.fresh

Turns(c, a, b) == Makes(c, a, b) \/ Copies(c, a, b) \/ Frees(c, a, b) \/ Checks(c, a, b)

\* The calls s, made one after the other, turn a into z.
Runs(s, a, z) ==
    /\ s \in Seq(Calls)
    /\ \E f \in [1 .. Len(s) + 1 -> Knowledge] :
          /\ f[1] = a /\ f[Len(s) + 1] = z
          /\ \A k \in 1 .. Len(s) : Turns(s[k], f[k], f[k + 1])

-----------------------------------------------------------------------------
(* Sequences of calls.                                                       *)

\* No call, one call, two sequences of calls.
LEMMA RunsNothing ==
    ASSUME NEW a \in Knowledge
    PROVE  /\ Runs(<<>>, a, a)
           /\ \A z : Runs(<<>>, a, z) => a = z
<1>1. Runs(<<>>, a, a)
  <2> DEFINE f == [k \in 1 .. 1 |-> a]
  <2>1. Len(<<>>) = 0 /\ <<>> \in Seq(Calls)
      BY EmptySeq
  <2>2. f \in [1 .. Len(<<>>) + 1 -> Knowledge] /\ f[1] = a /\ f[Len(<<>>) + 1] = a
      BY <2>1
  <2>3. 1 .. Len(<<>>) = {}
      BY <2>1
  <2> HIDE DEF f
  <2>. QED BY <2>1, <2>2, <2>3 DEF Runs
<1>2. \A z : Runs(<<>>, a, z) => a = z
    BY DEF Runs
<1>. QED BY <1>1, <1>2

LEMMA RunsOne ==
    ASSUME NEW c \in Calls, NEW a \in Knowledge, NEW z \in Knowledge, Turns(c, a, z)
    PROVE  Runs(<<c>>, a, z)
<1> DEFINE f == [k \in 1 .. 2 |-> IF k = 1 THEN a ELSE z]
<1>1. f \in [1 .. Len(<<c>>) + 1 -> Knowledge] /\ f[1] = a /\ f[2] = z
    OBVIOUS
<1> HIDE DEF f
<1>2. <<c>> \in Seq(Calls) /\ Len(<<c>>) = 1 /\ <<c>>[1] = c
    OBVIOUS
<1>3. \A k \in 1 .. Len(<<c>>) : Turns(<<c>>[k], f[k], f[k + 1])
    BY <1>1, <1>2
<1>. QED BY <1>1, <1>2, <1>3 DEF Runs

LEMMA RunsBoth ==
    ASSUME NEW s, NEW t, NEW a, NEW b, NEW z, Runs(s, a, b), Runs(t, b, z)
    PROVE  Runs(s \o t, a, z)
<1>1. PICK f \in [1 .. Len(s) + 1 -> Knowledge] :
         /\ f[1] = a /\ f[Len(s) + 1] = b
         /\ \A k \in 1 .. Len(s) : Turns(s[k], f[k], f[k + 1])
    BY DEF Runs
<1>2. PICK g \in [1 .. Len(t) + 1 -> Knowledge] :
         /\ g[1] = b /\ g[Len(t) + 1] = z
         /\ \A k \in 1 .. Len(t) : Turns(t[k], g[k], g[k + 1])
    BY DEF Runs
<1>3. /\ s \in Seq(Calls) /\ t \in Seq(Calls)
      /\ Len(s) \in Nat /\ Len(t) \in Nat
    BY DEF Runs
<1>4. /\ s \o t \in Seq(Calls) /\ Len(s \o t) = Len(s) + Len(t)
      /\ \A k \in 1 .. Len(s) + Len(t) :
            (s \o t)[k] = IF k <= Len(s) THEN s[k] ELSE t[k - Len(s)]
    BY <1>3, ConcatProperties
<1> DEFINE h == [k \in 1 .. Len(s) + Len(t) + 1 |->
                   IF k <= Len(s) THEN f[k] ELSE g[k - Len(s)]]
<1>5. h \in [1 .. Len(s \o t) + 1 -> Knowledge]
    BY <1>3, <1>4
<1>6. h[1] = a /\ h[Len(s \o t) + 1] = z
    BY <1>1, <1>2, <1>3, <1>4
<1>7. ASSUME NEW k \in 1 .. Len(s \o t) PROVE Turns((s \o t)[k], h[k], h[k + 1])
  <2>1. CASE k < Len(s)
    <3>1. h[k] = f[k] /\ h[k + 1] = f[k + 1] /\ (s \o t)[k] = s[k] /\ k \in 1 .. Len(s)
        BY <1>3, <1>4, <2>1
    <3>. QED BY <1>1, <3>1
  <2>2. CASE k = Len(s)
    <3>1. h[k] = f[k] /\ h[k + 1] = g[1] /\ (s \o t)[k] = s[k] /\ k \in 1 .. Len(s)
        BY <1>3, <1>4, <2>2
    <3>. QED BY <1>1, <1>2, <2>2, <3>1
  <2>3. CASE k > Len(s)
    <3>1. /\ h[k] = g[k - Len(s)] /\ h[k + 1] = g[k - Len(s) + 1]
          /\ (s \o t)[k] = t[k - Len(s)] /\ k - Len(s) \in 1 .. Len(t)
        BY <1>3, <1>4, <2>3
    <3>. QED BY <1>2, <3>1
  <2>. QED BY <1>3, <2>1, <2>2, <2>3
<1> HIDE DEF h
<1>. QED BY <1>4, <1>5, <1>6, <1>7 DEF Runs

\* The first call, and the others.
LEMMA RunsFirst ==
    ASSUME NEW s, NEW a, NEW z, Runs(s, a, z), s # <<>>
    PROVE  /\ Head(s) \in Calls
           /\ \E b \in Knowledge : Turns(Head(s), a, b) /\ Runs(Tail(s), b, z)
<1>1. PICK f \in [1 .. Len(s) + 1 -> Knowledge] :
         /\ f[1] = a /\ f[Len(s) + 1] = z
         /\ \A k \in 1 .. Len(s) : Turns(s[k], f[k], f[k + 1])
    BY DEF Runs
<1>2. s \in Seq(Calls) /\ Len(s) \in Nat \ {0} /\ Head(s) = s[1]
    BY EmptySeq DEF Runs
<1>3. /\ Head(s) \in Calls
      /\ Tail(s) \in Seq(Calls) /\ Len(Tail(s)) = Len(s) - 1
      /\ \A k \in 1 .. Len(Tail(s)) : Tail(s)[k] = s[k + 1]
    BY <1>2, HeadTailProperties
<1> DEFINE g == [k \in 1 .. Len(Tail(s)) + 1 |-> f[k + 1]]
<1>4. g \in [1 .. Len(Tail(s)) + 1 -> Knowledge] /\ g[1] = f[2] /\ g[Len(Tail(s)) + 1] = z
    BY <1>1, <1>2, <1>3
<1>5. \A k \in 1 .. Len(Tail(s)) : Turns(Tail(s)[k], g[k], g[k + 1])
    BY <1>1, <1>2, <1>3
<1> HIDE DEF g
<1>6. Runs(Tail(s), f[2], z)
    BY <1>3, <1>4, <1>5 DEF Runs
<1>7. f[2] \in Knowledge /\ Turns(Head(s), a, f[2])
    BY <1>1, <1>2
<1>. QED BY <1>3, <1>6, <1>7

-----------------------------------------------------------------------------
(* The calls of getDependencies and isTilingLegal.                           *)

LEMMA RunsTwo ==
    ASSUME NEW c \in Calls, NEW d \in Calls,
           NEW x0 \in Knowledge, NEW x1 \in Knowledge, NEW x2 \in Knowledge,
           Turns(c, x0, x1), Turns(d, x1, x2)
    PROVE  Runs(<<c, d>>, x0, x2)
<1>1. <<c, d>> = <<c>> \o <<d>>
  <2>1. /\ <<c>> \in Seq(Calls) /\ Len(<<c>>) = 1 /\ <<c>>[1] = c
        /\ <<d>> \in Seq(Calls) /\ Len(<<d>>) = 1 /\ <<d>>[1] = d
        /\ <<c, d>> \in Seq(Calls) /\ Len(<<c, d>>) = 2 /\ <<c, d>>[1] = c /\ <<c, d>>[2] = d
      OBVIOUS
  <2>2. /\ <<c>> \o <<d>> \in Seq(Calls) /\ Len(<<c>> \o <<d>>) = 2
        /\ (<<c>> \o <<d>>)[1] = c /\ (<<c>> \o <<d>>)[2] = d
      BY <2>1, ConcatProperties
  <2>3. \A k \in 1 .. 2 : <<c, d>>[k] = (<<c>> \o <<d>>)[k]
      BY <2>1, <2>2
  <2>. QED BY <2>1, <2>2, <2>3, SeqEqual
<1>2. Runs(<<c>>, x0, x1)
    BY RunsOne
<1>3. Runs(<<d>>, x1, x2)
    BY RunsOne
<1>. QED BY <1>1, <1>2, <1>3, RunsBoth

LEMMA RunsThree ==
    ASSUME NEW c \in Calls, NEW d \in Calls, NEW e \in Calls,
           NEW x0 \in Knowledge, NEW x1 \in Knowledge, NEW x2 \in Knowledge, NEW x3 \in Knowledge,
           Turns(c, x0, x1), Turns(d, x1, x2), Turns(e, x2, x3)
    PROVE  Runs(<<c, d, e>>, x0, x3)
<1>1. <<c, d, e>> = <<c, d>> \o <<e>>
    OBVIOUS
<1>2. Runs(<<c, d>>, x0, x2)
    BY RunsTwo
<1>3. Runs(<<e>>, x2, x3)
    BY RunsOne
<1>. QED BY <1>1, <1>2, <1>3, RunsBoth

LEMMA RunsFour ==
    ASSUME NEW c \in Calls, NEW d \in Calls, NEW e \in Calls, NEW f \in Calls,
           NEW x0 \in Knowledge, NEW x1 \in Knowledge, NEW x2 \in Knowledge,
           NEW x3 \in Knowledge, NEW x4 \in Knowledge,
           Turns(c, x0, x1), Turns(d, x1, x2), Turns(e, x2, x3), Turns(f, x3, x4)
    PROVE  Runs(<<c, d, e, f>>, x0, x4)
<1>1. <<c, d, e, f>> = <<c, d>> \o <<e, f>>
    OBVIOUS
<1>2. Runs(<<c, d>>, x0, x2)
    BY RunsTwo
<1>3. Runs(<<e, f>>, x2, x4)
    BY RunsTwo
<1>. QED BY <1>1, <1>2, <1>3, RunsBoth

\* The calls are calls, and each turns what must be known before it.
LEMMA CallsTyped ==
    /\ \A v \in Names : Read(v) \in Calls /\ Free(v) \in Calls
    /\ \A v, x \in Names : Copy(v, x) \in Calls
    /\ \A v, x \in Names : Call(v, <<x>>) \in Calls
    /\ \A v, x, y \in Names : Call(v, <<x, y>>) \in Calls
    /\ CheckInputs \in Calls
<1>1. ASSUME NEW v \in Names, NEW s \in Seq(Names),
             NEW o \in {"read", "copy", "call", "free", "check"}
      PROVE  [op |-> o, to |-> v, from |-> s] \in Calls
    BY DEF Calls
<1>2. \A x, y \in Names : <<>> \in Seq(Names) /\ <<x>> \in Seq(Names) /\ <<x, y>> \in Seq(Names)
    OBVIOUS
<1>3. CheckInputs \in Calls
  <2>1. <<"Domain", "Reads", "Writes">> \in Seq(Names) /\ "Deps" \in Names
      BY DEF Names, Inputs
  <2>. QED BY <1>1, <2>1 DEF CheckInputs
<1>. QED BY <1>1, <1>2, <1>3 DEF Read, Free, Copy, Call

LEMMA KnowTyped ==
    ASSUME NEW h, h \subseteq Names, NEW m, m \subseteq Names, NEW n \in BOOLEAN
    PROVE  /\ Know(h, m, n) \in Knowledge
           /\ Know(h, m, n).held = h /\ Know(h, m, n).carriers = m /\ Know(h, m, n).fresh = n
BY DEF Know, Knowledge

LEMMA ReadTurns ==
    ASSUME NEW v \in Names, NEW h, h \subseteq Names, v \notin h,
           NEW m, m \subseteq Names, NEW n, n \subseteq Names, v \in n, m \subseteq n \ {v},
           v # "Deps", NEW o \in BOOLEAN
    PROVE  Turns(Read(v), Know(h, m, o), Know(h \cup {v}, n, o))
<1>1. Read(v).op = "read" /\ Read(v).to = v /\ Arguments(Read(v)) = {} /\ DOMAIN Read(v).from = {}
    BY DEF Read, Arguments
<1>2. Makes(Read(v), Know(h, m, o), Know(h \cup {v}, n, o))
    BY <1>1, KnowTyped DEF Makes, Carried
<1>. QED BY <1>2 DEF Turns

LEMMA CopyTurns ==
    ASSUME NEW v \in {"W", "R"}, NEW x \in Names, NEW h, h \subseteq Names, v \notin h, x \in h,
           NEW m, m \subseteq Names, NEW n, n \subseteq Names,
           \A u \in m : (u \in n /\ u # v) \/ (u = x /\ v \in n),
           NEW o \in BOOLEAN
    PROVE  Turns(Copy(v, x), Know(h, m, o), Know(h \cup {v}, n, o))
<1>1. /\ Copy(v, x).op = "copy" /\ Copy(v, x).to = v /\ Arguments(Copy(v, x)) = {x}
      /\ Len(Copy(v, x).from) = 1 /\ Copy(v, x).from[1] = x
    BY DEF Copy, Arguments
<1>2. h \cup {v} \subseteq Names
    BY DEF Names
<1>3. Copies(Copy(v, x), Know(h, m, o), Know(h \cup {v}, n, o))
    BY <1>1, <1>2, KnowTyped DEF Copies, Carried
<1>. QED BY <1>3 DEF Turns

\* A call with one argument, and one with two.
LEMMA CallOneTurns ==
    ASSUME NEW v \in Names, NEW x \in Names, NEW h, h \subseteq Names, x \in h,
           v \notin h \ {x},
           NEW m, m \subseteq Names, NEW n, n \subseteq Names, v \in n,
           \A u \in m : (u \in n /\ u # v) \/ u = x,
           v # "Deps", NEW o \in BOOLEAN
    PROVE  Turns(Call(v, <<x>>), Know(h, m, o), Know((h \ {x}) \cup {v}, n, o))
<1>1. /\ Call(v, <<x>>).op = "call" /\ Call(v, <<x>>).to = v /\ Arguments(Call(v, <<x>>)) = {x}
      /\ Call(v, <<x>>).from = <<x>> /\ DOMAIN <<x>> = {1}
    BY DEF Call, Arguments
<1>2. Makes(Call(v, <<x>>), Know(h, m, o), Know((h \ {x}) \cup {v}, n, o))
    BY <1>1, KnowTyped DEF Makes, Carried
<1>. QED BY <1>2 DEF Turns

LEMMA CallTwoTurns ==
    ASSUME NEW v \in Names, NEW x \in Names, NEW y \in Names, x # y,
           NEW h, h \subseteq Names, x \in h, y \in h, v \notin h \ {x, y},
           NEW m, m \subseteq Names, NEW n, n \subseteq Names, v \in n,
           \A u \in m : (u \in n /\ u # v) \/ u \in {x, y},
           NEW o \in BOOLEAN, NEW q \in BOOLEAN, q => o /\ v # "Deps"
    PROVE  Turns(Call(v, <<x, y>>), Know(h, m, o), Know((h \ {x, y}) \cup {v}, n, q))
<1> DEFINE c == Call(v, <<x, y>>)
<1>1. /\ c.op = "call" /\ c.to = v /\ c.from = <<x, y>>
    BY DEF Call
<1>2. DOMAIN <<x, y>> = {1, 2} /\ <<x, y>>[1] = x /\ <<x, y>>[2] = y
    OBVIOUS
<1>3. Arguments(c) = {x, y} /\ \A k, l \in DOMAIN c.from : c.from[k] = c.from[l] => k = l
    BY <1>1, <1>2 DEF Arguments
<1> HIDE DEF c
<1>4. Makes(c, Know(h, m, o), Know((h \ {x, y}) \cup {v}, n, q))
    BY <1>1, <1>3, KnowTyped DEF Makes, Carried
<1>. QED BY <1>4 DEF Turns, c

LEMMA FreeTurns ==
    ASSUME NEW x \in Names, NEW h, h \subseteq Names, x \in h,
           NEW m, m \subseteq Names, NEW o \in BOOLEAN
    PROVE  Turns(Free(x), Know(h, m, o), Know(h \ {x}, m, o))
<1>1. /\ Free(x).op = "free" /\ Len(Free(x).from) = 1 /\ Free(x).from[1] = x
      /\ Arguments(Free(x)) = {x}
    BY DEF Free, Arguments
<1>2. Frees(Free(x), Know(h, m, o), Know(h \ {x}, m, o))
    BY <1>1, KnowTyped DEF Frees
<1>. QED BY <1>2 DEF Turns

\* M = isl_union_map_intersect_domain(M, isl_union_set_copy(Domain)).
LEMMA IntersectedRuns ==
    ASSUME NEW m \in {"Reads", "Writes"}
    PROVE  LET a == Know(Inputs, {"Reads", "Writes"}, TRUE) IN Runs(Intersected(m), a, a)
<1> DEFINE C == {"Reads", "Writes"}
           h == Inputs \cup {"R"}
<1>1. h \subseteq Names /\ C \subseteq Names /\ m \in Names /\ "R" \in Names /\ "Domain" \in Names
      /\ Inputs \subseteq Names
    BY DEF Names, Inputs
<1>2. Turns(Copy("R", "Domain"), Know(Inputs, C, TRUE), Know(h, C, TRUE))
    BY <1>1, CopyTurns DEF Inputs
<1>3. Turns(Call(m, <<m, "R">>), Know(h, C, TRUE), Know((h \ {m, "R"}) \cup {m}, C, TRUE))
    BY <1>1, CallTwoTurns DEF Inputs
<1>4. (h \ {m, "R"}) \cup {m} = Inputs
    BY DEF Inputs
<1>5. Know(Inputs, C, TRUE) \in Knowledge /\ Know(h, C, TRUE) \in Knowledge
    BY <1>1, KnowTyped
<1>6. Copy("R", "Domain") \in Calls /\ Call(m, <<m, "R">>) \in Calls
    BY <1>1, CallsTyped
<1> HIDE DEF h, C
<1>7. Runs(<<Copy("R", "Domain"), Call(m, <<m, "R">>)>>, Know(Inputs, C, TRUE), Know(Inputs, C, TRUE))
    BY <1>2, <1>3, <1>4, <1>5, <1>6, RunsTwo
<1>. QED BY <1>7 DEF Intersected, C

\* to = isl_union_map_apply_range(copy(first), isl_union_map_reverse(copy(second))).
LEMMA PairsRun ==
    ASSUME NEW to \in {"WW", "WR", "RW"},
           NEW first \in {"Reads", "Writes"}, NEW second \in {"Reads", "Writes"},
           NEW h, h \subseteq Inputs \cup {"WW", "WR", "RW"}, Inputs \subseteq h, to \notin h,
           NEW C, C \subseteq {"Reads", "Writes", "WW", "WR", "RW"} \ {to}
    PROVE  Runs(Pairs(to, first, second),
                Know(h, C \cup {first, second}, TRUE), Know(h \cup {to}, C \cup {to}, TRUE))
<1> DEFINE k0 == Know(h, C \cup {first, second}, TRUE)
           k1 == Know(h \cup {"W"}, C \cup {"W", second}, TRUE)
           k2 == Know(h \cup {"W", "R"}, C \cup {"W", "R"}, TRUE)
           k3 == Know(h \cup {"W", "reverse"}, C \cup {"W", "reverse"}, TRUE)
           k4 == Know(h \cup {to}, C \cup {to}, TRUE)
           c1 == Copy("W", first)
           c2 == Copy("R", second)
           c3 == Call("reverse", <<"R">>)
           c4 == Call(to, <<"W", "reverse">>)
<1>1. /\ h \subseteq Names /\ C \subseteq Names
      /\ {to, first, second, "W", "R", "reverse"} \subseteq Names
      /\ {to, "W", "R", "reverse"} \cap Inputs = {}
      /\ {"W", "R", "reverse"} \cap h = {} /\ {"W", "R", "reverse"} \cap C = {}
      /\ first \in h /\ second \in h
    BY DEF Names, Inputs
<1>2. Turns(c1, k0, k1)
    BY <1>1, CopyTurns
<1>3. Turns(c2, k1, k2)
  <2>1. (h \cup {"W"}) \cup {"R"} = h \cup {"W", "R"}
      OBVIOUS
  <2> DEFINE g == h \cup {"W"}
             m == C \cup {"W", second}
             n == C \cup {"W", "R"}
  <2>2. /\ g \subseteq Names /\ m \subseteq Names /\ n \subseteq Names
        /\ second \in g /\ "R" \notin g /\ second \in Names /\ "R" \in n
        /\ \A u \in m : (u \in n /\ u # "R") \/ u = second
      BY <1>1
  <2> HIDE DEF g, m, n
  <2>3. Turns(c2, Know(g, m, TRUE), Know(g \cup {"R"}, n, TRUE))
      BY <2>2, CopyTurns
  <2>. QED BY <2>1, <2>3 DEF g, m, n
<1>4. Turns(c3, k2, k3)
  <2>1. ((h \cup {"W", "R"}) \ {"R"}) \cup {"reverse"} = h \cup {"W", "reverse"}
      BY <1>1
  <2>2. /\ h \cup {"W", "R"} \subseteq Names /\ C \cup {"W", "R"} \subseteq Names
        /\ C \cup {"W", "reverse"} \subseteq Names
        /\ "R" \in h \cup {"W", "R"} /\ "reverse" \notin (h \cup {"W", "R"}) \ {"R"}
        /\ \A u \in C \cup {"W", "R"} :
              (u \in C \cup {"W", "reverse"} /\ u # "reverse") \/ u = "R"
      BY <1>1
  <2> DEFINE g == h \cup {"W", "R"}
             m == C \cup {"W", "R"}
             n == C \cup {"W", "reverse"}
  <2> HIDE DEF g, m, n
  <2>3. Turns(c3, Know(g, m, TRUE), Know((g \ {"R"}) \cup {"reverse"}, n, TRUE))
      BY <1>1, <2>2, CallOneTurns DEF g, m, n
  <2>. QED BY <2>1, <2>3 DEF g, m, n
<1>5. Turns(c4, k3, k4)
  <2>1. ((h \cup {"W", "reverse"}) \ {"W", "reverse"}) \cup {to} = h \cup {to}
      BY <1>1
  <2> DEFINE g == h \cup {"W", "reverse"}
             m == C \cup {"W", "reverse"}
             n == C \cup {to}
  <2>2. /\ g \subseteq Names /\ m \subseteq Names /\ n \subseteq Names
        /\ "W" \in g /\ "reverse" \in g /\ to \notin g \ {"W", "reverse"}
        /\ \A u \in m : (u \in n /\ u # to) \/ u \in {"W", "reverse"}
      BY <1>1
  <2> HIDE DEF g, m, n
  <2>3. Turns(c4, Know(g, m, TRUE), Know((g \ {"W", "reverse"}) \cup {to}, n, TRUE))
      BY <1>1, <2>2, CallTwoTurns DEF n
  <2>. QED BY <2>1, <2>3 DEF g, m, n
<1>6. k0 \in Knowledge /\ k1 \in Knowledge /\ k2 \in Knowledge /\ k3 \in Knowledge /\ k4 \in Knowledge
  <2>1. \A x, y : x \subseteq Names /\ y \subseteq Names => Know(x, y, TRUE) \in Knowledge
      BY KnowTyped
  <2>. QED BY <1>1, <2>1
<1>7. c1 \in Calls /\ c2 \in Calls /\ c3 \in Calls /\ c4 \in Calls
    BY <1>1, CallsTyped
<1> HIDE DEF k0, k1, k2, k3, k4, c1, c2, c3, c4
<1>8. Runs(<<c1, c2, c3, c4>>, k0, k4)
    BY <1>2, <1>3, <1>4, <1>5, <1>6, <1>7, RunsFour
<1>. QED BY <1>8 DEF Pairs, k0, k4, c1, c2, c3, c4

\* The inputs are read and tested.
InputCalls == <<Read("Domain"), Read("Reads"), Read("Writes"), CheckInputs>>

LEMMA InputsRun ==
    Runs(InputCalls, Know({}, {}, TRUE), Know(Inputs, {"Reads", "Writes"}, TRUE))
<1> DEFINE D  == {"Domain"}
           DR == {"Domain", "Reads"}
           k0 == Know({}, {}, TRUE)
           k1 == Know(D, D, TRUE)
           k2 == Know(DR, DR, TRUE)
           k3 == Know(Inputs, Inputs, TRUE)
           k4 == Know(Inputs, {"Reads", "Writes"}, TRUE)
<1>1. /\ D \subseteq Names /\ DR \subseteq Names /\ Inputs \subseteq Names
      /\ D = {} \cup {"Domain"} /\ DR = D \cup {"Reads"} /\ Inputs = DR \cup {"Writes"}
      /\ "Reads" \notin D /\ "Writes" \notin DR
      /\ "Domain" \in Names /\ "Reads" \in Names /\ "Writes" \in Names
    BY DEF Names, Inputs
<1> HIDE DEF D, DR
<1>2. Turns(Read("Domain"), k0, k1)
  <2>1. \A n \in BOOLEAN : "Domain" \in D /\ {} \subseteq D \ {"Domain"}
      BY <1>1
  <2>. QED BY <1>1, <2>1, ReadTurns
<1>3. Turns(Read("Reads"), k1, k2)
  <2>1. "Reads" \in DR /\ D \subseteq DR \ {"Reads"}
      BY <1>1
  <2>. QED BY <1>1, <2>1, ReadTurns
<1>4. Turns(Read("Writes"), k2, k3)
  <2>1. "Writes" \in Inputs /\ DR \subseteq Inputs \ {"Writes"}
      BY <1>1
  <2>. QED BY <1>1, <2>1, ReadTurns
<1>5. Turns(CheckInputs, k3, k4)
  <2>1. Checks(CheckInputs, k3, k4)
      BY DEF Checks, Know
  <2>. QED BY <2>1 DEF Turns
<1>6. k0 \in Knowledge /\ k1 \in Knowledge /\ k2 \in Knowledge /\ k3 \in Knowledge /\ k4 \in Knowledge
  <2>1. \A x, y : x \subseteq Names /\ y \subseteq Names => Know(x, y, TRUE) \in Knowledge
      BY KnowTyped
  <2>2. {} \subseteq Names /\ {"Reads", "Writes"} \subseteq Names
      BY <1>1
  <2>. QED BY <1>1, <2>1, <2>2
<1>7. /\ Read("Domain") \in Calls /\ Read("Reads") \in Calls /\ Read("Writes") \in Calls
      /\ CheckInputs \in Calls
    BY <1>1, CallsTyped
<1> HIDE DEF k0, k1, k2, k3, k4
<1>8. Runs(InputCalls, k0, k4)
    BY <1>2, <1>3, <1>4, <1>5, <1>6, <1>7, RunsFour DEF InputCalls
<1>. QED BY <1>8 DEF k0, k4

\* The frees of the inputs, which also the early return makes.
LEMMA FreesRun ==
    ASSUME NEW h, h \subseteq Names, h \cap Inputs = {},
           NEW m, m \subseteq Names, NEW o \in BOOLEAN
    PROVE  Runs(GiveUp, Know(h \cup Inputs, m, o), Know(h, m, o))
<1> DEFINE WR == h \cup {"Reads", "Writes"}
           W1 == h \cup {"Writes"}
           k0 == Know(h \cup Inputs, m, o)
           k1 == Know(WR, m, o)
           k2 == Know(W1, m, o)
           k3 == Know(h, m, o)
<1>1. /\ h \cup Inputs \subseteq Names /\ WR \subseteq Names /\ W1 \subseteq Names
      /\ (h \cup Inputs) \ {"Domain"} = WR /\ WR \ {"Reads"} = W1 /\ W1 \ {"Writes"} = h
      /\ "Domain" \in h \cup Inputs /\ "Reads" \in WR /\ "Writes" \in W1
      /\ "Domain" \in Names /\ "Reads" \in Names /\ "Writes" \in Names
    BY DEF Names, Inputs
<1> HIDE DEF WR, W1
<1>2. Turns(Free("Domain"), k0, k1) /\ Turns(Free("Reads"), k1, k2) /\ Turns(Free("Writes"), k2, k3)
    BY <1>1, FreeTurns
<1>3. k0 \in Knowledge /\ k1 \in Knowledge /\ k2 \in Knowledge /\ k3 \in Knowledge
    BY <1>1, KnowTyped
<1>4. Free("Domain") \in Calls /\ Free("Reads") \in Calls /\ Free("Writes") \in Calls
    BY <1>1, CallsTyped
<1> HIDE DEF k0, k1, k2, k3
<1>5. Runs(GiveUp, k0, k3)
    BY <1>2, <1>3, <1>4, RunsThree DEF GiveUp
<1>. QED BY <1>5 DEF k0, k3

\* The conflicts are united, and those in the order of the nest are Deps.
UnionCalls ==
    <<Call("Conflicts", <<"WW", "WR">>), Call("Conflicts", <<"Conflicts", "RW">>),
      Read("Before"), Call("Deps", <<"Conflicts", "Before">>)>>

LEMMA UnionRuns ==
    Runs(UnionCalls, Know(Inputs \cup {"WW", "WR", "RW"}, {"WW", "WR", "RW"}, TRUE),
                     Know({"Deps"} \cup Inputs, {"Deps"}, FALSE))
<1> DEFINE P == {"WW", "WR", "RW"}
           Q == {"Conflicts", "RW"}
           R == {"Conflicts"}
           S == {"Conflicts", "Before"}
           k0 == Know(Inputs \cup P, P, TRUE)
           k1 == Know(Inputs \cup Q, Q, TRUE)
           k2 == Know(Inputs \cup R, R, TRUE)
           k3 == Know(Inputs \cup S, S, TRUE)
           k4 == Know({"Deps"} \cup Inputs, {"Deps"}, FALSE)
<1>1. /\ P \subseteq Names /\ Q \subseteq Names /\ R \subseteq Names /\ S \subseteq Names
      /\ Inputs \cup P \subseteq Names /\ Inputs \cup Q \subseteq Names /\ Inputs \cup R \subseteq Names
      /\ Inputs \cup S \subseteq Names /\ {"Deps"} \cup Inputs \subseteq Names /\ {"Deps"} \subseteq Names
      /\ P \cup Q \cup S \cup {"Deps"} \subseteq Names
    BY DEF Names, Inputs
<1>2. Turns(Call("Conflicts", <<"WW", "WR">>), k0, k1)
  <2>1. ((Inputs \cup P) \ {"WW", "WR"}) \cup {"Conflicts"} = Inputs \cup Q
      BY DEF Inputs
  <2>2. /\ "Conflicts" \notin (Inputs \cup P) \ {"WW", "WR"} /\ "Conflicts" \in Q
        /\ \A u \in P : (u \in Q /\ u # "Conflicts") \/ u \in {"WW", "WR"}
        /\ "WW" \in Inputs \cup P /\ "WR" \in Inputs \cup P
        /\ "Conflicts" \in Names /\ "WW" \in Names /\ "WR" \in Names
      BY DEF Inputs, Names
  <2> HIDE DEF P, Q
  <2>3. Turns(Call("Conflicts", <<"WW", "WR">>), k0, Know(((Inputs \cup P) \ {"WW", "WR"}) \cup {"Conflicts"}, Q, TRUE))
      BY <1>1, <2>2, CallTwoTurns
  <2>. QED BY <2>1, <2>3
<1>3. Turns(Call("Conflicts", <<"Conflicts", "RW">>), k1, k2)
  <2>1. ((Inputs \cup Q) \ {"Conflicts", "RW"}) \cup {"Conflicts"} = Inputs \cup R
      BY DEF Inputs
  <2>2. /\ "Conflicts" \notin (Inputs \cup Q) \ {"Conflicts", "RW"} /\ "Conflicts" \in R
        /\ \A u \in Q : (u \in R /\ u # "Conflicts") \/ u \in {"Conflicts", "RW"}
        /\ "Conflicts" \in Inputs \cup Q /\ "RW" \in Inputs \cup Q
        /\ "Conflicts" \in Names /\ "RW" \in Names
      BY DEF Inputs, Names
  <2> HIDE DEF Q, R
  <2>3. Turns(Call("Conflicts", <<"Conflicts", "RW">>), k1, Know(((Inputs \cup Q) \ {"Conflicts", "RW"}) \cup {"Conflicts"}, R, TRUE))
      BY <1>1, <2>2, CallTwoTurns
  <2>. QED BY <2>1, <2>3
<1>4. Turns(Read("Before"), k2, k3)
  <2>1. Inputs \cup S = (Inputs \cup R) \cup {"Before"}
      OBVIOUS
  <2>2. /\ "Before" \notin Inputs \cup R /\ "Before" \in S /\ R \subseteq S \ {"Before"}
        /\ "Before" \in Names
      BY DEF Inputs, Names
  <2> HIDE DEF R, S
  <2>. QED BY <1>1, <2>1, <2>2, ReadTurns
<1>5. Turns(Call("Deps", <<"Conflicts", "Before">>), k3, k4)
  <2>1. ((Inputs \cup S) \ {"Conflicts", "Before"}) \cup {"Deps"} = {"Deps"} \cup Inputs
      BY DEF Inputs
  <2>2. /\ "Deps" \notin (Inputs \cup S) \ {"Conflicts", "Before"} /\ "Deps" \in {"Deps"}
        /\ \A u \in S : u \in {"Conflicts", "Before"}
        /\ "Conflicts" \in Inputs \cup S /\ "Before" \in Inputs \cup S
        /\ "Conflicts" \in Names /\ "Before" \in Names /\ "Deps" \in Names
      BY DEF Inputs, Names
  <2> HIDE DEF S
  <2>3. Turns(Call("Deps", <<"Conflicts", "Before">>), k3, Know(((Inputs \cup S) \ {"Conflicts", "Before"}) \cup {"Deps"}, {"Deps"}, FALSE))
      BY <1>1, <2>2, CallTwoTurns
  <2>. QED BY <2>1, <2>3
<1>6. k0 \in Knowledge /\ k1 \in Knowledge /\ k2 \in Knowledge /\ k3 \in Knowledge /\ k4 \in Knowledge
  <2>1. \A x, y : \A o \in BOOLEAN : x \subseteq Names /\ y \subseteq Names => Know(x, y, o) \in Knowledge
      BY KnowTyped
  <2> HIDE DEF P, Q, R, S
  <2>. QED BY <1>1, <2>1
<1>7. /\ Call("Conflicts", <<"WW", "WR">>) \in Calls /\ Call("Conflicts", <<"Conflicts", "RW">>) \in Calls
      /\ Read("Before") \in Calls /\ Call("Deps", <<"Conflicts", "Before">>) \in Calls
    BY CallsTyped DEF Names
<1> HIDE DEF k0, k1, k2, k3, k4
<1>8. Runs(UnionCalls, k0, k4)
    BY <1>2, <1>3, <1>4, <1>5, <1>6, <1>7, RunsFour DEF UnionCalls
<1>. QED BY <1>8 DEF k0, k4

\* getDependencies from its first call to its last.
AfterDependencies == Know({"Deps"}, {"Deps"}, FALSE)

LEMMA GetDependenciesRun == Runs(GetDependencies, Know({}, {}, TRUE), AfterDependencies)
<1> DEFINE A == Know(Inputs, {"Reads", "Writes"}, TRUE)
           B == Know(Inputs \cup {"WW"}, {"Reads", "Writes", "WW"}, TRUE)
           C == Know(Inputs \cup {"WW", "WR"}, {"Reads", "Writes", "WW", "WR"}, TRUE)
           D == Know(Inputs \cup {"WW", "WR", "RW"}, {"WW", "WR", "RW"}, TRUE)
           E == Know({"Deps"} \cup Inputs, {"Deps"}, FALSE)
<1>1. Runs(InputCalls, Know({}, {}, TRUE), A)
    BY InputsRun
<1>2. Runs(Intersected("Reads"), A, A) /\ Runs(Intersected("Writes"), A, A)
    BY IntersectedRuns
<1>3. Runs(Pairs("WW", "Writes", "Writes"), A, B)
  <2> DEFINE K == {"Reads", "Writes"}
  <2>1. K \cup {"Writes", "Writes"} = K /\ K \cup {"WW"} = {"Reads", "Writes", "WW"}
      OBVIOUS
  <2>2. K \subseteq {"Reads", "Writes", "WW", "WR", "RW"} \ {"WW"} /\ "WW" \notin Inputs
        /\ Inputs \subseteq Inputs \cup {"WW", "WR", "RW"} /\ Inputs \subseteq Inputs
      BY DEF Inputs
  <2> HIDE DEF K
  <2>3. Runs(Pairs("WW", "Writes", "Writes"), Know(Inputs, K \cup {"Writes", "Writes"}, TRUE),
                                              Know(Inputs \cup {"WW"}, K \cup {"WW"}, TRUE))
      BY <2>2, PairsRun
  <2>. QED BY <2>1, <2>3 DEF K
<1>4. Runs(Pairs("WR", "Writes", "Reads"), B, C)
  <2> DEFINE K == {"Reads", "Writes", "WW"}
             h == Inputs \cup {"WW"}
  <2>1. K \cup {"Writes", "Reads"} = K /\ K \cup {"WR"} = {"Reads", "Writes", "WW", "WR"}
        /\ h \cup {"WR"} = Inputs \cup {"WW", "WR"}
      OBVIOUS
  <2>2. K \subseteq {"Reads", "Writes", "WW", "WR", "RW"} \ {"WR"} /\ "WR" \notin h
        /\ h \subseteq Inputs \cup {"WW", "WR", "RW"} /\ Inputs \subseteq h
      BY DEF Inputs
  <2> HIDE DEF K, h
  <2>3. Runs(Pairs("WR", "Writes", "Reads"), Know(h, K \cup {"Writes", "Reads"}, TRUE),
                                             Know(h \cup {"WR"}, K \cup {"WR"}, TRUE))
      BY <2>2, PairsRun
  <2>. QED BY <2>1, <2>3 DEF K, h
<1>5. Runs(Pairs("RW", "Reads", "Writes"), C, D)
  <2> DEFINE K == {"WW", "WR"}
             h == Inputs \cup {"WW", "WR"}
  <2>1. K \cup {"Reads", "Writes"} = {"Reads", "Writes", "WW", "WR"}
        /\ K \cup {"RW"} = {"WW", "WR", "RW"} /\ h \cup {"RW"} = Inputs \cup {"WW", "WR", "RW"}
      OBVIOUS
  <2>2. K \subseteq {"Reads", "Writes", "WW", "WR", "RW"} \ {"RW"} /\ "RW" \notin h
        /\ h \subseteq Inputs \cup {"WW", "WR", "RW"} /\ Inputs \subseteq h
      BY DEF Inputs
  <2> HIDE DEF K, h
  <2>3. Runs(Pairs("RW", "Reads", "Writes"), Know(h, K \cup {"Reads", "Writes"}, TRUE),
                                             Know(h \cup {"RW"}, K \cup {"RW"}, TRUE))
      BY <2>2, PairsRun
  <2>. QED BY <2>1, <2>3 DEF K, h
<1>6. Runs(UnionCalls, D, E)
    BY UnionRuns
<1>7. Runs(GiveUp, E, AfterDependencies)
    BY FreesRun DEF Names, Inputs, AfterDependencies
<1> DEFINE last == <<Call("Conflicts", <<"WW", "WR">>), Call("Conflicts", <<"Conflicts", "RW">>),
                     Read("Before"), Call("Deps", <<"Conflicts", "Before">>),
                     Free("Domain"), Free("Reads"), Free("Writes")>>
<1>8. last = UnionCalls \o GiveUp
    BY DEF UnionCalls, GiveUp
<1> HIDE DEF last, A, B, C, D, E
<1>9. Runs(last, D, AfterDependencies)
    BY <1>6, <1>7, <1>8, RunsBoth
<1>10. GetDependencies = InputCalls \o Intersected("Reads") \o Intersected("Writes")
          \o Pairs("WW", "Writes", "Writes") \o Pairs("WR", "Writes", "Reads")
          \o Pairs("RW", "Reads", "Writes") \o last
    BY DEF GetDependencies, InputCalls, last
<1> DEFINE k0 == Know({}, {}, TRUE)
           s1 == InputCalls \o Intersected("Reads")
           s2 == s1 \o Intersected("Writes")
           s3 == s2 \o Pairs("WW", "Writes", "Writes")
           s4 == s3 \o Pairs("WR", "Writes", "Reads")
           s5 == s4 \o Pairs("RW", "Reads", "Writes")
<1> HIDE DEF k0
<1>11. Runs(s1, k0, A)
    BY <1>1, <1>2, RunsBoth DEF k0
<1> HIDE DEF s1
<1>12. Runs(s2, k0, A)
    BY <1>2, <1>11, RunsBoth
<1> HIDE DEF s2
<1>13. Runs(s3, k0, B)
    BY <1>3, <1>12, RunsBoth
<1> HIDE DEF s3
<1>14. Runs(s4, k0, C)
    BY <1>4, <1>13, RunsBoth
<1> HIDE DEF s4
<1>15. Runs(s5, k0, D)
    BY <1>5, <1>14, RunsBoth
<1> HIDE DEF s5
<1>16. Runs(s5 \o last, k0, AfterDependencies)
    BY <1>9, <1>15, RunsBoth
<1>. QED BY <1>10, <1>16 DEF k0, s1, s2, s3, s4, s5

\* The early return of getDependencies.
LEMMA GiveUpRuns == Runs(GiveUp, Know(Inputs, {"Deps"}, TRUE), Know({}, {"Deps"}, TRUE))
<1>1. {} \cup Inputs = Inputs /\ {} \cap Inputs = {} /\ {} \subseteq Names /\ {"Deps"} \subseteq Names
    BY DEF Names
<1>. QED BY <1>1, FreesRun

\* One iteration of isTilingLegal, and the free of Deps.
LEMMA NegativeDistancesRun ==
    Runs(NegativeDistances, Know({"Deps"}, {}, FALSE), Know({"Deps", "Violations"}, {"Violations"}, FALSE))
<1> DEFINE D1 == {"Deps", "NegativeDist"}
           D2 == {"Deps", "NegativeDist", "W"}
           D3 == {"Deps", "Violations"}
           N1 == {"NegativeDist"}
           k0 == Know({"Deps"}, {}, FALSE)
           k1 == Know(D1, N1, FALSE)
           k2 == Know(D2, N1, FALSE)
           k3 == Know(D3, {"Violations"}, FALSE)
<1>1. /\ {"Deps"} \subseteq Names /\ D1 \subseteq Names /\ D2 \subseteq Names /\ D3 \subseteq Names
      /\ N1 \subseteq Names /\ {"Violations"} \subseteq Names
      /\ {"Deps", "NegativeDist", "W", "Violations"} \subseteq Names
    BY DEF Names
<1>2. Turns(Read("NegativeDist"), k0, k1)
  <2>1. /\ D1 = {"Deps"} \cup {"NegativeDist"} /\ "NegativeDist" \notin {"Deps"}
        /\ {} \subseteq N1 \ {"NegativeDist"} /\ "NegativeDist" \in N1
      OBVIOUS
  <2> HIDE DEF D1, N1
  <2>. QED BY <1>1, <2>1, ReadTurns
<1>3. Turns(Copy("W", "Deps"), k1, k2)
  <2>1. /\ D2 = D1 \cup {"W"} /\ "W" \notin D1 /\ "Deps" \in D1
        /\ \A u \in N1 : u \in N1 /\ u # "W"
      OBVIOUS
  <2> HIDE DEF D1, D2, N1
  <2>. QED BY <1>1, <2>1, CopyTurns
<1>4. Turns(Call("Violations", <<"W", "NegativeDist">>), k2, k3)
  <2>1. /\ D3 = (D2 \ {"W", "NegativeDist"}) \cup {"Violations"}
        /\ "W" \in D2 /\ "NegativeDist" \in D2 /\ "Violations" \notin D2 \ {"W", "NegativeDist"}
        /\ \A u \in N1 : u \in {"W", "NegativeDist"}
      OBVIOUS
  <2> HIDE DEF D2, D3, N1
  <2>. QED BY <1>1, <2>1, CallTwoTurns
<1>5. k0 \in Knowledge /\ k1 \in Knowledge /\ k2 \in Knowledge /\ k3 \in Knowledge
  <2>1. \A x, y : x \subseteq Names /\ y \subseteq Names => Know(x, y, FALSE) \in Knowledge
      BY KnowTyped
  <2> HIDE DEF D1, D2, D3, N1
  <2>. QED BY <1>1, <2>1
<1>6. /\ Read("NegativeDist") \in Calls /\ Copy("W", "Deps") \in Calls
      /\ Call("Violations", <<"W", "NegativeDist">>) \in Calls
    BY <1>1, CallsTyped
<1> HIDE DEF k0, k1, k2, k3
<1>7. Runs(NegativeDistances, k0, k3)
    BY <1>2, <1>3, <1>4, <1>5, <1>6, RunsThree DEF NegativeDistances
<1>. QED BY <1>7 DEF k0, k3

LEMMA AnsweredRuns ==
    Runs(Answered, Know({"Deps", "Violations"}, {"Violations"}, FALSE), Know({"Deps"}, {"Violations"}, FALSE))
<1> DEFINE V == {"Violations"}
           D == {"Deps", "Violations"}
<1>1. /\ D \subseteq Names /\ V \subseteq Names /\ "Violations" \in Names /\ "Violations" \in D
      /\ D \ {"Violations"} = {"Deps"} /\ {"Deps"} \subseteq Names
    BY DEF Names
<1> HIDE DEF V, D
<1>2. Turns(Free("Violations"), Know(D, V, FALSE), Know({"Deps"}, V, FALSE))
    BY <1>1, FreeTurns
<1>3. /\ Know(D, V, FALSE) \in Knowledge /\ Know({"Deps"}, V, FALSE) \in Knowledge
      /\ Free("Violations") \in Calls
    BY <1>1, KnowTyped, CallsTyped
<1>4. Runs(Answered, Know(D, V, FALSE), Know({"Deps"}, V, FALSE))
    BY <1>2, <1>3, RunsOne DEF Answered
<1>. QED BY <1>4 DEF V, D

LEMMA FreeDepsRuns == Runs(<<Free("Deps")>>, Know({"Deps"}, {}, FALSE), Know({}, {}, FALSE))
<1>1. "Deps" \in Names /\ {"Deps"} \subseteq Names /\ {"Deps"} \ {"Deps"} = {} /\ {} \subseteq Names
    BY DEF Names
<1>2. Turns(Free("Deps"), Know({"Deps"}, {}, FALSE), Know({}, {}, FALSE))
    BY <1>1, FreeTurns
<1>. QED BY <1>1, <1>2, KnowTyped, CallsTyped, RunsOne

-----------------------------------------------------------------------------
(* References.                                                               *)

\* The variables among h that point to object o.
Holders(e, h, o) == {v \in h : e[v] = o}

\* Only W and R are assigned what other variables point to.
Pointers(e) ==
    /\ e \in [Names -> Names \cup {Null}]
    /\ \A v \in Names \ {"W", "R"} : e[v] \in {v, Null}

\* An object has one reference for each variable that owns one.
Counted(h) == \A o \in Names : refs[o] = Cardinality(Holders(env, h, o))

\* A failure is on its way to the result.
Broken(m) == \E v \in m : env[v] = Null

\* At most three variables point to an object.
LEMMA HoldersFew ==
    ASSUME NEW e, Pointers(e), NEW h, h \subseteq Names, NEW o \in Names
    PROVE  /\ IsFiniteSet(Holders(e, h, o))
           /\ Cardinality(Holders(e, h, o)) \in 0 .. 3
<1> DEFINE S == ({o} \cup {"W"}) \cup {"R"}
<1>1. Holders(e, h, o) \in SUBSET S
  <2>1. o # Null
      BY DEF Null, Names, Inputs
  <2>. QED BY <2>1 DEF Holders, Pointers
<1>2. IsFiniteSet({o}) /\ Cardinality({o}) = 1
    BY FS_Singleton
<1>3. IsFiniteSet({o} \cup {"W"}) /\ Cardinality({o} \cup {"W"}) \in 1 .. 2
    BY <1>2, FS_AddElement
<1>4. IsFiniteSet(S) /\ Cardinality(S) \in 1 .. 3
    BY <1>3, FS_AddElement
<1> HIDE DEF S
<1>5. /\ IsFiniteSet(Holders(e, h, o))
      /\ Cardinality(Holders(e, h, o)) <= Cardinality(S)
    BY <1>1, <1>4, FS_Subset
<1>6. Cardinality(Holders(e, h, o)) \in Nat
    BY <1>5, FS_CardinalityType
<1>. QED BY <1>4, <1>5, <1>6

\* What is left after a call has taken its arguments.
LEMMA TakenCount ==
    ASSUME Pointers(env), NEW c \in Calls, NEW h, h \subseteq Names,
           Arguments(c) \subseteq h,
           \A k, l \in DOMAIN c.from : c.from[k] = c.from[l] => k = l,
           Counted(h), NEW o \in Names
    PROVE  Taken(c.from)[o] = Cardinality(Holders(env, h \ Arguments(c), o))
<1> DEFINE Q == {k \in DOMAIN c.from : env[c.from[k]] = o}
           T == Holders(env, Arguments(c), o)
           f == [k \in Q |-> c.from[k]]
<1>1. f \in Bijection(Q, T)
  <2>1. f \in [Q -> T]
      BY DEF Holders, Arguments
  <2>2. f \in Injection(Q, T)
      BY <2>1 DEF Injection, IsInjective
  <2>3. \A t \in T : \E k \in Q : f[k] = t
      BY DEF Holders, Arguments
  <2>. QED BY <2>1, <2>2, <2>3 DEF Bijection, Surjection
<1>2. IsFiniteSet(Q)
  <2>1. c.from \in Seq(Names)
      BY DEF Calls
  <2>2. Len(c.from) \in Nat /\ DOMAIN c.from = 1 .. Len(c.from)
      BY <2>1
  <2>3. Q \in SUBSET (1 .. Len(c.from))
      BY <2>2
  <2>4. IsFiniteSet(1 .. Len(c.from))
    <3>1. 1 \in Int /\ Len(c.from) \in Int
        BY <2>2
    <3>. QED BY <3>1, FS_Interval
  <2> HIDE DEF Q
  <2>. QED BY <2>3, <2>4, FS_Subset
<1>3. Cardinality(T) = Cardinality(Q)
    BY <1>1, <1>2, FS_Bijection DEF ExistsBijection
<1>4. /\ Holders(env, h \ Arguments(c), o) = Holders(env, h, o) \ T
      /\ Holders(env, h, o) \cap T = T
    BY DEF Holders
<1>5. IsFiniteSet(Holders(env, h, o))
    BY HoldersFew
<1>6. Cardinality(Holders(env, h, o) \ T) = Cardinality(Holders(env, h, o)) - Cardinality(T)
  <2> DEFINE S == Holders(env, h, o)
  <2>1. IsFiniteSet(S) /\ S \cap T = T
      BY <1>4, <1>5
  <2> HIDE DEF S, T
  <2>2. Cardinality(S \ T) = Cardinality(S) - Cardinality(S \cap T)
      BY <2>1, FS_Difference
  <2>3. Cardinality(S \ T) = Cardinality(S) - Cardinality(T)
      BY <2>1, <2>2
  <2>. QED BY <2>3 DEF S
<1>7. Taken(c.from)[o] = refs[o] - Cardinality(Q)
    BY DEF Taken
<1>. QED BY <1>3, <1>4, <1>6, <1>7 DEF Counted

\* One more variable points to an object, or to another one.
LEMMA HoldersAdd ==
    ASSUME NEW e, Pointers(e), NEW d, Pointers(d), NEW h, h \subseteq Names, NEW v \in Names,
           v \notin h, \A u \in h : d[u] = e[u], NEW o \in Names
    PROVE  Cardinality(Holders(d, h \cup {v}, o)) =
           Cardinality(Holders(e, h, o)) + IF d[v] = o THEN 1 ELSE 0
<1>1. IsFiniteSet(Holders(e, h, o)) /\ Cardinality(Holders(e, h, o)) \in Nat
    BY HoldersFew
<1>2. CASE d[v] = o
  <2>1. Holders(d, h \cup {v}, o) = Holders(e, h, o) \cup {v} /\ v \notin Holders(e, h, o)
      BY <1>2 DEF Holders
  <2>. QED BY <1>1, <1>2, <2>1, FS_AddElement
<1>3. CASE d[v] # o
  <2>1. Holders(d, h \cup {v}, o) = Holders(e, h, o)
      BY <1>3 DEF Holders
  <2>. QED BY <1>1, <1>3, <2>1
<1>. QED BY <1>2, <1>3

\* A variable that owns a reference points to an object that is alive.
LEMMA HeldIsAlive ==
    ASSUME Pointers(env), NEW h, h \subseteq Names, Counted(h), NEW v \in h, env[v] # Null
    PROVE  refs[env[v]] > 0
<1>1. env[v] \in Names
    BY DEF Pointers
<1>2. IsFiniteSet(Holders(env, h, env[v])) /\ Cardinality(Holders(env, h, env[v])) \in Nat
    BY <1>1, HoldersFew
<1>3. Holders(env, h, env[v]) # {}
    BY DEF Holders
<1>4. Cardinality(Holders(env, h, env[v])) # 0
    BY <1>2, <1>3, FS_EmptySet
<1>. QED BY <1>1, <1>2, <1>4 DEF Counted

\* Few references, as TypeOK says.
LEMMA ReferencesAreFew ==
    ASSUME NEW e, Pointers(e), NEW h, h \subseteq Names, NEW r,
           r = [o \in Names |-> r[o]], \A o \in Names : r[o] = Cardinality(Holders(e, h, o))
    PROVE  r \in [Names -> 0 .. 4]
<1>1. \A o \in Names : r[o] \in 0 .. 4
    BY HoldersFew
<1>. QED BY <1>1

-----------------------------------------------------------------------------
(* The invariant.                                                            *)

\* What a phase may still call.
Callable(p) ==
    CASE p = "getDependencies" -> {"read", "copy", "call", "free", "check"}
      [] p = "isTilingLegal"   -> {"read", "copy", "call", "free"}
      [] OTHER                 -> {"free"}

\* What is known when the calls of a phase have been made.
Ending(a, z) ==
    /\ phase = "getDependencies" =>
          /\ z.held \subseteq {"Deps"} /\ z.carriers \subseteq {"Deps"}
          /\ "getDependencies" \in failed \/ z.held = {} => Broken(a.carriers)
    /\ phase = "isTilingLegal" => z.held = {"Deps", "Violations"}
    /\ phase = "asked" => z.held = {"Deps"}
    /\ phase = "decided" => todo = <<>> /\ z.held = {"Deps"}
    /\ phase = "release" => z.held = {}
    /\ phase = "done" => todo = <<>>

\* The calls to make are typed by what is known now, and that is true.
Sound(a, z) ==
    /\ Runs(todo, a, z)
    /\ Counted(a.held)
    /\ a.fresh => env["Deps"] = Null
    /\ Ending(a, z)

LegalHasAll == legal => phase # "getDependencies" /\ "getDependencies" \notin failed

Inv ==
    /\ TypeOK
    /\ Pointers(env)
    /\ LegalHasAll
    /\ \A k \in 1 .. Len(todo) : todo[k].op \in Callable(phase)
    /\ \E a, z \in Knowledge : Sound(a, z)

\* The first call, under the invariant.
LEMMA FirstTurns ==
    ASSUME Inv, todo # <<>>
    PROVE  /\ Head(todo) \in Calls /\ Head(todo).op \in Callable(phase)
           /\ \A k \in 1 .. Len(Tail(todo)) : Tail(todo)[k].op \in Callable(phase)
           /\ \E a, b, z \in Knowledge :
                 Sound(a, z) /\ Turns(Head(todo), a, b) /\ Runs(Tail(todo), b, z)
<1>1. PICK a \in Knowledge, z \in Knowledge : Sound(a, z)
    BY DEF Inv
<1>2. Runs(todo, a, z)
    BY <1>1 DEF Sound
<1>3. /\ Head(todo) \in Calls
      /\ \E b \in Knowledge : Turns(Head(todo), a, b) /\ Runs(Tail(todo), b, z)
    BY <1>2, RunsFirst
<1>4. todo \in Seq(Calls)
    BY <1>2 DEF Runs
<1>5. /\ Len(todo) \in Nat \ {0} /\ Head(todo) = todo[1]
      /\ Len(Tail(todo)) = Len(todo) - 1
      /\ \A k \in 1 .. Len(Tail(todo)) : Tail(todo)[k] = todo[k + 1]
    BY <1>4, EmptySeq, HeadTailProperties
<1>6. /\ Head(todo).op \in Callable(phase)
      /\ \A k \in 1 .. Len(Tail(todo)) : Tail(todo)[k].op \in Callable(phase)
  <2>1. \A k \in 1 .. Len(todo) : todo[k].op \in Callable(phase)
      BY DEF Inv
  <2>. QED BY <1>5, <2>1
<1>. QED BY <1>1, <1>3, <1>6

\* Which call it is tells what it does.
LEMMA TurnsOfOp ==
    ASSUME NEW c, NEW a, NEW b, Turns(c, a, b)
    PROVE  /\ c.op \in {"read", "call"} => Makes(c, a, b)
           /\ c.op = "copy" => Copies(c, a, b)
           /\ c.op = "free" => Frees(c, a, b)
           /\ c.op = "check" => Checks(c, a, b)
BY DEF Turns, Makes, Copies, Frees, Checks, CheckInputs

LEMMA InitInv == ASSUME DepthAssumption, Init PROVE Inv
<1> DEFINE k0 == Know({}, {}, TRUE)
<1>1. k0 \in Knowledge /\ k0.held = {} /\ k0.carriers = {} /\ k0.fresh = TRUE
    BY KnowTyped, ZenonT(60)
<1>2. /\ AfterDependencies \in Knowledge /\ AfterDependencies.held = {"Deps"}
      /\ AfterDependencies.carriers = {"Deps"}
  <2>1. {"Deps"} \subseteq Names
      BY DEF Names
  <2>. QED BY <2>1, KnowTyped, ZenonT(60) DEF AfterDependencies
<1> HIDE DEF k0
<1>3. Runs(todo, k0, AfterDependencies)
    BY GetDependenciesRun DEF Init, k0
<1>4. "Deps" \in Names /\ env["Deps"] = Null /\ env \in [Names -> Names \cup {Null}]
    BY DEF Init, Names
<1>5. Counted(k0.held)
  <2>1. \A o \in Names : Holders(env, k0.held, o) = {} /\ refs[o] = 0
      BY <1>1 DEF Holders, Init
  <2>. QED BY <2>1, FS_EmptySet DEF Counted
<1>6. Ending(k0, AfterDependencies)
    BY <1>2 DEF Ending, Init
<1>7. TypeOK
  <2>1. refs \in [Names -> 0 .. 4] /\ loop \in 1 .. Depth
      BY DEF Init, DepthAssumption
  <2>2. legal \in BOOLEAN /\ failed \subseteq {"getDependencies", "isTilingLegal"}
      BY DEF Init
  <2>. QED BY <1>4, <2>1, <2>2 DEF Init, TypeOK
<1>8. Pointers(env)
    BY <1>4 DEF Init, Pointers
<1>9. \A k \in 1 .. Len(todo) : todo[k].op \in Callable(phase)
  <2>1. todo \in Seq(Calls)
      BY <1>3 DEF Runs
  <2>2. \A k \in 1 .. Len(todo) : todo[k] \in Calls
      BY <2>1
  <2>3. \A c \in Calls : c.op \in {"read", "copy", "call", "free", "check"}
      BY DEF Calls
  <2>4. Callable(phase) = {"read", "copy", "call", "free", "check"}
      BY DEF Callable, Init
  <2>. QED BY <2>2, <2>3, <2>4
<1>10. LegalHasAll
    BY DEF Init, LegalHasAll
<1>. QED BY <1>1, <1>2, <1>3, <1>4, <1>5, <1>6, <1>7, <1>8, <1>9, <1>10 DEF Inv, Sound

LEMMA MakeInv == ASSUME DepthAssumption, Inv, MakeObject PROVE Inv'
<1> DEFINE c == Head(todo)
<1>1. todo # <<>> /\ c.op \in {"read", "call"}
    BY DEF MakeObject, First
<1>2. /\ c \in Calls /\ c.op \in Callable(phase)
      /\ \A k \in 1 .. Len(Tail(todo)) : Tail(todo)[k].op \in Callable(phase)
    BY <1>1, FirstTurns
<1>3. PICK a \in Knowledge, b \in Knowledge, z \in Knowledge :
         Sound(a, z) /\ Turns(c, a, b) /\ Runs(Tail(todo), b, z)
    BY <1>1, FirstTurns
<1>4. PICK result \in Results(c) :
         /\ env' = [env EXCEPT ![c.to] = result]
         /\ refs' = [o \in Names |-> Taken(c.from)[o] + IF o = result THEN 1 ELSE 0]
         /\ failed' = IF IsFailure(c, result) THEN failed \cup {phase} ELSE failed
    BY DEF MakeObject
<1>5. todo' = Tail(todo) /\ UNCHANGED <<phase, loop, legal>>
    BY DEF MakeObject
<1>6. Makes(c, a, b)
    BY <1>1, <1>3, TurnsOfOp
<1> HIDE DEF c
<1> DEFINE h == a.held \ Arguments(c)
<1>7. /\ a.held \subseteq Names /\ h \subseteq Names /\ b.held \subseteq Names
      /\ a.carriers \subseteq Names /\ b.carriers \subseteq Names
      /\ a.fresh \in BOOLEAN /\ b.fresh \in BOOLEAN
    BY DEF Knowledge
<1>8. c.to \in Names /\ c.to \notin h /\ b.held = h \cup {c.to}
    BY <1>2, <1>6 DEF Calls, Makes
<1>9. Pointers(env) /\ TypeOK
    BY DEF Inv
<1>10. result \in {Null, c.to}
    BY <1>4 DEF Results
<1>11. env'[c.to] = result /\ \A u \in Names \ {c.to} : env'[u] = env[u]
    BY <1>4, <1>8, <1>9 DEF TypeOK
<1>12. Pointers(env')
  <2>1. env' \in [Names -> Names \cup {Null}]
      BY <1>4, <1>8, <1>9, <1>10 DEF TypeOK
  <2>. QED BY <1>9, <1>10, <1>11, <2>1 DEF Pointers
<1>13. ASSUME NEW o \in Names PROVE refs'[o] = Cardinality(Holders(env', b.held, o))
  <2>1. Taken(c.from)[o] = Cardinality(Holders(env, h, o))
    <3>1. /\ Arguments(c) \subseteq a.held /\ Counted(a.held)
          /\ \A k, l \in DOMAIN c.from : c.from[k] = c.from[l] => k = l
        BY <1>3, <1>6 DEF Sound, Makes
    <3>. QED BY <1>2, <1>7, <1>9, <3>1, TakenCount
  <2> HIDE DEF h
  <2>2. \A u \in h : env'[u] = env[u]
      BY <1>7, <1>8, <1>11
  <2>3. Cardinality(Holders(env', h \cup {c.to}, o)) =
        Cardinality(Holders(env, h, o)) + IF env'[c.to] = o THEN 1 ELSE 0
      BY <1>7, <1>8, <1>9, <1>12, <2>2, HoldersAdd
  <2>. QED BY <1>4, <1>8, <1>11, <2>1, <2>3
<1>14. Broken(a.carriers) \/ (IsFailure(c, result) /\ phase = "getDependencies") => Broken(b.carriers)'
  <2>1. c.to \in b.carriers
      BY <1>6 DEF Makes
  <2>2. CASE result = Null
      BY <1>11, <2>1, <2>2 DEF Broken
  <2>3. CASE result # Null
    <3>1. ~ SomeNull(c.from) /\ ~ IsFailure(c, result)
        BY <1>4, <2>3 DEF Results, IsFailure
    <3>2. ASSUME NEW u \in a.carriers, env[u] = Null PROVE Broken(b.carriers)'
      <4>1. u \notin Arguments(c)
          BY <3>1, <3>2 DEF SomeNull, Arguments
      <4>2. u \in b.carriers /\ u # c.to
          BY <1>6, <4>1 DEF Makes, Carried
      <4>3. env'[u] = Null
          BY <1>7, <1>11, <3>2, <4>2
      <4>. QED BY <4>2, <4>3 DEF Broken
    <3>. QED BY <3>1, <3>2 DEF Broken
  <2>. QED BY <2>2, <2>3
<1>15. phase \in {"getDependencies", "isTilingLegal"}
  <2>1. c.op # "free"
      BY <1>1 DEF c
  <2>. QED BY <1>2, <2>1 DEF Callable
<1>16. TypeOK'
  <2>1. refs' \in [Names -> 0 .. 4]
    <3>1. refs' = [o \in Names |-> refs'[o]]
        BY <1>4
    <3>. QED BY <1>7, <1>12, <1>13, <3>1, ReferencesAreFew
  <2>2. failed' \subseteq {"getDependencies", "isTilingLegal"}
      BY <1>4, <1>9, <1>15 DEF TypeOK
  <2>3. env' \in [Names -> Names \cup {Null}]
      BY <1>12 DEF Pointers
  <2>. QED BY <1>5, <1>9, <2>1, <2>2, <2>3 DEF TypeOK
<1>17. Ending(a, z) /\ Counted(a.held) /\ (a.fresh => env["Deps"] = Null)
    BY <1>3 DEF Sound
<1>18. Ending(b, z)'
  <2>1. phase # "decided" /\ phase # "done" /\ phase # "release" /\ phase # "asked"
      BY <1>15
  <2>2. phase = "getDependencies" =>
          /\ z.held \subseteq {"Deps"} /\ z.carriers \subseteq {"Deps"}
          /\ "getDependencies" \in failed' \/ z.held = {} => Broken(b.carriers)'
      BY <1>4, <1>14, <1>17 DEF Ending
  <2>3. phase = "isTilingLegal" => z.held = {"Deps", "Violations"}
      BY <1>17 DEF Ending
  <2>. QED BY <1>5, <2>1, <2>2, <2>3 DEF Ending
<1>19. Counted(b.held)'
    BY <1>13 DEF Counted
<1>20. b.fresh => env'["Deps"] = Null
  <2>1. "Deps" \in Names
      BY DEF Names
  <2>. QED BY <1>6, <1>11, <1>17, <2>1 DEF Makes
<1>21. Sound(b, z)'
    BY <1>3, <1>5, <1>18, <1>19, <1>20 DEF Sound
<1>22. LegalHasAll'
    BY <1>4, <1>5, <1>15 DEF Inv, LegalHasAll
<1>23. \A k \in 1 .. Len(todo') : todo'[k].op \in Callable(phase')
    BY <1>2, <1>5
<1>24. Callable(phase)' = Callable(phase')
    BY DEF Callable
<1>. QED BY <1>12, <1>16, <1>21, <1>22, <1>23, <1>24 DEF Inv, Pointers

LEMMA CopyInv == ASSUME DepthAssumption, Inv, CopyObject PROVE Inv'
<1> DEFINE c == Head(todo)
           x == c.from[1]
<1>1. todo # <<>> /\ c.op = "copy"
    BY DEF CopyObject, First
<1>2. /\ c \in Calls
      /\ \A k \in 1 .. Len(Tail(todo)) : Tail(todo)[k].op \in Callable(phase)
    BY <1>1, FirstTurns
<1>3. PICK a \in Knowledge, b \in Knowledge, z \in Knowledge :
         Sound(a, z) /\ Turns(c, a, b) /\ Runs(Tail(todo), b, z)
    BY <1>1, FirstTurns
<1>4. /\ env' = [env EXCEPT ![c.to] = env[x]]
      /\ refs' = [o \in Names |-> refs[o] + IF o = env[x] THEN 1 ELSE 0]
      /\ todo' = Tail(todo) /\ UNCHANGED <<phase, loop, legal, failed>>
    BY DEF CopyObject
<1>5. Copies(c, a, b)
    BY <1>1, <1>3, TurnsOfOp
<1> HIDE DEF c
<1>6. /\ a.held \subseteq Names /\ b.held \subseteq Names
      /\ a.carriers \subseteq Names /\ b.carriers \subseteq Names
      /\ a.fresh \in BOOLEAN /\ b.fresh \in BOOLEAN
    BY DEF Knowledge
<1>7. /\ c.to \in Names /\ c.to \in {"W", "R"} /\ c.to \notin a.held
      /\ x \in a.held /\ b.held = a.held \cup {c.to}
    BY <1>2, <1>5 DEF Calls, Copies
<1>8. Arguments(c) = {x}
  <2>1. c.from \in Seq(Names)
      BY <1>2 DEF Calls
  <2>2. DOMAIN c.from = {1}
      BY <1>5, <2>1 DEF Copies
  <2>. QED BY <2>2 DEF Arguments
<1> HIDE DEF x
<1>9. Pointers(env) /\ TypeOK
    BY DEF Inv
<1>10. env'[c.to] = env[x] /\ \A u \in Names \ {c.to} : env'[u] = env[u]
    BY <1>4, <1>7, <1>9 DEF TypeOK
<1>11. Pointers(env')
  <2>1. env[x] \in Names \cup {Null}
      BY <1>6, <1>7, <1>9 DEF TypeOK
  <2>2. env' \in [Names -> Names \cup {Null}]
      BY <1>4, <1>7, <1>9, <2>1 DEF TypeOK
  <2>. QED BY <1>7, <1>9, <1>10, <2>2 DEF Pointers
<1>12. ASSUME NEW o \in Names PROVE refs'[o] = Cardinality(Holders(env', b.held, o))
  <2>1. refs[o] = Cardinality(Holders(env, a.held, o))
      BY <1>3 DEF Sound, Counted
  <2>2. \A u \in a.held : env'[u] = env[u]
      BY <1>6, <1>7, <1>10
  <2>3. Cardinality(Holders(env', a.held \cup {c.to}, o)) =
        Cardinality(Holders(env, a.held, o)) + IF env'[c.to] = o THEN 1 ELSE 0
      BY <1>6, <1>7, <1>9, <1>11, <2>2, HoldersAdd
  <2>. QED BY <1>4, <1>7, <1>10, <2>1, <2>3
<1>13. Broken(a.carriers) => Broken(b.carriers)'
  <2>1. ASSUME NEW u \in a.carriers, env[u] = Null PROVE Broken(b.carriers)'
    <3>1. CASE u \in b.carriers /\ u # c.to
        BY <1>6, <1>10, <2>1, <3>1 DEF Broken
    <3>2. CASE u = x /\ c.to \in b.carriers
        BY <1>10, <2>1, <3>2 DEF Broken
    <3>. QED BY <1>5, <1>8, <3>1, <3>2 DEF Copies, Carried
  <2>. QED BY <2>1 DEF Broken
<1>14. TypeOK'
  <2>1. refs' \in [Names -> 0 .. 4]
    <3>1. refs' = [o \in Names |-> refs'[o]]
        BY <1>4
    <3>. QED BY <1>6, <1>11, <1>12, <3>1, ReferencesAreFew
  <2>2. env' \in [Names -> Names \cup {Null}]
      BY <1>11 DEF Pointers
  <2>. QED BY <1>4, <1>9, <2>1, <2>2 DEF TypeOK
<1>15. Ending(a, z) /\ (a.fresh => env["Deps"] = Null)
    BY <1>3 DEF Sound
<1>16. Ending(b, z)'
  <2>1. phase # "decided" /\ phase # "done"
      BY <1>1, <1>15 DEF Ending
  <2>. QED BY <1>4, <1>13, <1>15, <2>1 DEF Ending
<1>17. Counted(b.held)'
    BY <1>12 DEF Counted
<1>18. b.fresh => env'["Deps"] = Null
  <2>1. "Deps" \in Names
      BY DEF Names
  <2>. QED BY <1>5, <1>7, <1>10, <1>15, <2>1 DEF Copies
<1>19. Sound(b, z)'
    BY <1>3, <1>4, <1>16, <1>17, <1>18 DEF Sound
<1>20. LegalHasAll'
    BY <1>4 DEF Inv, LegalHasAll
<1>21. \A k \in 1 .. Len(todo') : todo'[k].op \in Callable(phase')
    BY <1>2, <1>4
<1>22. Callable(phase)' = Callable(phase')
    BY DEF Callable
<1>. QED BY <1>11, <1>14, <1>19, <1>20, <1>21, <1>22 DEF Inv, Pointers

LEMMA FreeInv == ASSUME DepthAssumption, Inv, FreeObject PROVE Inv'
<1> DEFINE c == Head(todo)
<1>1. todo # <<>> /\ c.op = "free"
    BY DEF FreeObject, First
<1>2. /\ c \in Calls
      /\ \A k \in 1 .. Len(Tail(todo)) : Tail(todo)[k].op \in Callable(phase)
    BY <1>1, FirstTurns
<1>3. PICK a \in Knowledge, b \in Knowledge, z \in Knowledge :
         Sound(a, z) /\ Turns(c, a, b) /\ Runs(Tail(todo), b, z)
    BY <1>1, FirstTurns
<1>4. refs' = Taken(c.from) /\ todo' = Tail(todo) /\ UNCHANGED <<phase, env, loop, legal, failed>>
    BY DEF FreeObject
<1>5. Frees(c, a, b)
    BY <1>1, <1>3, TurnsOfOp
<1> HIDE DEF c
<1>6. /\ a.held \subseteq Names /\ b.held \subseteq Names
      /\ a.fresh \in BOOLEAN /\ b.fresh \in BOOLEAN
    BY DEF Knowledge
<1>7. DOMAIN c.from = {1} /\ Arguments(c) \subseteq a.held /\ b.held = a.held \ Arguments(c)
  <2>1. c.from \in Seq(Names)
      BY <1>2 DEF Calls
  <2>2. DOMAIN c.from = {1}
      BY <1>5, <2>1 DEF Frees
  <2>. QED BY <1>5, <2>2 DEF Arguments, Frees
<1>8. Pointers(env) /\ TypeOK
    BY DEF Inv
<1>9. ASSUME NEW o \in Names PROVE refs'[o] = Cardinality(Holders(env, b.held, o))
  <2>1. Counted(a.held) /\ \A k, l \in DOMAIN c.from : c.from[k] = c.from[l] => k = l
      BY <1>3, <1>7 DEF Sound
  <2>2. Taken(c.from)[o] = Cardinality(Holders(env, a.held \ Arguments(c), o))
      BY <1>2, <1>6, <1>7, <1>8, <2>1, TakenCount
  <2>. QED BY <1>4, <1>7, <2>2
<1>10. TypeOK'
  <2>1. refs' = [o \in Names |-> refs'[o]]
      BY <1>4 DEF Taken
  <2>2. refs' \in [Names -> 0 .. 4]
      BY <1>6, <1>8, <1>9, <2>1, ReferencesAreFew
  <2>. QED BY <1>4, <1>8, <2>2 DEF TypeOK
<1>11. Ending(a, z) /\ (a.fresh => env["Deps"] = Null)
    BY <1>3 DEF Sound
<1>12. Broken(a.carriers) => Broken(b.carriers)'
    BY <1>4, <1>5 DEF Frees, Broken
<1>13. Ending(b, z)'
  <2>1. phase # "decided" /\ phase # "done"
      BY <1>1, <1>11 DEF Ending
  <2>. QED BY <1>4, <1>11, <1>12, <2>1 DEF Ending
<1>14. Counted(b.held)'
    BY <1>4, <1>9 DEF Counted
<1>15. Sound(b, z)'
    BY <1>3, <1>4, <1>5, <1>11, <1>13, <1>14 DEF Sound, Frees
<1>16. LegalHasAll' /\ Pointers(env)'
    BY <1>4, <1>8 DEF Inv, LegalHasAll, Pointers
<1>17. \A k \in 1 .. Len(todo') : todo'[k].op \in Callable(phase')
    BY <1>2, <1>4
<1>18. Callable(phase)' = Callable(phase')
    BY DEF Callable
<1>. QED BY <1>10, <1>15, <1>16, <1>17, <1>18 DEF Inv

\* The calls each part of the code makes.
LEMMA OpsAreCallable ==
    /\ \A k \in 1 .. Len(GiveUp) : GiveUp[k].op = "free"
    /\ \A k \in 1 .. Len(NegativeDistances) : NegativeDistances[k].op \in {"read", "copy", "call"}
    /\ \A k \in 1 .. Len(Answered) : Answered[k].op = "free"
    /\ \A k \in 1 .. Len(<<Free("Deps")>>) : <<Free("Deps")>>[k].op = "free"
<1>1. \A x : Free(x).op = "free"
    BY DEF Free
<1>2. \A k \in 1 .. Len(GiveUp) : GiveUp[k].op = "free"
  <2>1. Len(GiveUp) = 3 /\ GiveUp[1] = Free("Domain") /\ GiveUp[2] = Free("Reads") /\ GiveUp[3] = Free("Writes")
      BY DEF GiveUp
  <2>. QED BY <1>1, <2>1
<1>3. \A k \in 1 .. Len(NegativeDistances) : NegativeDistances[k].op \in {"read", "copy", "call"}
  <2>1. /\ Len(NegativeDistances) = 3
        /\ NegativeDistances[1] = Read("NegativeDist")
        /\ NegativeDistances[2] = Copy("W", "Deps")
        /\ NegativeDistances[3] = Call("Violations", <<"W", "NegativeDist">>)
      BY DEF NegativeDistances
  <2>2. /\ Read("NegativeDist").op = "read" /\ Copy("W", "Deps").op = "copy"
        /\ Call("Violations", <<"W", "NegativeDist">>).op = "call"
      BY DEF Read, Copy, Call
  <2>. QED BY <2>1, <2>2
<1>4. \A k \in 1 .. Len(Answered) : Answered[k].op = "free"
  <2>1. Len(Answered) = 1 /\ Answered[1] = Free("Violations")
      BY DEF Answered
  <2>. QED BY <1>1, <2>1
<1>5. \A k \in 1 .. Len(<<Free("Deps")>>) : <<Free("Deps")>>[k].op = "free"
    BY <1>1
<1>. QED BY <1>2, <1>3, <1>4, <1>5

\* A function that has made all its calls knows what its ending says.
LEMMA NothingToDo ==
    ASSUME Inv, todo = <<>>
    PROVE  \E z \in Knowledge : Ending(z, z) /\ Counted(z.held) /\ (z.fresh => env["Deps"] = Null)
<1>1. PICK a \in Knowledge, z \in Knowledge : Sound(a, z)
    BY DEF Inv
<1>2. a = z
    BY <1>1, RunsNothing DEF Sound
<1>. QED BY <1>1, <1>2 DEF Sound

\* The next calls start where the last ones ended.
LEMMA StartsAgain ==
    ASSUME NEW a \in Knowledge, NEW z \in Knowledge, Inv,
           Runs(todo', a, z), Counted(a.held)', a.fresh => env'["Deps"] = Null, Ending(a, z)',
           UNCHANGED <<env, refs>>, TypeOK', LegalHasAll',
           \A k \in 1 .. Len(todo') : todo'[k].op \in Callable(phase')
    PROVE  Inv'
<1>1. Sound(a, z)'
    BY DEF Sound
<1>2. Callable(phase)' = Callable(phase')
    BY DEF Callable
<1>3. Pointers(env)'
    BY DEF Inv, Pointers
<1>. QED BY <1>1, <1>2, <1>3 DEF Inv

LEMMA TestInputsInv == ASSUME DepthAssumption, Inv, TestInputs PROVE Inv'
<1> DEFINE c == Head(todo)
<1>1. todo # <<>> /\ c.op = "check"
    BY DEF TestInputs, First
<1>2. /\ c \in Calls /\ c.op \in Callable(phase)
      /\ \A k \in 1 .. Len(Tail(todo)) : Tail(todo)[k].op \in Callable(phase)
    BY <1>1, FirstTurns
<1>3. PICK a \in Knowledge, b \in Knowledge, z \in Knowledge :
         Sound(a, z) /\ Turns(c, a, b) /\ Runs(Tail(todo), b, z)
    BY <1>1, FirstTurns
<1>4. /\ todo' = IF SomeNull(c.from) THEN GiveUp ELSE Tail(todo)
      /\ UNCHANGED <<phase, env, refs, loop, legal, failed>>
    BY DEF TestInputs
<1>5. Checks(c, a, b)
    BY <1>1, <1>3, TurnsOfOp
<1>6. phase = "getDependencies"
    BY <1>1, <1>2 DEF Callable
<1> HIDE DEF c
<1>7. SomeNull(c.from) <=> \E v \in Inputs : env[v] = Null
  <2>1. c.from = <<"Domain", "Reads", "Writes">>
      BY <1>5 DEF Checks, CheckInputs
  <2>2. DOMAIN <<"Domain", "Reads", "Writes">> = {1, 2, 3}
      OBVIOUS
  <2>. QED BY <2>1, <2>2 DEF SomeNull, Inputs
<1>8. TypeOK' /\ LegalHasAll'
    BY <1>4 DEF Inv, TypeOK, LegalHasAll
<1>9. Counted(a.held)' /\ env'["Deps"] = Null /\ Ending(a, z)
    BY <1>3, <1>4, <1>5 DEF Sound, Counted, Checks
<1>10. CASE SomeNull(c.from)
  <2> DEFINE g == Know(Inputs, {"Deps"}, TRUE)
             y == Know({}, {"Deps"}, TRUE)
  <2>1. /\ g \in Knowledge /\ g.held = Inputs /\ g.carriers = {"Deps"}
        /\ y \in Knowledge /\ y.held = {} /\ y.carriers = {"Deps"}
    <3>1. Inputs \subseteq Names /\ {"Deps"} \subseteq Names /\ {} \subseteq Names
        BY DEF Names
    <3>2. \A h, m : h \subseteq Names /\ m \subseteq Names =>
             /\ Know(h, m, TRUE) \in Knowledge /\ Know(h, m, TRUE).held = h
             /\ Know(h, m, TRUE).carriers = m
        BY DEF Know, Knowledge
    <3>. QED BY <3>1, <3>2
  <2> HIDE DEF g, y
  <2>2. Runs(todo', g, y)
      BY <1>4, <1>10, GiveUpRuns DEF g, y
  <2>3. Counted(g.held)'
      BY <1>5, <1>9, <2>1 DEF Checks
  <2>4. Ending(g, y)'
      BY <1>4, <1>6, <1>9, <2>1 DEF Ending, Broken
  <2>5. \A k \in 1 .. Len(todo') : todo'[k].op \in Callable(phase')
      BY <1>4, <1>6, <1>10, OpsAreCallable DEF Callable
  <2>. QED BY <1>4, <1>8, <1>9, <2>1, <2>2, <2>3, <2>4, <2>5, StartsAgain
<1>11. CASE ~ SomeNull(c.from)
  <2>1. ~ Broken(a.carriers)
      BY <1>5, <1>7, <1>11 DEF Checks, Broken
  <2>2. Ending(b, z)'
      BY <1>4, <1>6, <1>9, <2>1 DEF Ending
  <2>3. Counted(b.held)'
      BY <1>5, <1>9 DEF Checks
  <2>4. Runs(todo', b, z) /\ \A k \in 1 .. Len(todo') : todo'[k].op \in Callable(phase')
      BY <1>2, <1>3, <1>4, <1>11
  <2>. QED BY <1>4, <1>8, <1>9, <2>2, <2>3, <2>4, StartsAgain
<1>. QED BY <1>10, <1>11

\* The iteration of isTilingLegal that starts when only Deps is left.
LEMMA IterationStarts ==
    ASSUME DepthAssumption, Inv, Counted({"Deps"}), phase' = "isTilingLegal",
           todo' = NegativeDistances, UNCHANGED <<env, refs>>, TypeOK', LegalHasAll'
    PROVE  Inv'
<1> DEFINE a == Know({"Deps"}, {}, FALSE)
           z == Know({"Deps", "Violations"}, {"Violations"}, FALSE)
<1>1. /\ a \in Knowledge /\ a.held = {"Deps"} /\ a.fresh = FALSE
      /\ z \in Knowledge /\ z.held = {"Deps", "Violations"}
  <2>1. {"Deps"} \subseteq Names /\ {"Deps", "Violations"} \subseteq Names
        /\ {"Violations"} \subseteq Names /\ {} \subseteq Names
      BY DEF Names
  <2>. QED BY <2>1, KnowTyped, ZenonT(60)
<1>2. Runs(todo', a, z)
    BY NegativeDistancesRun
<1> HIDE DEF a, z
<1>3. Counted(a.held)' /\ Ending(a, z)'
    BY <1>1 DEF Counted, Ending
<1>4. \A k \in 1 .. Len(todo') : todo'[k].op \in Callable(phase')
    BY OpsAreCallable DEF Callable
<1>. QED BY <1>1, <1>2, <1>3, <1>4, StartsAgain

\* A phase that makes no call of its own.
LEMMA PhaseEnds ==
    ASSUME NEW z \in Knowledge, Inv, Counted(z.held), z.fresh => env["Deps"] = Null,
           todo' = <<>>, UNCHANGED <<env, refs>>, Ending(z, z)', TypeOK', LegalHasAll'
    PROVE  Inv'
<1>1. Runs(todo', z, z)
    BY RunsNothing
<1>2. Counted(z.held)'
    BY DEF Counted
<1>3. 1 .. Len(todo') = {}
    OBVIOUS
<1>. QED BY <1>1, <1>2, <1>3, StartsAgain

LEMMA TestDependencesInv == ASSUME DepthAssumption, Inv, TestDependences PROVE Inv'
<1>1. PICK z \in Knowledge : Ending(z, z) /\ Counted(z.held) /\ (z.fresh => env["Deps"] = Null)
    BY NothingToDo DEF TestDependences
<1>2. /\ z.held \subseteq {"Deps"} /\ z.carriers \subseteq {"Deps"}
      /\ "getDependencies" \in failed \/ z.held = {} => Broken(z.carriers)
    BY <1>1 DEF Ending, TestDependences
<1>3. /\ todo = <<>> /\ UNCHANGED <<env, refs, loop, failed>> /\ TypeOK /\ LegalHasAll
    BY DEF TestDependences, Inv
<1>4. CASE env["Deps"] = Null
  <2> DEFINE k == Know({}, {}, FALSE)
  <2>1. k \in Knowledge /\ k.held = {} /\ k.fresh = FALSE
      BY KnowTyped
  <2> HIDE DEF k
  <2>2. Counted(k.held)
    <3>1. \A o \in Names : Holders(env, z.held, o) = {} /\ Holders(env, {}, o) = {}
      <4>1. \A o \in Names : o # Null
          BY DEF Null, Names, Inputs
      <4>. QED BY <1>2, <1>4, <4>1 DEF Holders
    <3>. QED BY <1>1, <2>1, <3>1 DEF Counted
  <2>3. phase' = "release" /\ UNCHANGED <<todo, legal>>
      BY <1>4 DEF TestDependences
  <2>4. TypeOK' /\ LegalHasAll' /\ Ending(k, k)'
      BY <1>3, <2>1, <2>3 DEF TypeOK, LegalHasAll, Ending, TestDependences
  <2>. QED BY <1>3, <2>1, <2>2, <2>3, <2>4, PhaseEnds
<1>5. CASE env["Deps"] # Null
  <2>1. ~ Broken(z.carriers)
      BY <1>2, <1>5 DEF Broken
  <2>2. z.held = {"Deps"} /\ "getDependencies" \notin failed /\ z.fresh = FALSE
      BY <1>1, <1>2, <1>5, <2>1 DEF Knowledge
  <2>3. CASE Depth < 2
    <3>1. phase' = "decided" /\ legal' = FALSE /\ UNCHANGED todo
        BY <1>5, <2>3 DEF TestDependences
    <3>2. TypeOK' /\ LegalHasAll' /\ Ending(z, z)'
        BY <1>3, <2>2, <3>1 DEF TypeOK, LegalHasAll, Ending
    <3>. QED BY <1>1, <1>3, <3>1, <3>2, PhaseEnds
  <2>4. CASE ~ (Depth < 2)
    <3>1. phase' = "isTilingLegal" /\ legal' = TRUE /\ todo' = NegativeDistances
        BY <1>5, <2>4 DEF TestDependences
    <3>2. TypeOK' /\ LegalHasAll'
        BY <1>3, <2>2, <3>1 DEF TypeOK, LegalHasAll
    <3>. QED BY <1>1, <1>3, <2>2, <3>1, <3>2, IterationStarts
  <2>. QED BY <2>3, <2>4
<1>. QED BY <1>4, <1>5

LEMMA AskInv == ASSUME DepthAssumption, Inv, AskWhetherEmpty PROVE Inv'
<1>1. PICK z \in Knowledge : Ending(z, z) /\ Counted(z.held)
    BY NothingToDo DEF AskWhetherEmpty
<1>2. /\ phase = "isTilingLegal" /\ todo' = Answered /\ phase' = "asked"
      /\ UNCHANGED <<env, refs, loop>> /\ TypeOK /\ LegalHasAll
    BY DEF AskWhetherEmpty, Inv
<1>3. PICK answer \in {-1, 0, 1} :
        /\ legal' = (legal /\ answer # 0)
        /\ failed' = IF answer = -1 THEN failed \cup {phase} ELSE failed
    BY DEF AskWhetherEmpty
<1>4. TypeOK'
  <2>1. legal' \in BOOLEAN
      BY <1>3
  <2>. QED BY <1>2, <1>3, <2>1 DEF TypeOK
<1>5. LegalHasAll'
    BY <1>2, <1>3 DEF LegalHasAll
<1> DEFINE a == Know({"Deps", "Violations"}, {"Violations"}, FALSE)
           y == Know({"Deps"}, {"Violations"}, FALSE)
<1>6. /\ a \in Knowledge /\ a.held = {"Deps", "Violations"} /\ a.fresh = FALSE
      /\ y \in Knowledge /\ y.held = {"Deps"}
  <2>1. {"Deps"} \subseteq Names /\ {"Deps", "Violations"} \subseteq Names /\ {"Violations"} \subseteq Names
      BY DEF Names
  <2>. QED BY <2>1, KnowTyped, ZenonT(60)
<1>7. Runs(todo', a, y)
    BY <1>2, AnsweredRuns
<1> HIDE DEF a, y
<1>8. Counted(a.held)' /\ Ending(a, y)'
    BY <1>1, <1>2, <1>6 DEF Counted, Ending
<1>9. \A k \in 1 .. Len(todo') : todo'[k].op \in Callable(phase')
    BY <1>2, OpsAreCallable DEF Callable
<1>. QED BY <1>2, <1>4, <1>5, <1>6, <1>7, <1>8, <1>9, StartsAgain

LEMMA NextLoopInv == ASSUME DepthAssumption, Inv, NextLoop PROVE Inv'
<1>1. PICK z \in Knowledge : Ending(z, z) /\ Counted(z.held) /\ (z.fresh => env["Deps"] = Null)
    BY NothingToDo DEF NextLoop
<1>2. /\ todo = <<>> /\ phase = "asked" /\ UNCHANGED <<env, refs, legal, failed>> /\ TypeOK /\ LegalHasAll
    BY DEF NextLoop, Inv
<1>3. z.held = {"Deps"}
    BY <1>1, <1>2 DEF Ending
<1>4. CASE legal /\ loop < Depth
  <2>1. loop' = loop + 1 /\ phase' = "isTilingLegal" /\ todo' = NegativeDistances
      BY <1>4 DEF NextLoop
  <2>2. loop' \in 1 .. Depth
      BY <1>2, <1>4, <2>1 DEF TypeOK, DepthAssumption
  <2>3. TypeOK' /\ LegalHasAll'
      BY <1>2, <2>1, <2>2 DEF TypeOK, LegalHasAll
  <2>. QED BY <1>1, <1>2, <1>3, <2>1, <2>3, IterationStarts
<1>5. CASE ~ (legal /\ loop < Depth)
  <2>1. phase' = "decided" /\ UNCHANGED <<loop, todo>>
      BY <1>5 DEF NextLoop
  <2>2. TypeOK' /\ LegalHasAll' /\ Ending(z, z)'
      BY <1>2, <1>3, <2>1 DEF TypeOK, LegalHasAll, Ending
  <2>. QED BY <1>1, <1>2, <2>1, <2>2, PhaseEnds
<1>. QED BY <1>4, <1>5

LEMMA RewriteInv == ASSUME DepthAssumption, Inv, Rewrite PROVE Inv'
<1>1. PICK z \in Knowledge : Ending(z, z) /\ Counted(z.held)
    BY NothingToDo DEF Rewrite
<1>2. /\ phase = "decided" /\ phase' = "release" /\ todo' = <<Free("Deps")>>
      /\ UNCHANGED <<env, refs, loop, legal, failed>> /\ TypeOK /\ LegalHasAll
    BY DEF Rewrite, Inv
<1> DEFINE a == Know({"Deps"}, {}, FALSE)
           y == Know({}, {}, FALSE)
<1>3. /\ a \in Knowledge /\ a.held = {"Deps"} /\ a.fresh = FALSE
      /\ y \in Knowledge /\ y.held = {}
  <2>1. {"Deps"} \subseteq Names /\ {} \subseteq Names
      BY DEF Names
  <2>. QED BY <2>1, KnowTyped, ZenonT(60)
<1>4. Runs(todo', a, y)
    BY <1>2, FreeDepsRuns
<1> HIDE DEF a, y
<1>5. Counted(a.held)' /\ Ending(a, y)'
    BY <1>1, <1>2, <1>3 DEF Counted, Ending
<1>6. \A k \in 1 .. Len(todo') : todo'[k].op \in Callable(phase')
    BY <1>2, OpsAreCallable DEF Callable
<1>7. TypeOK' /\ LegalHasAll'
    BY <1>2 DEF TypeOK, LegalHasAll
<1>. QED BY <1>2, <1>3, <1>4, <1>5, <1>6, <1>7, StartsAgain

LEMMA FreeContextInv == ASSUME DepthAssumption, Inv, FreeContext PROVE Inv'
<1>1. PICK z \in Knowledge : Ending(z, z) /\ Counted(z.held) /\ (z.fresh => env["Deps"] = Null)
    BY NothingToDo DEF FreeContext
<1>2. /\ todo = <<>> /\ phase = "release" /\ phase' = "done"
      /\ UNCHANGED <<todo, env, refs, loop, legal, failed>> /\ TypeOK /\ LegalHasAll
    BY DEF FreeContext, Inv
<1>3. TypeOK' /\ LegalHasAll' /\ Ending(z, z)'
    BY <1>2 DEF TypeOK, LegalHasAll, Ending
<1>. QED BY <1>1, <1>2, <1>3, PhaseEnds

\* The step does nothing.
LEMMA StutterInv == ASSUME Inv, UNCHANGED vars PROVE Inv'
BY DEF vars, Inv, TypeOK, Pointers, LegalHasAll, Sound, Counted, Ending, Broken, Holders

LEMMA InvIsInvariant == ASSUME DepthAssumption PROVE Spec => []Inv
<1>1. Init => Inv
    BY InitInv
<1>2. Inv /\ [Next]_vars => Inv'
  <2> SUFFICES ASSUME Inv, [Next]_vars PROVE Inv'
      OBVIOUS
  <2>1. CASE MakeObject
      BY <2>1, MakeInv
  <2>2. CASE CopyObject
      BY <2>2, CopyInv
  <2>3. CASE FreeObject
      BY <2>3, FreeInv
  <2>4. CASE TestInputs
      BY <2>4, TestInputsInv
  <2>5. CASE TestDependences
      BY <2>5, TestDependencesInv
  <2>6. CASE AskWhetherEmpty
      BY <2>6, AskInv
  <2>7. CASE NextLoop
      BY <2>7, NextLoopInv
  <2>8. CASE Rewrite
      BY <2>8, RewriteInv
  <2>9. CASE FreeContext
      BY <2>9, FreeContextInv
  <2>10. CASE Done \/ UNCHANGED vars
      BY <2>10, StutterInv DEF Done
  <2>. QED BY <2>1, <2>2, <2>3, <2>4, <2>5, <2>6, <2>7, <2>8, <2>9, <2>10 DEF Next
<1>. QED BY <1>1, <1>2, PTL DEF Spec

-----------------------------------------------------------------------------

\* Whichever calls of isl fail, every variable points to the object made for it or
\* to NULL, and no object ever has more than four references.
THEOREM TypeCorrect == ASSUME DepthAssumption PROVE Spec => []TypeOK
<1>1. Inv => TypeOK
    BY DEF Inv
<1>. QED BY <1>1, InvIsInvariant, PTL

\* For nests of any depth, whichever calls of isl fail: no call of getDependencies,
\* isTilingLegal or run() gets an object that was freed, and when the context is
\* freed nothing refers to it any more.
THEOREM ObjectsAreAlwaysOwned == ASSUME DepthAssumption PROVE Spec => []ObjectsAreOwned
<1>1. Inv => ArgumentsAreAlive
  <2> SUFFICES ASSUME Inv, todo # <<>>, Head(todo).op \in {"copy", "call", "free"},
                      NEW k \in DOMAIN Head(todo).from, env[Head(todo).from[k]] # Null
               PROVE  refs[env[Head(todo).from[k]]] > 0
      BY DEF ArgumentsAreAlive
  <2> DEFINE c == Head(todo)
  <2>1. PICK a \in Knowledge, b \in Knowledge, z \in Knowledge : Sound(a, z) /\ Turns(c, a, b)
      BY FirstTurns
  <2>2. c \in Calls
      BY FirstTurns
  <2>3. Arguments(c) \subseteq a.held
    <3>1. CASE c.op = "call"
        BY <2>1, <3>1, TurnsOfOp DEF Makes
    <3>2. CASE c.op \in {"copy", "free"}
      <4>1. Len(c.from) = 1 /\ c.from[1] \in a.held
          BY <2>1, <3>2, TurnsOfOp DEF Copies, Frees
      <4>2. c.from \in Seq(Names)
          BY <2>2 DEF Calls
      <4>3. DOMAIN c.from = {1}
          BY <4>1, <4>2
      <4>. QED BY <4>1, <4>3 DEF Arguments
    <3>. QED BY <3>1, <3>2
  <2>4. c.from[k] \in a.held /\ a.held \subseteq Names /\ Counted(a.held) /\ Pointers(env)
      BY <2>1, <2>3 DEF Arguments, Knowledge, Sound, Inv
  <2> HIDE DEF c
  <2>. QED BY <2>4, HeldIsAlive DEF c
<1>2. Inv => ContextIsFreedClean
  <2> SUFFICES ASSUME Inv, todo = <<>>, phase = "release", NEW o \in Names PROVE refs[o] = 0
      BY DEF ContextIsFreedClean
  <2>1. PICK z \in Knowledge : Ending(z, z) /\ Counted(z.held)
      BY NothingToDo
  <2>2. Holders(env, z.held, o) = {}
      BY <2>1 DEF Ending, Holders
  <2>. QED BY <2>1, <2>2, FS_EmptySet DEF Counted
<1>3. Inv => ObjectsAreOwned
    BY <1>1, <1>2 DEF ObjectsAreOwned
<1>. QED BY <1>3, InvIsInvariant, PTL

\* For nests of any depth: a failed call of getDependencies always reaches run() as a
\* missing Deps, so no nest is found legal with a part of its dependences.
THEOREM LegalityIsComplete == ASSUME DepthAssumption PROVE Spec => []LegalityHasAllDependences
<1>1. Inv => LegalityHasAllDependences
    BY DEF Inv, LegalHasAll, LegalityHasAllDependences
<1>. QED BY <1>1, InvIsInvariant, PTL
=============================================================================
