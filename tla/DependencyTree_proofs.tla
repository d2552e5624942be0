------------------------ MODULE DependencyTree_proofs ------------------------
(***************************************************************************)
(* Theorems about the resolution of dependencies, for every set of names,  *)
(* every database and every request: first of the walk alone, then of the  *)
(* installation that begins with it.                                       *)
(***************************************************************************)
EXTENDS InstallPkgs, SequenceTheorems, FiniteSetTheorems, TLAPS

-----------------------------------------------------------------------------
(* Stacks and lists *)

\* A sequence without its last element, and with others in its place.
Below(s)        == SubSeq(s, 1, Len(s) - 1)
Above(s, f)     == Append(Below(s), f)
Above2(s, f, g) == Below(s) \o <<f, g>>

\* What is below the last element is what it was.
LEMMA TopOff ==
  ASSUME NEW S, NEW s \in Seq(S), s # <<>>
  PROVE  /\ Len(s) \in Nat /\ Len(s) >= 1
         /\ Below(s) \in Seq(S)
         /\ Len(Below(s)) = Len(s) - 1
         /\ \A k \in 1..Len(s) - 1 : Below(s)[k] = s[k]
         /\ Below(s) = <<>> <=> Len(s) = 1
<1> DEFINE n == Len(s) - 1
           t == Below(s)
<1>1. Len(s) \in Nat /\ Len(s) >= 1
  BY EmptySeq
<1>2. n \in Int /\ n \in Nat /\ \A i \in 1..n : s[i] \in S
  BY <1>1, ElementOfSeq
<1>3. t = SubSeq(s, 1, n)
  BY DEF Below
<1>4. t \in Seq(S) /\ Len(t) = n /\ \A k \in 1..n : t[k] = s[k]
  <2> HIDE DEF n, t
  <2>1. /\ SubSeq(s, 1, n) \in Seq(S)
        /\ Len(SubSeq(s, 1, n)) = IF 1 <= n THEN n - 1 + 1 ELSE 0
        /\ \A i \in 1..n - 1 + 1 : SubSeq(s, 1, n)[i] = s[1 + i - 1]
    BY <1>2, SubSeqProperties
  <2>2. QED
    BY <1>2, <1>3, <2>1
<1>5. t = <<>> <=> n = 0
  <2> HIDE DEF n, t
  <2>1. QED
    BY <1>2, <1>4, EmptySeq
<1>6. QED
  BY <1>1, <1>4, <1>5

\* A sequence whose last element was replaced by one.
LEMMA OneOnTop ==
  ASSUME NEW S, NEW s \in Seq(S), s # <<>>, NEW f \in S
  PROVE  /\ Len(s) \in Nat /\ Len(s) >= 1
         /\ Above(s, f) \in Seq(S)
         /\ Len(Above(s, f)) = Len(s)
         /\ \A k \in 1..Len(s) - 1 : Above(s, f)[k] = s[k]
         /\ Above(s, f)[Len(s)] = f
<1>1. /\ Len(s) \in Nat /\ Len(s) >= 1
      /\ Below(s) \in Seq(S)
      /\ Len(Below(s)) = Len(s) - 1
      /\ \A k \in 1..Len(s) - 1 : Below(s)[k] = s[k]
  BY TopOff
<1>2. QED
  BY <1>1, AppendProperties DEF Above

\* Two elements after a sequence.
LEMMA TwoAfter ==
  ASSUME NEW S, NEW r \in Seq(S), NEW p \in Seq(S), Len(p) = 2
  PROVE  /\ r \o p \in Seq(S)
         /\ Len(r \o p) = Len(r) + 2
         /\ \A k \in 1..Len(r) : (r \o p)[k] = r[k]
         /\ (r \o p)[Len(r) + 1] = p[1]
         /\ (r \o p)[Len(r) + 2] = p[2]
<1> DEFINE n == Len(r)
           t == r \o p
<1>1. n \in Nat
  OBVIOUS
<1>2. /\ t \in Seq(S)
      /\ Len(t) = n + Len(p)
      /\ \A i \in 1..n + Len(p) : t[i] = IF i <= n THEN r[i] ELSE p[i - n]
  BY ConcatProperties, Zenon
<1> HIDE DEF n, t
<1>3. t[n + 1] = p[1]
  <2>1. n + 1 \in 1..n + 2 /\ ~(n + 1 <= n) /\ (n + 1) - n = 1
    BY <1>1
  <2>2. QED
    BY <1>2, <2>1
<1>4. t[n + 2] = p[2]
  <2>1. n + 2 \in 1..n + 2 /\ ~(n + 2 <= n) /\ (n + 2) - n = 2
    BY <1>1
  <2>2. QED
    BY <1>2, <2>1
<1>5. t \in Seq(S) /\ Len(t) = n + 2 /\ \A k \in 1..n : t[k] = r[k]
  BY <1>1, <1>2
<1>6. QED
  BY <1>3, <1>4, <1>5 DEF n, t

\* A sequence whose last element was replaced by two.
LEMMA TwoOnTop ==
  ASSUME NEW S, NEW s \in Seq(S), s # <<>>, NEW f \in S, NEW g \in S
  PROVE  /\ Len(s) \in Nat /\ Len(s) >= 1
         /\ Above2(s, f, g) \in Seq(S)
         /\ Len(Above2(s, f, g)) = Len(s) + 1
         /\ \A k \in 1..Len(s) - 1 : Above2(s, f, g)[k] = s[k]
         /\ Above2(s, f, g)[Len(s)] = f
         /\ Above2(s, f, g)[Len(s) + 1] = g
<1> DEFINE below == Below(s)
           pair == <<f, g>>
           t == Above2(s, f, g)
<1>1. /\ Len(s) \in Nat /\ Len(s) >= 1
      /\ below \in Seq(S)
      /\ Len(below) = Len(s) - 1
      /\ \A k \in 1..Len(s) - 1 : below[k] = s[k]
  BY TopOff
<1>2. pair \in Seq(S) /\ Len(pair) = 2 /\ pair[1] = f /\ pair[2] = g
  OBVIOUS
<1>3. t = below \o pair
  BY DEF Above2
<1> HIDE DEF below, pair, t
<1>4. /\ below \o pair \in Seq(S)
      /\ Len(below \o pair) = Len(below) + 2
      /\ \A k \in 1..Len(below) : (below \o pair)[k] = below[k]
      /\ (below \o pair)[Len(below) + 1] = pair[1]
      /\ (below \o pair)[Len(below) + 2] = pair[2]
  BY <1>1, <1>2, TwoAfter
<1>5. /\ t \in Seq(S)
      /\ Len(t) = Len(s) + 1
      /\ \A k \in 1..Len(s) - 1 : t[k] = s[k]
      /\ t[Len(s)] = f
      /\ t[Len(s) + 1] = g
  BY <1>1, <1>2, <1>3, <1>4
<1>6. QED
  BY <1>1, <1>5 DEF t

\* The elements of a prefix.
LEMMA RangeOfPrefix ==
  ASSUME NEW S, NEW s \in Seq(S), NEW i \in 1..Len(s)
  PROVE  Range(SubSeq(s, 1, i)) = {s[j] : j \in 1..i}
<1>1. /\ SubSeq(s, 1, i) \in Seq(S)
      /\ Len(SubSeq(s, 1, i)) = i
      /\ \A j \in 1..i : SubSeq(s, 1, i)[j] = s[j]
  BY LenProperties
<1>2. Range(SubSeq(s, 1, i)) = {SubSeq(s, 1, i)[j] : j \in 1..i}
  BY <1>1, RangeEquality
<1>3. QED
  BY <1>1, <1>2

\* One more element.
LEMMA RangeOfAppend ==
  ASSUME NEW S, NEW s \in Seq(S), NEW e \in S
  PROVE  Range(Append(s, e)) = Range(s) \cup {e}
<1>1. /\ Len(s) \in Nat
      /\ Append(s, e) \in Seq(S)
      /\ Len(Append(s, e)) = Len(s) + 1
      /\ \A i \in 1..Len(s) : Append(s, e)[i] = s[i]
      /\ Append(s, e)[Len(s) + 1] = e
  BY AppendProperties, LenProperties
<1>2. Range(s) = {s[i] : i \in 1..Len(s)}
  BY RangeEquality
<1>3. Range(Append(s, e)) = {Append(s, e)[i] : i \in 1..Len(s) + 1}
  BY <1>1, RangeEquality
<1>4. QED
  BY <1>1, <1>2, <1>3

\* A list without duplicates is as long as the set of its elements.
LEMMA LengthOfList ==
  ASSUME NEW S, NEW s \in Seq(S), IsInjective(s)
  PROVE  Len(s) = Cardinality(Range(s))
<1>1. Len(s) \in Nat /\ DOMAIN s = 1..Len(s)
  BY LenProperties
<1>2. s \in Bijection(1..Len(s), Range(s))
  BY <1>1, RangeEquality, LenProperties
  DEF Bijection, Injection, Surjection, IsInjective, Range
<1>3. ExistsBijection(1..Len(s), Range(s))
  BY <1>2 DEF ExistsBijection
<1>4. IsFiniteSet(1..Len(s)) /\ Cardinality(1..Len(s)) = Len(s)
  BY <1>1, FS_Interval
<1>5. QED
  BY <1>3, <1>4, FS_Bijection

-----------------------------------------------------------------------------
(* What a set of names needs *)

\* The names a database knows: packages, and what is left to the system.
Known == Names \cup System

\* The closure contains the set, and the dependencies of its packages.
LEMMA ClosureIsClosed ==
  ASSUME TreeTypeOK, NEW S \in SUBSET Known
  PROVE  /\ S \subseteq Closure(S)
         /\ Closure(S) \subseteq Known
         /\ \A n \in Closure(S) \cap Names : Requires(n) \subseteq Closure(S)
<1>1. \A n \in Names : Requires(n) \subseteq Known
  BY DEF TreeTypeOK, Requires, Known
<1>2. QED
  BY <1>1 DEF Closure, Closed, Known

\* It is the least such set.
LEMMA ClosureIsLeast ==
  ASSUME NEW S, NEW C \in SUBSET Known, S \subseteq C, Closed(C)
  PROVE  Closure(S) \subseteq C
  BY DEF Closure, Known

\* A package needs itself, and what its dependencies are, and they need.
LEMMA NeedsStep ==
  ASSUME TreeTypeOK, NEW m \in Known, NEW n \in Names, Needs(m, n),
         NEW d \in Requires(n)
  PROVE  Needs(m, d)
  BY ClosureIsClosed DEF Needs, Known

LEMMA NeedsSelf ==
  ASSUME TreeTypeOK, NEW m \in Known
  PROVE  Needs(m, m)
  BY ClosureIsClosed DEF Needs, Known

\* The database and the request do not change, nor what follows from them.
LEMMA SameNeeds ==
  ASSUME world' = world, targets' = targets
  PROVE  /\ \A m, n : Needs(m, n)' <=> Needs(m, n)
         /\ \A n : Requires(n)' = Requires(n)
         /\ Closure(Range(targets))' = Closure(Range(targets))
  BY DEF Needs, Requires, Closure, Closed
-----------------------------------------------------------------------------
(* What the steps do to the stack *)

\* The stack of calls in progress is a sequence of frames.
LEMMA StackTypes ==
  ASSUME TreeTypeOK, stack # <<>>
  PROVE  /\ Len(stack) \in Nat /\ Len(stack) >= 1
         /\ \A k \in 1..Len(stack) : stack[k] \in Frame
         /\ Top \in Frame
<1>1. Len(stack) \in Nat /\ Len(stack) >= 1
  BY EmptySeq DEF TreeTypeOK
<1>2. \A k \in 1..Len(stack) : stack[k] \in Frame
  BY ElementOfSeq DEF TreeTypeOK
<1>3. QED
  BY <1>1, <1>2 DEF Top

\* A package that was visited is dropped from the top frame.
LEMMA SkipShape ==
  ASSUME TreeTypeOK, NEW n \in Names, Skip(n)
  PROVE  /\ stack' \in Seq(Frame)
         /\ Len(stack') = Len(stack)
         /\ \A k \in 1..Len(stack) - 1 : stack'[k] = stack[k]
         /\ stack'[Len(stack)].todo = stack[Len(stack)].todo \ {n}
         /\ stack'[Len(stack)].at = stack[Len(stack)].at
         /\ stack'[Len(stack)].next = "pick"
<1> DEFINE f == [Top EXCEPT !.todo = @ \ {n}]
<1>1. /\ f \in Frame
      /\ f.todo = Top.todo \ {n} /\ f.at = Top.at /\ f.next = "pick"
  BY StackTypes DEF Skip, Frame
<1>2. stack' = Above(stack, f) /\ stack # <<>>
  BY DEF Skip, Callers, Above, Below
<1> HIDE DEF f
<1>3. /\ stack' \in Seq(Frame)
      /\ Len(stack') = Len(stack)
      /\ \A k \in 1..Len(stack) - 1 : stack'[k] = stack[k]
      /\ stack'[Len(stack)] = f
  <2>1. stack \in Seq(Frame) /\ stack # <<>>
    BY <1>2 DEF TreeTypeOK
  <2>2. /\ Above(stack, f) \in Seq(Frame)
        /\ Len(Above(stack, f)) = Len(stack)
        /\ \A k \in 1..Len(stack) - 1 : Above(stack, f)[k] = stack[k]
        /\ Above(stack, f)[Len(stack)] = f
    BY <1>1, <2>1, OneOnTop
  <2>3. QED
    BY <1>2, <2>2
<1>4. QED
  BY <1>1, <1>3 DEF Top

\* A new package is put into the top frame, and the call that resolves its
\* build dependencies above it.
LEMMA VisitShape ==
  ASSUME TreeTypeOK, NEW n \in Names, Visit(n)
  PROVE  /\ stack' \in Seq(Frame)
         /\ Len(stack') = Len(stack) + 1
         /\ \A k \in 1..Len(stack) - 1 : stack'[k] = stack[k]
         /\ stack'[Len(stack)].todo = stack[Len(stack)].todo \ {n}
         /\ stack'[Len(stack)].at = n
         /\ stack'[Len(stack)].next = "runtime"
         /\ stack'[Len(stack) + 1].todo = world.build[n] \cap Names
         /\ stack'[Len(stack) + 1].at = NoPkg
         /\ stack'[Len(stack) + 1].next = "pick"
<1> DEFINE f == [todo |-> Top.todo \ {n}, at |-> n, next |-> "runtime"]
           g == Call(world.build[n])
<1>1. /\ f \in Frame
      /\ f.todo = Top.todo \ {n} /\ f.at = n /\ f.next = "runtime"
  BY StackTypes DEF Visit, Frame
<1>2. /\ g \in Frame
      /\ g.todo = world.build[n] \cap Names /\ g.at = NoPkg /\ g.next = "pick"
  BY DEF Call, Frame
<1>3. stack' = Above2(stack, f, g) /\ stack # <<>>
  BY DEF Visit, Callers, Above2, Below
<1> HIDE DEF f, g
<1>4. /\ stack' \in Seq(Frame)
      /\ Len(stack') = Len(stack) + 1
      /\ \A k \in 1..Len(stack) - 1 : stack'[k] = stack[k]
      /\ stack'[Len(stack)] = f
      /\ stack'[Len(stack) + 1] = g
  <2>1. stack \in Seq(Frame) /\ stack # <<>>
    BY <1>3 DEF TreeTypeOK
  <2>2. /\ Above2(stack, f, g) \in Seq(Frame)
        /\ Len(Above2(stack, f, g)) = Len(stack) + 1
        /\ \A k \in 1..Len(stack) - 1 : Above2(stack, f, g)[k] = stack[k]
        /\ Above2(stack, f, g)[Len(stack)] = f
        /\ Above2(stack, f, g)[Len(stack) + 1] = g
    BY <1>1, <1>2, <2>1, TwoOnTop
  <2>3. QED
    BY <1>3, <2>2
<1>5. QED
  BY <1>1, <1>2, <1>4 DEF Top

\* The call for the runtime dependencies is put above the package's frame.
LEMMA RuntimeShape ==
  ASSUME TreeTypeOK, ResolveRuntime, Top.at \in Names
  PROVE  /\ stack' \in Seq(Frame)
         /\ Len(stack') = Len(stack) + 1
         /\ \A k \in 1..Len(stack) - 1 : stack'[k] = stack[k]
         /\ stack'[Len(stack)].todo = stack[Len(stack)].todo
         /\ stack'[Len(stack)].at = stack[Len(stack)].at
         /\ stack'[Len(stack)].next = "append"
         /\ stack'[Len(stack) + 1].todo = world.runtime[stack[Len(stack)].at] \cap Names
         /\ stack'[Len(stack) + 1].at = NoPkg
         /\ stack'[Len(stack) + 1].next = "pick"
<1> DEFINE f == [Top EXCEPT !.next = "append"]
           g == Call(world.runtime[Top.at])
<1>1. /\ f \in Frame
      /\ f.todo = Top.todo /\ f.at = Top.at /\ f.next = "append"
  BY StackTypes DEF ResolveRuntime, Frame
<1>2. /\ g \in Frame
      /\ g.todo = world.runtime[Top.at] \cap Names /\ g.at = NoPkg /\ g.next = "pick"
  BY DEF Call, Frame
<1>3. stack' = Above2(stack, f, g) /\ stack # <<>>
  BY DEF ResolveRuntime, Callers, Above2, Below
<1> HIDE DEF f, g
<1>4. /\ stack' \in Seq(Frame)
      /\ Len(stack') = Len(stack) + 1
      /\ \A k \in 1..Len(stack) - 1 : stack'[k] = stack[k]
      /\ stack'[Len(stack)] = f
      /\ stack'[Len(stack) + 1] = g
  <2>1. stack \in Seq(Frame) /\ stack # <<>>
    BY <1>3 DEF TreeTypeOK
  <2>2. /\ Above2(stack, f, g) \in Seq(Frame)
        /\ Len(Above2(stack, f, g)) = Len(stack) + 1
        /\ \A k \in 1..Len(stack) - 1 : Above2(stack, f, g)[k] = stack[k]
        /\ Above2(stack, f, g)[Len(stack)] = f
        /\ Above2(stack, f, g)[Len(stack) + 1] = g
    BY <1>1, <1>2, <2>1, TwoOnTop
  <2>3. QED
    BY <1>3, <2>2
<1>5. QED
  BY <1>1, <1>2, <1>4 DEF Top

\* The package leaves the top frame, which goes on with its other packages.
LEMMA AddShape ==
  ASSUME TreeTypeOK, AddToOrder
  PROVE  /\ stack' \in Seq(Frame)
         /\ Len(stack') = Len(stack)
         /\ \A k \in 1..Len(stack) - 1 : stack'[k] = stack[k]
         /\ stack'[Len(stack)].todo = stack[Len(stack)].todo
         /\ stack'[Len(stack)].at = NoPkg
         /\ stack'[Len(stack)].next = "pick"
<1> DEFINE f == [todo |-> Top.todo, at |-> NoPkg, next |-> "pick"]
<1>1. /\ f \in Frame
      /\ f.todo = Top.todo /\ f.at = NoPkg /\ f.next = "pick"
  BY StackTypes DEF AddToOrder, Frame
<1>2. stack' = Above(stack, f) /\ stack # <<>>
  BY DEF AddToOrder, Callers, Above, Below
<1> HIDE DEF f
<1>3. /\ stack' \in Seq(Frame)
      /\ Len(stack') = Len(stack)
      /\ \A k \in 1..Len(stack) - 1 : stack'[k] = stack[k]
      /\ stack'[Len(stack)] = f
  <2>1. stack \in Seq(Frame) /\ stack # <<>>
    BY <1>2 DEF TreeTypeOK
  <2>2. /\ Above(stack, f) \in Seq(Frame)
        /\ Len(Above(stack, f)) = Len(stack)
        /\ \A k \in 1..Len(stack) - 1 : Above(stack, f)[k] = stack[k]
        /\ Above(stack, f)[Len(stack)] = f
    BY <1>1, <2>1, OneOnTop
  <2>3. QED
    BY <1>2, <2>2
<1>4. QED
  BY <1>1, <1>3 DEF Top

\* A call returns.
LEMMA ReturnShape ==
  ASSUME TreeTypeOK, Return
  PROVE  /\ stack' \in Seq(Frame)
         /\ Len(stack') = Len(stack) - 1
         /\ \A k \in 1..Len(stack) - 1 : stack'[k] = stack[k]
         /\ stack' = <<>> <=> Len(stack) = 1
<1>1. stack' = Below(stack) /\ stack # <<>>
  BY DEF Return, Callers, Below
<1>2. QED
  BY <1>1, TopOff DEF TreeTypeOK
-----------------------------------------------------------------------------
(* The invariant of the walk *)

WalkInv == TreeTypeOK /\ TreeInv

\* The package of the top frame, when the frame is in the middle of one.
LEMMA TopIsPackage ==
  ASSUME WalkInv, stack # <<>>, Top.next # "pick"
  PROVE  Top.at \in Names
<1>1. Len(stack) \in 1..Len(stack) /\ Top = stack[Len(stack)] /\ Top \in Frame
  BY StackTypes DEF WalkInv, Top
<1>2. Top.at # NoPkg
  BY <1>1 DEF WalkInv, TreeInv, FramesAgree, FrameAgrees
<1>3. QED
  BY <1>1, <1>2 DEF Frame

\* The first call has the invariant.
LEMMA WalkInit == TreeInit => WalkInv
<1> SUFFICES ASSUME TreeInit PROVE WalkInv
  OBVIOUS
<1>1. Call(Range(targets)) \in Frame
  BY DEF Call, Frame
<1>2. /\ stack \in Seq(Frame) /\ Len(stack) = 1 /\ stack # <<>>
      /\ stack[1].todo = Range(targets) \cap Names
      /\ stack[1].at = NoPkg /\ stack[1].next = "pick"
  BY <1>1 DEF TreeInit, Call
<1>3. targets \in Seq(Known) /\ Range(targets) \subseteq Known
  BY TreeAssumption, RangeOfSeq DEF TreeInit, TreeAssumption, Known
<1>4. TreeTypeOK
  BY <1>2, <1>3, TreeAssumption DEF TreeInit, TreeTypeOK, TreeAssumption, NotFound, Known
<1>5. order = <<>> /\ Range(order) = {} /\ visited = {}
  BY DEF TreeInit, Range
<1>6. FramesAgree /\ RootAgrees /\ StackIsPath
  BY <1>2, <1>5 DEF FramesAgree, FrameAgrees, RootAgrees, StackIsPath
<1>7. OrderAgrees /\ OrderIsTopological /\ SystemAgrees
  BY <1>5 DEF OrderAgrees, OrderIsTopological, SystemAgrees, IsInjective, TreeInit
<1>8. OnlyNeeded
  BY <1>3, <1>4, <1>5, ClosureIsClosed DEF OnlyNeeded, TreeInit, NotFound
<1>9. QED
  BY <1>4, <1>6, <1>7, <1>8 DEF WalkInv, TreeInv

\* Every step keeps the types.
LEMMA WalkTypes ==
  ASSUME WalkInv, [TreeNext]_treeVars
  PROVE  TreeTypeOK'
<1> USE DEF TreeTypeOK
<1>0. TreeTypeOK
  BY DEF WalkInv
<1>1. ASSUME NEW n \in Names, Skip(n) PROVE TreeTypeOK'
  BY <1>0, <1>1, SkipShape DEF Skip
<1>2. ASSUME NEW n \in Names, Visit(n) PROVE TreeTypeOK'
  <2>1. stack' \in Seq(Frame)
    BY <1>0, <1>2, VisitShape
  <2>2. NotFound(world.build[n]) \subseteq System
    BY <1>0 DEF NotFound
  <2>3. QED
    BY <1>0, <1>2, <2>1, <2>2 DEF Visit
<1>3. ASSUME ResolveRuntime PROVE TreeTypeOK'
  <2>1. Top.at \in Names
    BY <1>3, TopIsPackage DEF ResolveRuntime
  <2>2. stack' \in Seq(Frame)
    BY <1>0, <1>3, <2>1, RuntimeShape
  <2>3. NotFound(world.runtime[Top.at]) \subseteq System
    BY <1>0, <2>1 DEF NotFound
  <2>4. QED
    BY <1>0, <1>3, <2>2, <2>3 DEF ResolveRuntime
<1>4. ASSUME AddToOrder PROVE TreeTypeOK'
  <2>1. Top.at \in Names
    BY <1>4, TopIsPackage DEF AddToOrder
  <2>2. stack' \in Seq(Frame)
    BY <1>0, <1>4, AddShape
  <2>3. QED
    BY <1>0, <1>4, <2>1, <2>2 DEF AddToOrder
<1>5. ASSUME Return PROVE TreeTypeOK'
  BY <1>0, <1>5, ReturnShape DEF Return
<1>6. ASSUME UNCHANGED treeVars PROVE TreeTypeOK'
  BY <1>0, <1>6 DEF treeVars
<1>7. QED
  BY <1>1, <1>2, <1>3, <1>4, <1>5, <1>6 DEF TreeNext

\* A frame that waits goes on waiting, or becomes the top one.
LEMMA LowerFrame ==
  ASSUME FramesAgree, world' = world, visited \subseteq visited',
         Len(stack) \in Nat, Len(stack') \in Nat,
         NEW k \in 1..Len(stack) - 1, k <= Len(stack'), stack'[k] = stack[k],
         stack[k].at \notin Range(order'),
         k < Len(stack') => stack'[k + 1].todo \subseteq stack[k + 1].todo,
         stack[k + 1].todo \subseteq
            visited' \cup IF k = Len(stack') THEN {} ELSE stack'[k + 1].todo
  PROVE  FrameAgrees(k)'
<1>1. /\ stack[k].next = "pick" <=> stack[k].at = NoPkg
      /\ stack[k].at \in visited
      /\ Children(stack[k]) \cap Names \subseteq visited \cup stack[k + 1].todo
      /\ stack[k].at # NoPkg /\ stack[k + 1].todo \subseteq Children(stack[k])
      /\ stack[k].next = "append" => world.build[stack[k].at] \cap Names \subseteq visited
  <2>1. k \in 1..Len(stack) /\ k # Len(stack) /\ k < Len(stack)
    OBVIOUS
  <2>2. QED
    BY <2>1 DEF FramesAgree, FrameAgrees
<1>2. Children(stack[k])' = Children(stack[k])
  BY DEF Children
<1>3. Children(stack[k])' \cap Names \subseteq
         visited' \cup IF k = Len(stack') THEN {} ELSE stack'[k + 1].todo
  BY <1>1, <1>2
<1>4. k < Len(stack') => stack'[k + 1].todo \subseteq Children(stack[k])'
  BY <1>1, <1>2
<1>5. QED
  BY <1>1, <1>3, <1>4 DEF FrameAgrees

\* Every step leaves the frames in agreement with each other.
LEMMA WalkFrames ==
  ASSUME WalkInv, [TreeNext]_treeVars
  PROVE  FramesAgree'
<1>0. /\ TreeTypeOK
      /\ FramesAgree /\ StackIsPath
      /\ Range(order) \subseteq visited
      /\ visited \subseteq Range(order) \cup {stack[k].at : k \in 1..Len(stack)}
  BY DEF WalkInv, TreeInv, OrderAgrees
<1>1. ASSUME NEW n \in Names, Skip(n) PROVE FramesAgree'
  <2>1. /\ Len(stack) \in Nat /\ Len(stack) >= 1
        /\ stack[Len(stack)].next = "pick" /\ n \in visited
    BY <1>0, <1>1, StackTypes DEF Skip, Top
  <2>2. /\ Len(stack') = Len(stack)
        /\ \A k \in 1..Len(stack) - 1 : stack'[k] = stack[k]
        /\ stack'[Len(stack)].todo = stack[Len(stack)].todo \ {n}
        /\ stack'[Len(stack)].at = stack[Len(stack)].at
        /\ stack'[Len(stack)].next = "pick"
    BY <1>0, <1>1, SkipShape
  <2>3. world' = world /\ visited' = visited /\ order' = order
    BY <1>1 DEF Skip
  <2>4. SUFFICES ASSUME NEW k \in 1..Len(stack') PROVE FrameAgrees(k)'
    BY DEF FramesAgree
  <2>5. CASE k < Len(stack)
    <3>1. k \in 1..Len(stack) - 1 /\ k <= Len(stack') /\ stack'[k] = stack[k]
      BY <2>1, <2>2, <2>5
    <3>2. stack[k].at \notin Range(order')
      BY <1>0, <2>1, <2>2, <2>3, <2>5, <3>1 DEF FramesAgree, FrameAgrees
    <3>3. k < Len(stack') => stack'[k + 1].todo \subseteq stack[k + 1].todo
      <4>1. k = Len(stack) - 1 \/ k + 1 \in 1..Len(stack) - 1
        BY <2>1, <3>1
      <4>2. QED
        BY <2>1, <2>2, <4>1
    <3>4. stack[k + 1].todo \subseteq
             visited' \cup IF k = Len(stack') THEN {} ELSE stack'[k + 1].todo
      <4>1. k = Len(stack) - 1 \/ k + 1 \in 1..Len(stack) - 1
        BY <2>1, <3>1
      <4>2. QED
        BY <2>1, <2>2, <2>3, <4>1
    <3>5. /\ FramesAgree /\ world' = world /\ visited \subseteq visited'
          /\ Len(stack) \in Nat /\ Len(stack') \in Nat
      BY <1>0, <2>1, <2>2, <2>3
    <3>6. QED
      BY <3>1, <3>2, <3>3, <3>4, <3>5, LowerFrame
  <2>6. CASE k = Len(stack)
    BY <1>0, <2>1, <2>2, <2>3, <2>6 DEF FramesAgree, FrameAgrees, Children
  <2>7. QED
    BY <2>1, <2>2, <2>5, <2>6
<1>2. ASSUME NEW n \in Names, Visit(n) PROVE FramesAgree'
  <2>1. /\ Len(stack) \in Nat /\ Len(stack) >= 1
        /\ stack[Len(stack)].next = "pick"
        /\ n \notin visited /\ n \notin Range(order)
        /\ n \in stack[Len(stack)].todo
        /\ n # NoPkg
    BY <1>0, <1>2, StackTypes, TreeAssumption DEF Visit, Top, TreeAssumption
  <2>2. /\ Len(stack') = Len(stack) + 1
        /\ \A k \in 1..Len(stack) - 1 : stack'[k] = stack[k]
        /\ stack'[Len(stack)].todo = stack[Len(stack)].todo \ {n}
        /\ stack'[Len(stack)].at = n
        /\ stack'[Len(stack)].next = "runtime"
        /\ stack'[Len(stack) + 1].todo = world.build[n] \cap Names
        /\ stack'[Len(stack) + 1].at = NoPkg
        /\ stack'[Len(stack) + 1].next = "pick"
    BY <1>0, <1>2, VisitShape
  <2>3. world' = world /\ visited' = visited \cup {n} /\ order' = order
    BY <1>2 DEF Visit
  <2>4. SUFFICES ASSUME NEW k \in 1..Len(stack') PROVE FrameAgrees(k)'
    BY DEF FramesAgree
  <2>5. CASE k < Len(stack)
    <3>1. k \in 1..Len(stack) - 1 /\ k <= Len(stack') /\ stack'[k] = stack[k]
      BY <2>1, <2>2, <2>5
    <3>2. stack[k].at \notin Range(order')
      BY <1>0, <2>1, <2>2, <2>3, <2>5, <3>1 DEF FramesAgree, FrameAgrees
    <3>3. k < Len(stack') => stack'[k + 1].todo \subseteq stack[k + 1].todo
      <4>1. k = Len(stack) - 1 \/ k + 1 \in 1..Len(stack) - 1
        BY <2>1, <3>1
      <4>2. QED
        BY <2>1, <2>2, <4>1
    <3>4. stack[k + 1].todo \subseteq
             visited' \cup IF k = Len(stack') THEN {} ELSE stack'[k + 1].todo
      <4>1. k = Len(stack) - 1 \/ k + 1 \in 1..Len(stack) - 1
        BY <2>1, <3>1
      <4>2. QED
        BY <2>1, <2>2, <2>3, <4>1
    <3>5. /\ FramesAgree /\ world' = world /\ visited \subseteq visited'
          /\ Len(stack) \in Nat /\ Len(stack') \in Nat
      BY <1>0, <2>1, <2>2, <2>3
    <3>6. QED
      BY <3>1, <3>2, <3>3, <3>4, <3>5, LowerFrame
  <2>6. CASE k = Len(stack)
    BY <1>0, <2>1, <2>2, <2>3, <2>6 DEF FramesAgree, FrameAgrees, Children
  <2>7. CASE k = Len(stack) + 1
    BY <1>0, <2>1, <2>2, <2>3, <2>7 DEF FramesAgree, FrameAgrees, Children
  <2>8. QED
    BY <2>1, <2>2, <2>5, <2>6, <2>7
<1>3. ASSUME ResolveRuntime PROVE FramesAgree'
  <2>1. /\ Len(stack) \in Nat /\ Len(stack) >= 1
        /\ stack[Len(stack)].next = "runtime"
        /\ stack[Len(stack)].at \in Names /\ Top.at \in Names
    BY <1>0, <1>3, StackTypes, TopIsPackage DEF ResolveRuntime, Top
  <2>2. /\ Len(stack') = Len(stack) + 1
        /\ \A k \in 1..Len(stack) - 1 : stack'[k] = stack[k]
        /\ stack'[Len(stack)].todo = stack[Len(stack)].todo
        /\ stack'[Len(stack)].at = stack[Len(stack)].at
        /\ stack'[Len(stack)].next = "append"
        /\ stack'[Len(stack) + 1].todo = world.runtime[stack[Len(stack)].at] \cap Names
        /\ stack'[Len(stack) + 1].at = NoPkg
        /\ stack'[Len(stack) + 1].next = "pick"
    BY <1>0, <1>3, <2>1, RuntimeShape
  <2>3. world' = world /\ visited' = visited /\ order' = order
    BY <1>3 DEF ResolveRuntime
  <2>4. SUFFICES ASSUME NEW k \in 1..Len(stack') PROVE FrameAgrees(k)'
    BY DEF FramesAgree
  <2>5. CASE k < Len(stack)
    <3>1. k \in 1..Len(stack) - 1 /\ k <= Len(stack') /\ stack'[k] = stack[k]
      BY <2>1, <2>2, <2>5
    <3>2. stack[k].at \notin Range(order')
      BY <1>0, <2>1, <2>2, <2>3, <2>5, <3>1 DEF FramesAgree, FrameAgrees
    <3>3. k < Len(stack') => stack'[k + 1].todo \subseteq stack[k + 1].todo
      <4>1. k = Len(stack) - 1 \/ k + 1 \in 1..Len(stack) - 1
        BY <2>1, <3>1
      <4>2. QED
        BY <2>1, <2>2, <4>1
    <3>4. stack[k + 1].todo \subseteq
             visited' \cup IF k = Len(stack') THEN {} ELSE stack'[k + 1].todo
      <4>1. k = Len(stack) - 1 \/ k + 1 \in 1..Len(stack) - 1
        BY <2>1, <3>1
      <4>2. QED
        BY <2>1, <2>2, <2>3, <4>1
    <3>5. /\ FramesAgree /\ world' = world /\ visited \subseteq visited'
          /\ Len(stack) \in Nat /\ Len(stack') \in Nat
      BY <1>0, <2>1, <2>2, <2>3
    <3>6. QED
      BY <3>1, <3>2, <3>3, <3>4, <3>5, LowerFrame
  <2>6. CASE k = Len(stack)
    BY <1>0, <2>1, <2>2, <2>3, <2>6 DEF FramesAgree, FrameAgrees, Children
  <2>7. CASE k = Len(stack) + 1
    BY <1>0, <2>1, <2>2, <2>3, <2>7 DEF FramesAgree, FrameAgrees, Children
  <2>8. QED
    BY <2>1, <2>2, <2>5, <2>6, <2>7
<1>4. ASSUME AddToOrder PROVE FramesAgree'
  <2>1. /\ Len(stack) \in Nat /\ Len(stack) >= 1
        /\ stack[Len(stack)].next = "append"
        /\ stack[Len(stack)].at \in Names /\ Top.at \in Names
    BY <1>0, <1>4, StackTypes, TopIsPackage DEF AddToOrder, Top
  <2>2. /\ Len(stack') = Len(stack)
        /\ \A k \in 1..Len(stack) - 1 : stack'[k] = stack[k]
        /\ stack'[Len(stack)].todo = stack[Len(stack)].todo
        /\ stack'[Len(stack)].at = NoPkg
        /\ stack'[Len(stack)].next = "pick"
    BY <1>0, <1>4, AddShape
  <2>3. world' = world /\ visited' = visited
    BY <1>4 DEF AddToOrder
  <2>4. Range(order') = Range(order) \cup {stack[Len(stack)].at}
    BY <1>0, <1>4, <2>1, RangeOfAppend DEF AddToOrder, Top, TreeTypeOK
  <2>5. \A k \in 1..Len(stack) - 1 : stack[k].at # stack[Len(stack)].at
    BY <1>0, <2>1, TreeAssumption DEF StackIsPath, TreeAssumption
  <2>6. SUFFICES ASSUME NEW k \in 1..Len(stack') PROVE FrameAgrees(k)'
    BY DEF FramesAgree
  <2>7. CASE k < Len(stack)
    <3>1. k \in 1..Len(stack) - 1 /\ k <= Len(stack') /\ stack'[k] = stack[k]
      BY <2>1, <2>2, <2>7
    <3>2. stack[k].at \notin Range(order')
      BY <1>0, <2>1, <2>2, <2>3, <2>4, <2>5, <2>7, <3>1 DEF FramesAgree, FrameAgrees
    <3>3. k < Len(stack') => stack'[k + 1].todo \subseteq stack[k + 1].todo
      <4>1. k = Len(stack) - 1 \/ k + 1 \in 1..Len(stack) - 1
        BY <2>1, <3>1
      <4>2. QED
        BY <2>1, <2>2, <4>1
    <3>4. stack[k + 1].todo \subseteq
             visited' \cup IF k = Len(stack') THEN {} ELSE stack'[k + 1].todo
      <4>1. k = Len(stack) - 1 \/ k + 1 \in 1..Len(stack) - 1
        BY <2>1, <3>1
      <4>2. QED
        BY <2>1, <2>2, <2>3, <4>1
    <3>5. /\ FramesAgree /\ world' = world /\ visited \subseteq visited'
          /\ Len(stack) \in Nat /\ Len(stack') \in Nat
      BY <1>0, <2>1, <2>2, <2>3
    <3>6. QED
      BY <3>1, <3>2, <3>3, <3>4, <3>5, LowerFrame
  <2>8. CASE k = Len(stack)
    BY <1>0, <2>1, <2>2, <2>3, <2>4, <2>5, <2>8 DEF FramesAgree, FrameAgrees, Children
  <2>9. QED
    BY <2>1, <2>2, <2>7, <2>8
<1>5. ASSUME Return PROVE FramesAgree'
  <2>1. /\ Len(stack) \in Nat /\ Len(stack) >= 1
        /\ stack[Len(stack)].next = "pick" /\ stack[Len(stack)].todo = {}
    BY <1>0, <1>5, StackTypes DEF Return, Top
  <2>2. /\ Len(stack') = Len(stack) - 1
        /\ \A k \in 1..Len(stack) - 1 : stack'[k] = stack[k]
    BY <1>0, <1>5, ReturnShape
  <2>3. world' = world /\ visited' = visited /\ order' = order
    BY <1>5 DEF Return
  <2>4. SUFFICES ASSUME NEW k \in 1..Len(stack') PROVE FrameAgrees(k)'
    BY DEF FramesAgree
  <2>5. CASE k < Len(stack)
    <3>1. k \in 1..Len(stack) - 1 /\ k <= Len(stack') /\ stack'[k] = stack[k]
      BY <2>1, <2>2, <2>5
    <3>2. stack[k].at \notin Range(order')
      BY <1>0, <2>1, <2>2, <2>3, <2>5, <3>1 DEF FramesAgree, FrameAgrees
    <3>3. k < Len(stack') => stack'[k + 1].todo \subseteq stack[k + 1].todo
      <4>1. k = Len(stack) - 1 \/ k + 1 \in 1..Len(stack) - 1
        BY <2>1, <3>1
      <4>2. QED
        BY <2>1, <2>2, <4>1
    <3>4. stack[k + 1].todo \subseteq
             visited' \cup IF k = Len(stack') THEN {} ELSE stack'[k + 1].todo
      <4>1. k = Len(stack) - 1 \/ k + 1 \in 1..Len(stack) - 1
        BY <2>1, <3>1
      <4>2. QED
        BY <2>1, <2>2, <2>3, <4>1
    <3>5. /\ FramesAgree /\ world' = world /\ visited \subseteq visited'
          /\ Len(stack) \in Nat /\ Len(stack') \in Nat
      BY <1>0, <2>1, <2>2, <2>3
    <3>6. QED
      BY <3>1, <3>2, <3>3, <3>4, <3>5, LowerFrame
  <2>6. QED
    BY <2>1, <2>2, <2>5
<1>6. ASSUME UNCHANGED treeVars PROVE FramesAgree'
  BY <1>0, <1>6 DEF FramesAgree, FrameAgrees, Children, treeVars
<1>7. QED
  BY <1>1, <1>2, <1>3, <1>4, <1>5, <1>6 DEF TreeNext

\* Every step leaves what the first call has still to do.
LEMMA WalkRoot ==
  ASSUME WalkInv, [TreeNext]_treeVars
  PROVE  RootAgrees'
<1> USE DEF RootAgrees
<1>0. TreeTypeOK /\ RootAgrees
  BY DEF WalkInv, TreeInv
<1>1. ASSUME NEW n \in Names, Skip(n) PROVE RootAgrees'
  <2>1. /\ stack # <<>> /\ Len(stack) \in Nat /\ Len(stack) >= 1 /\ n \in visited
        /\ targets' = targets /\ visited' = visited
    BY <1>0, <1>1, StackTypes DEF Skip
  <2>2. /\ stack' # <<>>
        /\ stack[1].todo \subseteq stack'[1].todo \cup {n}
        /\ stack'[1].todo \subseteq stack[1].todo
    BY <1>0, <1>1, <2>1, SkipShape, EmptySeq
  <2>3. QED
    BY <1>0, <2>1, <2>2
<1>2. ASSUME NEW n \in Names, Visit(n) PROVE RootAgrees'
  <2>1. /\ stack # <<>> /\ Len(stack) \in Nat /\ Len(stack) >= 1
        /\ targets' = targets /\ visited' = visited \cup {n}
    BY <1>0, <1>2, StackTypes DEF Visit
  <2>2. /\ stack' # <<>>
        /\ stack[1].todo \subseteq stack'[1].todo \cup {n}
        /\ stack'[1].todo \subseteq stack[1].todo
    BY <1>0, <1>2, <2>1, VisitShape, EmptySeq
  <2>3. QED
    BY <1>0, <2>1, <2>2
<1>3. ASSUME ResolveRuntime PROVE RootAgrees'
  <2>1. /\ stack # <<>> /\ Len(stack) \in Nat /\ Len(stack) >= 1
        /\ targets' = targets /\ visited' = visited /\ Top.at \in Names
    BY <1>0, <1>3, StackTypes, TopIsPackage DEF ResolveRuntime
  <2>2. stack' # <<>> /\ stack'[1].todo = stack[1].todo
    BY <1>0, <1>3, <2>1, RuntimeShape, EmptySeq
  <2>3. QED
    BY <1>0, <2>1, <2>2
<1>4. ASSUME AddToOrder PROVE RootAgrees'
  <2>1. /\ stack # <<>> /\ Len(stack) \in Nat /\ Len(stack) >= 1
        /\ targets' = targets /\ visited' = visited
    BY <1>0, <1>4, StackTypes DEF AddToOrder
  <2>2. stack' # <<>> /\ stack'[1].todo = stack[1].todo
    BY <1>0, <1>4, <2>1, AddShape, EmptySeq
  <2>3. QED
    BY <1>0, <2>1, <2>2
<1>5. ASSUME Return PROVE RootAgrees'
  <2>1. /\ stack # <<>> /\ Len(stack) \in Nat /\ Len(stack) >= 1
        /\ targets' = targets /\ visited' = visited
        /\ stack[Len(stack)].todo = {}
    BY <1>0, <1>5, StackTypes DEF Return, Top
  <2>2. /\ stack' = <<>> <=> Len(stack) = 1
        /\ Len(stack) # 1 => stack'[1].todo = stack[1].todo
    BY <1>0, <1>5, <2>1, ReturnShape
  <2>3. CASE Len(stack) = 1
    BY <1>0, <2>1, <2>2, <2>3
  <2>4. CASE Len(stack) # 1
    <3>1. stack' # <<>> /\ stack'[1].todo = stack[1].todo
      BY <2>2, <2>4
    <3>2. QED
      BY <1>0, <2>1, <3>1
  <2>5. QED
    BY <2>1, <2>3, <2>4
<1>6. ASSUME UNCHANGED treeVars PROVE RootAgrees'
  BY <1>0, <1>6 DEF treeVars
<1>7. QED
  BY <1>1, <1>2, <1>3, <1>4, <1>5, <1>6 DEF TreeNext

\* The packages whose calls are in progress.
InProgress == {stack[k].at : k \in 1..Len(stack)}

\* A list that is extended by a new element has no duplicates either.
LEMMA InjectiveAppend ==
  ASSUME NEW S, NEW s \in Seq(S), IsInjective(s), NEW e \in S, e \notin Range(s)
  PROVE  IsInjective(Append(s, e))
<1>1. /\ Len(s) \in Nat
      /\ DOMAIN s = 1..Len(s)
      /\ DOMAIN Append(s, e) = 1..Len(s) + 1
      /\ \A i \in 1..Len(s) : Append(s, e)[i] = s[i]
      /\ Append(s, e)[Len(s) + 1] = e
  BY AppendProperties, LenProperties
<1>2. Range(s) = {s[i] : i \in 1..Len(s)}
  BY RangeEquality
<1>3. QED
  BY <1>1, <1>2 DEF IsInjective

\* Every step leaves each node in the order, once, or in progress.
LEMMA WalkOrder ==
  ASSUME WalkInv, [TreeNext]_treeVars
  PROVE  OrderAgrees'
<1>0. /\ TreeTypeOK /\ FramesAgree
      /\ Range(order) \subseteq visited
      /\ visited \subseteq Range(order) \cup InProgress
      /\ IsInjective(order)
      /\ \A n \in Range(order) : Requires(n) \cap Names \subseteq visited
  BY DEF WalkInv, TreeInv, OrderAgrees, InProgress
<1>1. ASSUME NEW n \in Names, Skip(n) PROVE OrderAgrees'
  <2>1. InProgress' = InProgress
    <3>1. stack # <<>>
      BY <1>1 DEF Skip
    <3>2. PICK m \in Nat : m = Len(stack)
      BY ONLY <1>0, <3>1, StackTypes
    <3>3. Len(stack') = m /\ \A k \in 1..m : stack'[k].at = stack[k].at
      BY ONLY <1>0, <1>1, <3>2, SkipShape
    <3> QED
      BY <3>2, <3>3 DEF InProgress
  <2>2. visited' = visited /\ order' = order /\ world' = world
    BY <1>1 DEF Skip
  <2>3. QED
    BY <1>0, <2>1, <2>2 DEF OrderAgrees, InProgress, Requires
<1>2. ASSUME NEW n \in Names, Visit(n) PROVE OrderAgrees'
  <2>1. InProgress \ {NoPkg} \subseteq InProgress' /\ n \in InProgress'
    <3>1. /\ stack # <<>> /\ Len(stack) \in Nat /\ Len(stack) >= 1
          /\ stack[Len(stack)].at = NoPkg
      BY <1>0, <1>2, StackTypes DEF Visit, Top, FramesAgree, FrameAgrees
    <3>2. QED
      BY <1>0, <1>2, <3>1, VisitShape DEF InProgress
  <2>2. visited' = visited \cup {n} /\ order' = order /\ world' = world
    BY <1>2 DEF Visit
  <2>3. NoPkg \notin visited
    BY <1>0, TreeAssumption DEF TreeTypeOK, TreeAssumption
  <2>4. QED
    BY <1>0, <2>1, <2>2, <2>3 DEF OrderAgrees, InProgress, Requires
<1>3. ASSUME ResolveRuntime PROVE OrderAgrees'
  <2>1. InProgress \subseteq InProgress'
    <3>1. /\ stack # <<>> /\ Len(stack) \in Nat /\ Len(stack) >= 1
          /\ Top.at \in Names
      BY <1>0, <1>3, StackTypes, TopIsPackage DEF ResolveRuntime
    <3>2. QED
      BY <1>0, <1>3, <3>1, RuntimeShape DEF InProgress
  <2>2. visited' = visited /\ order' = order /\ world' = world
    BY <1>3 DEF ResolveRuntime
  <2>3. QED
    BY <1>0, <2>1, <2>2 DEF OrderAgrees, InProgress, Requires
<1>4. ASSUME AddToOrder PROVE OrderAgrees'
  <2>1. /\ stack # <<>> /\ Len(stack) \in Nat /\ Len(stack) >= 1
        /\ stack[Len(stack)] = Top /\ Top.next = "append"
        /\ Top.at \in Names
    BY <1>0, <1>4, StackTypes, TopIsPackage DEF AddToOrder, Top
  <2>2. /\ Top.at \in visited \ Range(order)
        /\ Requires(Top.at) \cap Names \subseteq visited
    BY <1>0, <2>1, TreeAssumption
    DEF FramesAgree, FrameAgrees, Children, Requires, TreeAssumption
  <2>3. InProgress \ {Top.at} \subseteq InProgress'
    BY <1>0, <1>4, <2>1, AddShape DEF InProgress
  <2>4. visited' = visited /\ order' = Append(order, Top.at) /\ world' = world
    BY <1>4 DEF AddToOrder
  <2>5. order \in Seq(Names)
    BY <1>0 DEF TreeTypeOK
  <2>6. Range(order') = Range(order) \cup {Top.at} /\ IsInjective(order')
    BY <1>0, <2>1, <2>2, <2>4, <2>5, RangeOfAppend, InjectiveAppend
  <2>7. \A n \in Range(order') : Requires(n)' \cap Names \subseteq visited'
    BY <1>0, <2>2, <2>4, <2>6 DEF Requires
  <2>8. QED
    BY <1>0, <2>2, <2>3, <2>4, <2>6, <2>7 DEF OrderAgrees, InProgress
<1>5. ASSUME Return PROVE OrderAgrees'
  <2>1. InProgress \ {NoPkg} \subseteq InProgress'
    <3>1. /\ stack # <<>> /\ Len(stack) \in Nat /\ Len(stack) >= 1
          /\ stack[Len(stack)].at = NoPkg
      BY <1>0, <1>5, StackTypes DEF Return, Top, FramesAgree, FrameAgrees
    <3>2. QED
      BY <1>0, <1>5, <3>1, ReturnShape DEF InProgress
  <2>2. visited' = visited /\ order' = order /\ world' = world
    BY <1>5 DEF Return
  <2>3. NoPkg \notin visited
    BY <1>0, TreeAssumption DEF TreeTypeOK, TreeAssumption
  <2>4. QED
    BY <1>0, <2>1, <2>2, <2>3 DEF OrderAgrees, InProgress, Requires
<1>6. ASSUME UNCHANGED treeVars PROVE OrderAgrees'
  BY <1>0, <1>6 DEF OrderAgrees, InProgress, Requires, treeVars
<1>7. QED
  BY <1>1, <1>2, <1>3, <1>4, <1>5, <1>6 DEF TreeNext

\* Every step leaves every name that is not found noted, or about to be.
LEMMA WalkSystem ==
  ASSUME WalkInv, [TreeNext]_treeVars
  PROVE  SystemAgrees'
<1> DEFINE Awaits(n) == \E k \in 1..Len(stack) : stack[k].at = n /\ stack[k].next = "runtime"
<1>0. /\ TreeTypeOK /\ FramesAgree
      /\ NotFound(Range(targets)) \subseteq systemDeps
      /\ \A n \in visited : /\ NotFound(world.build[n]) \subseteq systemDeps
                            /\ NotFound(world.runtime[n]) \subseteq systemDeps \/ Awaits(n)
  BY DEF WalkInv, TreeInv, SystemAgrees
<1>a. ASSUME world' = world, targets' = targets,
             systemDeps \subseteq systemDeps',
             \A n \in visited' :
                /\ NotFound(world.build[n]) \subseteq systemDeps'
                /\ NotFound(world.runtime[n]) \subseteq systemDeps' \/ Awaits(n)'
      PROVE  SystemAgrees'
  BY <1>0, <1>a DEF SystemAgrees, NotFound
<1>1. ASSUME NEW n \in Names, Skip(n) PROVE SystemAgrees'
  <2>1. /\ stack # <<>> /\ Len(stack) \in Nat /\ Len(stack) >= 1
        /\ stack[Len(stack)].next # "runtime"
    BY <1>0, <1>1, StackTypes DEF Skip, Top
  <2>2. \A m : Awaits(m) => Awaits(m)'
    BY <1>0, <1>1, <2>1, SkipShape
  <2>3. /\ world' = world /\ targets' = targets
        /\ visited' = visited /\ systemDeps' = systemDeps
    BY <1>1 DEF Skip
  <2> HIDE DEF Awaits
  <2>4. QED
    BY <1>0, <1>a, <2>2, <2>3
<1>2. ASSUME NEW n \in Names, Visit(n) PROVE SystemAgrees'
  <2>1. /\ stack # <<>> /\ Len(stack) \in Nat /\ Len(stack) >= 1
        /\ stack[Len(stack)].next # "runtime"
    BY <1>0, <1>2, StackTypes DEF Visit, Top
  <2>2. Awaits(n)' /\ \A m : Awaits(m) => Awaits(m)'
    BY <1>0, <1>2, <2>1, VisitShape
  <2>3. /\ world' = world /\ targets' = targets /\ visited' = visited \cup {n}
        /\ systemDeps' = systemDeps \cup NotFound(world.build[n])
    BY <1>2 DEF Visit
  <2> HIDE DEF Awaits
  <2>4. QED
    BY <1>0, <1>a, <2>2, <2>3
<1>3. ASSUME ResolveRuntime PROVE SystemAgrees'
  <2>1. /\ stack # <<>> /\ Len(stack) \in Nat /\ Len(stack) >= 1
        /\ stack[Len(stack)] = Top /\ Top.at \in Names
    BY <1>0, <1>3, StackTypes, TopIsPackage DEF ResolveRuntime, Top
  <2>2. \A m : Awaits(m) /\ m # Top.at => Awaits(m)'
    BY <1>0, <1>3, <2>1, RuntimeShape
  <2>3. /\ world' = world /\ targets' = targets /\ visited' = visited
        /\ systemDeps' = systemDeps \cup NotFound(world.runtime[Top.at])
    BY <1>3 DEF ResolveRuntime
  <2> HIDE DEF Awaits
  <2>4. QED
    BY <1>0, <1>a, <2>2, <2>3
<1>4. ASSUME AddToOrder PROVE SystemAgrees'
  <2>1. /\ stack # <<>> /\ Len(stack) \in Nat /\ Len(stack) >= 1
        /\ stack[Len(stack)].next # "runtime"
    BY <1>0, <1>4, StackTypes DEF AddToOrder, Top
  <2>2. \A m : Awaits(m) => Awaits(m)'
    BY <1>0, <1>4, <2>1, AddShape
  <2>3. /\ world' = world /\ targets' = targets
        /\ visited' = visited /\ systemDeps' = systemDeps
    BY <1>4 DEF AddToOrder
  <2> HIDE DEF Awaits
  <2>4. QED
    BY <1>0, <1>a, <2>2, <2>3
<1>5. ASSUME Return PROVE SystemAgrees'
  <2>1. /\ stack # <<>> /\ Len(stack) \in Nat /\ Len(stack) >= 1
        /\ stack[Len(stack)].next # "runtime"
    BY <1>0, <1>5, StackTypes DEF Return, Top
  <2>2. \A m : Awaits(m) => Awaits(m)'
    BY <1>0, <1>5, <2>1, ReturnShape
  <2>3. /\ world' = world /\ targets' = targets
        /\ visited' = visited /\ systemDeps' = systemDeps
    BY <1>5 DEF Return
  <2> HIDE DEF Awaits
  <2>4. QED
    BY <1>0, <1>a, <2>2, <2>3
<1>6. ASSUME UNCHANGED treeVars PROVE SystemAgrees'
  BY <1>0, <1>a, <1>6 DEF treeVars
<1>7. QED
  BY <1>1, <1>2, <1>3, <1>4, <1>5, <1>6 DEF TreeNext

\* What the call above a frame goes through is needed by the frame's package.
LEMMA TodoIsRequired ==
  ASSUME WalkInv, stack # <<>>
  PROVE  IF Len(stack) = 1
         THEN Top.todo \subseteq Range(targets)
         ELSE /\ stack[Len(stack) - 1].at \in visited
              /\ Top.todo \subseteq Requires(stack[Len(stack) - 1].at)
<1>1. Len(stack) \in Nat /\ Len(stack) >= 1
  BY StackTypes DEF WalkInv
<1>2. CASE Len(stack) = 1
  BY <1>2 DEF WalkInv, TreeInv, RootAgrees, Top
<1>3. CASE Len(stack) # 1
  <2>1. Len(stack) - 1 \in 1..Len(stack) /\ Len(stack) - 1 < Len(stack)
        /\ Len(stack) - 1 + 1 = Len(stack)
    <3>1. PICK n \in Nat : n = Len(stack)
      BY <1>1
    <3>2. n - 1 \in 1..n /\ n - 1 < n /\ n - 1 + 1 = n
      BY ONLY <1>1, <1>3, <3>1, n \in Nat
    <3> QED
      BY ONLY <3>1, <3>2
  <2>2. /\ stack[Len(stack) - 1].at \in visited
        /\ Top.todo \subseteq Children(stack[Len(stack) - 1])
    BY <2>1 DEF WalkInv, TreeInv, FramesAgree, FrameAgrees, Top
  <2>3. QED
    BY <1>3, <2>2 DEF Children, Requires
<1>4. QED
  BY <1>2, <1>3

\* Every step leaves nothing resolved that is not needed.
LEMMA WalkNeeded ==
  ASSUME WalkInv, [TreeNext]_treeVars
  PROVE  OnlyNeeded'
<1> DEFINE N == Closure(Range(targets))
<1>0. TreeTypeOK /\ visited \cup systemDeps \subseteq N /\ visited \subseteq Names
  BY DEF WalkInv, TreeInv, OnlyNeeded, TreeTypeOK
<1>1. Range(targets) \subseteq Known
  BY <1>0, TreeAssumption, RangeOfSeq DEF TreeTypeOK, TreeAssumption, Known
<1>2. Range(targets) \subseteq N /\ \A m \in N \cap Names : Requires(m) \subseteq N
  BY <1>0, <1>1, ClosureIsClosed
<1>3. ASSUME world' = world, targets' = targets,
             visited' \cup systemDeps' \subseteq N
      PROVE  OnlyNeeded'
  BY <1>3, SameNeeds DEF OnlyNeeded
<1> HIDE DEF N
<1>4. ASSUME NEW n \in Names, Visit(n) PROVE OnlyNeeded'
  <2>1. n \in N
    BY <1>0, <1>2, <1>4, TodoIsRequired DEF Visit
  <2>2. world.build[n] \subseteq N
    BY <1>2, <2>1 DEF Requires
  <2>3. QED
    BY <1>0, <1>3, <1>4, <2>1, <2>2 DEF Visit, NotFound
<1>5. ASSUME ResolveRuntime PROVE OnlyNeeded'
  <2>1. /\ Top.at \in visited /\ Top.at \in Names
    <3>1. Len(stack) \in 1..Len(stack) /\ stack[Len(stack)] = Top /\ Top.at \in Names
      BY <1>0, <1>5, StackTypes, TopIsPackage DEF ResolveRuntime, Top
    <3>2. Top.at # NoPkg
      BY <3>1, TreeAssumption DEF TreeAssumption
    <3>3. QED
      BY <3>1, <3>2 DEF WalkInv, TreeInv, FramesAgree, FrameAgrees
  <2>2. world.runtime[Top.at] \subseteq N
    BY <1>0, <1>2, <2>1 DEF Requires
  <2>3. QED
    BY <1>0, <1>3, <1>5, <2>2 DEF ResolveRuntime, NotFound
<1>6. ASSUME \/ \E n \in Names : Skip(n)
             \/ AddToOrder \/ Return \/ UNCHANGED treeVars
      PROVE  OnlyNeeded'
  BY <1>0, <1>3, <1>6 DEF Skip, AddToOrder, Return, treeVars
<1>7. QED
  BY <1>4, <1>5, <1>6 DEF TreeNext

\* A path stays one when packages leave it.
LEMMA ShorterPath ==
  ASSUME StackIsPath, world' = world,
         Len(stack) \in Nat, Len(stack') \in Nat,
         \A k \in 1..Len(stack') : stack'[k].at # NoPkg =>
            k \in 1..Len(stack) /\ stack'[k].at = stack[k].at
  PROVE  StackIsPath'
<1>1. \A m, n : Needs(m, n)' <=> Needs(m, n)
  BY DEF Needs, Closure, Closed, Requires
<1>2. QED
  BY <1>1 DEF StackIsPath

\* Every step leaves the calls in progress a path.
LEMMA WalkPath ==
  ASSUME WalkInv, [TreeNext]_treeVars
  PROVE  StackIsPath'
<1>0. TreeTypeOK /\ FramesAgree /\ StackIsPath
  BY DEF WalkInv, TreeInv
<1>1. ASSUME NEW n \in Names, Skip(n) PROVE StackIsPath'
  <2>1. /\ Len(stack) \in Nat /\ Len(stack') \in Nat /\ world' = world
        /\ \A k \in 1..Len(stack') : k \in 1..Len(stack) /\ stack'[k].at = stack[k].at
    BY <1>0, <1>1, StackTypes, SkipShape DEF Skip
  <2>2. QED
    BY <1>0, <2>1, ShorterPath
<1>2. ASSUME NEW n \in Names, Visit(n) PROVE StackIsPath'
  <2>1. /\ stack # <<>> /\ Len(stack) \in Nat /\ Len(stack) >= 1
        /\ n \in Top.todo /\ n \notin visited
        /\ world' = world /\ targets' = targets
    BY <1>0, <1>2, StackTypes DEF Visit
  <2>2. /\ Len(stack') = Len(stack) + 1
        /\ \A k \in 1..Len(stack) - 1 : stack'[k] = stack[k]
        /\ stack'[Len(stack)].at = n
        /\ stack'[Len(stack) + 1].at = NoPkg
    BY <1>0, <1>2, VisitShape
  <2>3. \A m, d : Needs(m, d)' <=> Needs(m, d)
    BY <2>1, SameNeeds
  <2>4. ASSUME NEW k \in 1..Len(stack) - 1
        PROVE  stack[k].at # NoPkg /\ stack[k].at \in visited
    <3>1. k \in 1..Len(stack) /\ k < Len(stack)
      BY <2>1
    <3>2. QED
      BY <1>0, <3>1 DEF FramesAgree, FrameAgrees
  <2>5. ASSUME NEW k \in 1..Len(stack) - 1
        PROVE  stack[k].at # n /\ Needs(stack[k].at, n)
    <3> DEFINE caller == stack[Len(stack) - 1].at
    <3>1. /\ Len(stack) - 1 \in 1..Len(stack) - 1 /\ Len(stack) # 1
          /\ k \in 1..Len(stack) /\ Len(stack) - 1 \in 1..Len(stack)
          /\ k = Len(stack) - 1 \/ k < Len(stack) - 1
      <4>1. \A L \in Nat : k \in 1..L - 1 =>
               /\ L - 1 \in 1..L - 1 /\ L # 1
               /\ k \in 1..L /\ L - 1 \in 1..L
               /\ k = L - 1 \/ k < L - 1
        OBVIOUS
      <4>2. QED
        BY <2>1, <4>1
    <3>2. /\ stack[k].at \in visited /\ stack[k].at # NoPkg
          /\ caller \in visited /\ caller # NoPkg
      BY <2>4, <3>1
    <3>3. stack[k].at \in Known /\ caller \in Names
      BY <1>0, <3>2 DEF TreeTypeOK, Known
    <3>4. n \in Requires(caller)
      BY <2>1, <3>1, TodoIsRequired
    <3>5. Needs(stack[k].at, caller)
      BY <1>0, <3>1, <3>2, <3>3, NeedsSelf DEF StackIsPath
    <3>6. Needs(stack[k].at, n)
      BY <1>0, <3>3, <3>4, <3>5, NeedsStep
    <3>7. QED
      BY <2>1, <3>2, <3>6
  <2>6. SUFFICES ASSUME NEW i \in 1..Len(stack'), NEW j \in 1..Len(stack'), i < j,
                        stack'[i].at # NoPkg, stack'[j].at # NoPkg
                 PROVE  stack'[i].at # stack'[j].at /\ Needs(stack'[i].at, stack'[j].at)
    BY <2>3 DEF StackIsPath
  <2>7. i \in 1..Len(stack) - 1 /\ (j \in 1..Len(stack) - 1 \/ j = Len(stack))
    BY <2>1, <2>2, <2>6
  <2>8. CASE j = Len(stack)
    BY <2>2, <2>5, <2>7, <2>8
  <2>9. CASE j \in 1..Len(stack) - 1
    <3>1. i \in 1..Len(stack) /\ j \in 1..Len(stack)
      BY <2>1, <2>7, <2>9
    <3>2. stack'[i] = stack[i] /\ stack'[j] = stack[j]
      BY <2>2, <2>7, <2>9
    <3>3. QED
      BY <1>0, <2>6, <3>1, <3>2 DEF StackIsPath
  <2>10. QED
    BY <2>7, <2>8, <2>9
<1>3. ASSUME ResolveRuntime PROVE StackIsPath'
  <2>1. /\ Len(stack) \in Nat /\ Len(stack) >= 1 /\ Top.at \in Names /\ world' = world
    BY <1>0, <1>3, StackTypes, TopIsPackage DEF ResolveRuntime
  <2>2. /\ Len(stack') \in Nat
        /\ \A k \in 1..Len(stack') : stack'[k].at # NoPkg =>
              k \in 1..Len(stack) /\ stack'[k].at = stack[k].at
    BY <1>0, <1>3, <2>1, RuntimeShape
  <2>3. QED
    BY <1>0, <2>1, <2>2, ShorterPath
<1>4. ASSUME AddToOrder PROVE StackIsPath'
  <2>1. /\ Len(stack) \in Nat /\ Len(stack) >= 1 /\ world' = world
    BY <1>0, <1>4, StackTypes DEF AddToOrder
  <2>2. /\ Len(stack') \in Nat
        /\ \A k \in 1..Len(stack') : stack'[k].at # NoPkg =>
              k \in 1..Len(stack) /\ stack'[k].at = stack[k].at
    BY <1>0, <1>4, <2>1, AddShape
  <2>3. QED
    BY <1>0, <2>1, <2>2, ShorterPath
<1>5. ASSUME Return PROVE StackIsPath'
  <2>1. /\ Len(stack) \in Nat /\ Len(stack) >= 1 /\ world' = world
    BY <1>0, <1>5, StackTypes DEF Return
  <2>2. /\ Len(stack') \in Nat
        /\ \A k \in 1..Len(stack') : k \in 1..Len(stack) /\ stack'[k].at = stack[k].at
    BY <1>0, <1>5, <2>1, ReturnShape
  <2>3. QED
    BY <1>0, <2>1, <2>2, ShorterPath
<1>6. ASSUME UNCHANGED treeVars PROVE StackIsPath'
  BY <1>0, <1>6 DEF StackIsPath, Needs, Closure, Closed, Requires, treeVars
<1>7. QED
  BY <1>1, <1>2, <1>3, <1>4, <1>5, <1>6 DEF TreeNext

\* Every step leaves the order topological.
LEMMA WalkTopological ==
  ASSUME WalkInv, [TreeNext]_treeVars
  PROVE  OrderIsTopological'
<1>0. /\ TreeTypeOK /\ FramesAgree /\ StackIsPath /\ OrderAgrees /\ OrderIsTopological
      /\ order \in Seq(Names) /\ Len(order) \in Nat
  BY LenProperties DEF WalkInv, TreeInv, TreeTypeOK
<1>1. ASSUME AddToOrder PROVE OrderIsTopological'
  <2>1. /\ stack # <<>> /\ Len(stack) \in Nat /\ Len(stack) >= 1
        /\ Len(stack) \in 1..Len(stack) /\ stack[Len(stack)] = Top
        /\ Top.at \in Names /\ Top.next = "append" /\ Top.at # NoPkg
        /\ world' = world /\ targets' = targets /\ order' = Append(order, Top.at)
    BY <1>0, <1>1, StackTypes, TopIsPackage, TreeAssumption
    DEF AddToOrder, Top, TreeAssumption
  <2>2. /\ \A m, d : Needs(m, d)' <=> Needs(m, d)
        /\ \A m : Requires(m)' = Requires(m)
    BY <2>1, SameNeeds
  <2>3. /\ order' \in Seq(Names) /\ Len(order') = Len(order) + 1
        /\ \A i \in 1..Len(order) : order'[i] = order[i]
        /\ order'[Len(order) + 1] = Top.at
    BY <1>0, <2>1, AppendProperties
  <2>4. ASSUME NEW i \in 1..Len(order')
        PROVE  Range(SubSeq(order', 1, i)) = {order'[j] : j \in 1..i}
    BY <2>3, RangeOfPrefix
  <2>5. ASSUME NEW i \in 1..Len(order)
        PROVE  Range(SubSeq(order, 1, i)) = {order[j] : j \in 1..i}
    BY <1>0, RangeOfPrefix
  <2>6. Range(order) = {order[j] : j \in 1..Len(order)}
    BY <1>0, RangeEquality
  <2>7. SUFFICES ASSUME NEW i \in 1..Len(order'), NEW d \in Requires(order'[i]) \cap Names
                 PROVE  Needs(d, order'[i]) \/ d \in {order'[j] : j \in 1..i}
    BY <2>2, <2>4 DEF OrderIsTopological
  <2>8. CASE i \in 1..Len(order)
    <3>1. Needs(d, order[i]) \/ d \in {order[j] : j \in 1..i}
      BY <1>0, <2>3, <2>5, <2>7, <2>8 DEF OrderIsTopological
    <3>2. \A j \in 1..i : order'[j] = order[j]
      BY <1>0, <2>3, <2>8
    <3>3. QED
      BY <2>3, <2>8, <3>1, <3>2
  <2>9. CASE i = Len(order) + 1
    <3>1. order'[i] = Top.at
      BY <2>3, <2>9
    <3>2. d \in visited
      BY <1>0, <2>1, <2>7, <3>1 DEF FramesAgree, FrameAgrees, Children, Requires
    <3>3. CASE d \in Range(order)
      <4>1. PICK j \in 1..Len(order) : order[j] = d
        BY <2>6, <3>3
      <4>2. j \in 1..i /\ order'[j] = d
        BY <1>0, <2>3, <2>9, <4>1
      <4>3. QED
        BY <4>2
    <3>4. CASE d \notin Range(order)
      <4>1. PICK k \in 1..Len(stack) : stack[k].at = d
        BY <1>0, <3>2, <3>4 DEF OrderAgrees
      <4>2. CASE k = Len(stack)
        <5>1. i \in 1..i /\ order'[i] = d
          BY <1>0, <2>1, <2>9, <3>1, <4>1, <4>2
        <5>2. QED
          BY <5>1
      <4>3. CASE k < Len(stack)
        <5>1. d # NoPkg
          BY <2>7, TreeAssumption DEF TreeAssumption
        <5>2. QED
          BY <1>0, <2>1, <3>1, <4>1, <4>3, <5>1 DEF StackIsPath
      <4>4. QED
        BY <2>1, <4>1, <4>2, <4>3
    <3>5. QED
      BY <3>3, <3>4
  <2>10. QED
    BY <1>0, <2>3, <2>7, <2>8, <2>9
<1>2. ASSUME \/ \E n \in Names : Skip(n) \/ Visit(n)
             \/ ResolveRuntime \/ Return \/ UNCHANGED treeVars
      PROVE  OrderIsTopological'
  <2>1. world' = world /\ targets' = targets /\ order' = order
    BY <1>2 DEF Skip, Visit, ResolveRuntime, Return, treeVars
  <2>2. QED
    BY <1>0, <2>1, SameNeeds DEF OrderIsTopological
<1>3. QED
  BY <1>1, <1>2 DEF TreeNext

LEMMA WalkStep == WalkInv /\ [TreeNext]_treeVars => WalkInv'
<1>1. SUFFICES ASSUME WalkInv, [TreeNext]_treeVars PROVE WalkInv'
  OBVIOUS
<1>2. QED
  BY <1>1, WalkTypes, WalkFrames, WalkRoot, WalkOrder, WalkSystem, WalkNeeded,
     WalkPath, WalkTopological
  DEF WalkInv, TreeInv

\* When no call is left, nothing is left to do.
LEMMA WalkIsComplete == WalkInv => TreeIsComplete
<1> SUFFICES ASSUME WalkInv, stack = <<>> PROVE
        /\ visited = Closure(Range(targets)) \cap Names
        /\ systemDeps = Closure(Range(targets)) \cap System
        /\ Range(order) = visited
        /\ Len(order) = Cardinality(visited)
  BY DEF TreeIsComplete, Resolved
<1> DEFINE C == visited \cup systemDeps
<1>1. TreeTypeOK /\ Len(stack) = 0
  BY DEF WalkInv
<1>2. Range(order) = visited
  <2>1. \A n : n \notin {stack[k].at : k \in 1..Len(stack)}
    BY <1>1
  <2>2. Range(order) \subseteq visited
        /\ visited \subseteq Range(order) \cup {stack[k].at : k \in 1..Len(stack)}
    BY DEF WalkInv, TreeInv, OrderAgrees
  <2>3. QED
    BY <2>1, <2>2
<1>3. Len(order) = Cardinality(visited)
  BY <1>1, <1>2, LengthOfList DEF WalkInv, TreeInv, OrderAgrees, TreeTypeOK
<1>4. Range(targets) \subseteq Known
  BY <1>1, TreeAssumption, RangeOfSeq DEF TreeTypeOK, TreeAssumption, Known
<1>5. Range(targets) \subseteq C
  BY <1>4 DEF WalkInv, TreeInv, RootAgrees, SystemAgrees, NotFound, Known
<1>6. Closed(C)
  <2>1. SUFFICES ASSUME NEW n \in visited PROVE Requires(n) \subseteq C
    BY <1>1, TreeAssumption DEF Closed, TreeTypeOK, TreeAssumption
  <2>2. Requires(n) \cap Names \subseteq visited
    BY <1>2 DEF WalkInv, TreeInv, OrderAgrees
  <2>3. Requires(n) \ Names \subseteq systemDeps
    BY <1>1 DEF WalkInv, TreeInv, SystemAgrees, NotFound, Requires
  <2>4. QED
    BY <2>2, <2>3
<1>7. Closure(Range(targets)) = C
  <2>1. C \subseteq Known
    BY <1>1 DEF TreeTypeOK, Known
  <2>2. Closure(Range(targets)) \subseteq C
    BY <1>5, <1>6, <2>1, ClosureIsLeast
  <2>3. QED
    BY <2>2 DEF WalkInv, TreeInv, OnlyNeeded
<1>8. QED
  BY <1>1, <1>2, <1>3, <1>7, TreeAssumption DEF TreeTypeOK, TreeAssumption

-----------------------------------------------------------------------------
(* The installation *)

\* An installation begins with the walk and leaves its result alone.
LEMMA InstallRefinesTree ==
  /\ Init => TreeInit
  /\ [Next]_vars => [TreeNext]_treeVars
<1>1. Init => TreeInit
  BY DEF Init
<1>2. ASSUME [Next]_vars PROVE [TreeNext]_treeVars
  BY <1>2
  DEF Next, vars, givenVars, Resolve, ResolveFails, Plan, Confirm, InstallSystemDeps,
      ViewScripts, SkipPackage, UseCached, Build, PackageFails, InstallBuilt,
      LoopEnds, InstallTargets, Cleanup
<1>3. QED
  BY <1>1, <1>2

\* The installation implements the walk of ResolveUnifiedDependencyTree: no
\* step of InstallPkgs touches the tree but through it (build.go 903-1159).
THEOREM InstallImplementsWalk == Spec => TreeSpec
  BY InstallRefinesTree, PTL DEF Spec, TreeSpec

LEMMA WalkAlways == Spec => []WalkInv
  BY WalkInit, WalkStep, InstallImplementsWalk, PTL DEF TreeSpec

\* Whatever the databases and the request, with any cycles in them, a tree
\* that is done has what is needed, each package once, and nothing else
\* (dependency_tree.go 88-232).
THEOREM TreeIsAlwaysComplete == Spec => []TreeIsComplete
  BY WalkAlways, WalkIsComplete, PTL

\* The order of installation puts every package after its dependencies, but
\* for those it is in turn needed by (dependency_tree.go 43, 227-228).
THEOREM OrderIsAlwaysTopological == Spec => []OrderIsTopological
<1>1. WalkInv => OrderIsTopological
  BY DEF WalkInv, TreeInv
<1>2. QED
  BY <1>1, WalkAlways, PTL

\* No cycle makes resolve call itself without end: the calls in progress are
\* for distinct packages (dependency_tree.go 103-108).
THEOREM StackIsAlwaysPath == Spec => []StackIsPath
<1>1. WalkInv => StackIsPath
  BY DEF WalkInv, TreeInv
<1>2. QED
  BY <1>1, WalkAlways, PTL

\* An interactive call that was not confirmed is at the question, before it,
\* or over, and has done nothing; a confirmed one is never asked again.
ConsentInv ==
    /\ pc = "resolve" => ~confirmed
    /\ interactive /\ ~confirmed => pc \in {"resolve", "confirm", "error", "cancelled"}
    /\ NothingBeforeConsent
    /\ pc \in {"resolve", "confirm"} => ~asked
    /\ interactive /\ ~confirmed => ~asked

\* Nothing is installed or built before the user agreed, and after that the
\* package manager does not ask again, whatever fails in between
\* (build.go 920-964, 974, 1110, 1131).
THEOREM NeverBeforeConsent == Spec => []NothingBeforeConsent
<1> USE DEF ConsentInv, NothingBeforeConsent
<1>1. Init => ConsentInv
  BY DEF Init
<1>2. ConsentInv /\ [Next]_vars => ConsentInv'
  <2> SUFFICES ASSUME ConsentInv, [Next]_vars PROVE ConsentInv'
    OBVIOUS
  <2> USE DEF givenVars, callVars, Goto
  <2>1. CASE Resolve
    BY <2>1 DEF Resolve
  <2>2. CASE ResolveFails
    BY <2>2 DEF ResolveFails
  <2>3. CASE Plan
    BY <2>3 DEF Plan
  <2>4. CASE Confirm
    BY <2>4 DEF Confirm
  <2>5. CASE InstallSystemDeps
    BY <2>5 DEF InstallSystemDeps, RunManager
  <2>6. CASE ViewScripts
    BY <2>6 DEF ViewScripts
  <2>7. CASE SkipPackage
    BY <2>7 DEF SkipPackage, Advance
  <2>8. CASE UseCached
    BY <2>8 DEF UseCached, Due, Advance, RunManager
  <2>9. CASE Build
    BY <2>9 DEF Build, Due, Advance
  <2>10. CASE PackageFails
    BY <2>10 DEF PackageFails
  <2>11. CASE InstallBuilt
    BY <2>11 DEF InstallBuilt, Advance, RunManager
  <2>12. CASE LoopEnds
    BY <2>12 DEF LoopEnds
  <2>13. CASE InstallTargets
    BY <2>13 DEF InstallTargets, RunManager
  <2>14. CASE Cleanup
    BY <2>14 DEF Cleanup
  <2>15. CASE UNCHANGED vars
    BY <2>15 DEF vars
  <2>16. QED
    BY <2>1, <2>2, <2>3, <2>4, <2>5, <2>6, <2>7, <2>8, <2>9, <2>10, <2>11, <2>12,
       <2>13, <2>14, <2>15 DEF Next
<1>3. QED
  BY <1>1, <1>2, PTL DEF Spec

-----------------------------------------------------------------------------
(* The list of packages to install *)

\* How many positions of S there are up to i.
Rank(S, i) == Cardinality({j \in S : j <= i})

\* The k-th position is there, for every k, and is as far on as k is.
LEMMA NthPosition ==
  ASSUME NEW n \in Nat, NEW S \in SUBSET (1..n)
  PROVE  /\ Cardinality(S) \in Nat
         /\ \A k \in 1..Cardinality(S) : Nth(S, k) \in S /\ Rank(S, Nth(S, k)) = k
         /\ \A i \in S : \E k \in 1..Cardinality(S) : Nth(S, k) = i
         /\ \A k, l \in 1..Cardinality(S) : k < l => Nth(S, k) < Nth(S, l)
<1>1. IsFiniteSet(S) /\ Cardinality(S) \in Nat /\ \A i \in S : i \in Nat
  <2>1. IsFiniteSet(1..n)
    BY FS_Interval
  <2>2. IsFiniteSet(S)
    BY <2>1, FS_Subset
  <2>3. QED
    BY <2>2, FS_CardinalityType
<1>2. PICK m \in Nat : m = Cardinality(S)
  BY <1>1
<1>3. \A i \in S : /\ IsFiniteSet({j \in S : j <= i})
                   /\ Rank(S, i) \in Nat /\ Rank(S, i) <= m
  <2> TAKE i \in S
  <2>1. {j \in S : j <= i} \in SUBSET S
    OBVIOUS
  <2>2. QED
    BY <1>1, <1>2, <2>1, FS_Subset, FS_CardinalityType DEF Rank
<1>4. \A i \in S : Rank(S, i) # 0
  <2> TAKE i \in S
  <2>1. i \in {j \in S : j <= i}
    BY <1>1
  <2>2. QED
    BY <1>3, <2>1, FS_EmptySet DEF Rank
<1>5. \A i \in S : Rank(S, i) \in 1..m
  <2> TAKE i \in S
  <2>1. PICK q \in Nat : q = Rank(S, i) /\ q <= m /\ q # 0
    BY <1>3, <1>4
  <2>2. q \in 1..m
    BY <2>1
  <2>3. QED
    BY <2>1, <2>2
<1>6. \A i, j \in S : i < j => Rank(S, i) < Rank(S, j)
  <2> SUFFICES ASSUME NEW i \in S, NEW j \in S, i < j PROVE Rank(S, i) < Rank(S, j)
    OBVIOUS
  <2>1. i \in Nat /\ j \in Nat
    BY <1>1
  <2>2. ~(j <= i) /\ j <= j
    BY <2>1
  <2> DEFINE A == {x \in S : x <= i}
             B == {x \in S : x <= j}
  <2>3. j \in B /\ j \notin A
    BY <2>2
  <2>4. A \subseteq B
    <3>1. \A x \in S : x <= i => x <= j
      BY <1>1, <2>1
    <3>2. QED
      BY <3>1
  <2>5. IsFiniteSet(B) /\ Cardinality(B) \in Nat /\ Cardinality(A) \in Nat
    BY <1>3 DEF Rank
  <2>6. Rank(S, i) = Cardinality(A) /\ Rank(S, j) = Cardinality(B)
    BY DEF Rank
  <2> HIDE DEF A, B
  <2>7. Cardinality(A) <= Cardinality(B) /\ Cardinality(A) # Cardinality(B)
    BY <2>3, <2>4, <2>5, FS_Subset
  <2>8. QED
    BY <2>5, <2>6, <2>7
<1>7. \A i, j \in S : Rank(S, i) = Rank(S, j) => i = j
  <2> SUFFICES ASSUME NEW i \in S, NEW j \in S, Rank(S, i) = Rank(S, j) PROVE i = j
    OBVIOUS
  <2>1. i \in Nat /\ j \in Nat /\ Rank(S, i) \in Nat /\ Rank(S, j) \in Nat
    BY <1>1, <1>3
  <2>2. ~(i < j) /\ ~(j < i)
    BY <1>6, <2>1
  <2>3. QED
    BY <2>1, <2>2
<1>8. PICK r : r = [i \in S |-> Rank(S, i)]
  OBVIOUS
<1>9. r \in [S -> 1..m] /\ \A i \in S : r[i] = Rank(S, i)
  BY <1>5, <1>8
<1>10. r \in Injection(S, 1..m)
  BY <1>7, <1>9 DEF Injection, IsInjective
<1>11. IsFiniteSet(1..m) /\ Cardinality(1..m) = m
  BY FS_Interval
<1>12. r \in Surjection(S, 1..m)
  BY <1>2, <1>10, <1>11, FS_Injection
<1>13. \A k \in 1..m : \E i \in S : Rank(S, i) = k
  BY <1>9, <1>12 DEF Surjection
<1>14. \A k \in 1..m : Nth(S, k) \in S /\ Rank(S, Nth(S, k)) = k
  BY <1>13 DEF Nth, Rank
<1>15. \A i \in S : \E k \in 1..m : Nth(S, k) = i
  <2> TAKE i \in S
  <2>1. PICK k \in 1..m : k = Rank(S, i)
    BY <1>5
  <2>2. Nth(S, k) = i
    BY <1>7, <1>14, <2>1
  <2>3. QED
    BY <2>2
<1>16. \A k, l \in 1..m : k < l => Nth(S, k) < Nth(S, l)
  <2> SUFFICES ASSUME NEW k \in 1..m, NEW l \in 1..m, k < l
               PROVE  Nth(S, k) < Nth(S, l)
    OBVIOUS
  <2>1. PICK i \in S, j \in S : i = Nth(S, k) /\ j = Nth(S, l)
    BY <1>14
  <2>2. Rank(S, i) = k /\ Rank(S, j) = l /\ i \in Nat /\ j \in Nat
    BY <1>1, <1>14, <2>1
  <2>3. i # j /\ ~(j < i)
    BY <1>6, <2>2
  <2>4. QED
    BY <2>1, <2>2, <2>3
<1>17. QED
  BY <1>1, <1>2, <1>14, <1>15, <1>16

\* e has the elements of s at the positions S, in the order of s.
Drawn(e, s, S) ==
    /\ \A i \in S : \E k \in 1..Len(e) : e[k] = s[i]
    /\ \A k \in 1..Len(e) : \E i \in S : e[k] = s[i]
    /\ \A k, l \in 1..Len(e) : k < l => \E i, j \in S : i < j /\ e[k] = s[i] /\ e[l] = s[j]

LEMMA Extracted ==
  ASSUME NEW T, NEW s \in Seq(T), NEW S \in SUBSET (1..Len(s))
  PROVE  Extract(s, S) \in Seq(T) /\ Drawn(Extract(s, S), s, S)
<1>0. PICK e : e = Extract(s, S)
  OBVIOUS
<1>1. Len(s) \in Nat
  BY LenProperties
<1>2. PICK m : m = Cardinality(S)
  OBVIOUS
<1>3. /\ m \in Nat
      /\ \A k \in 1..m : Nth(S, k) \in S
      /\ \A i \in S : \E k \in 1..m : Nth(S, k) = i
      /\ \A k, l \in 1..m : k < l => Nth(S, k) < Nth(S, l)
  BY <1>1, <1>2, NthPosition
<1>4. e = [k \in 1..m |-> s[Nth(S, k)]]
  BY <1>0, <1>2 DEF Extract
<1>5. \A k \in 1..m : s[Nth(S, k)] \in T
  BY <1>1, <1>3, ElementOfSeq
<1>6. e \in Seq(T) /\ Len(e) = m
  BY <1>3, <1>4, <1>5
<1>7. \A k \in 1..m : e[k] = s[Nth(S, k)]
  BY <1>4
<1>8. Drawn(e, s, S)
  BY <1>3, <1>6, <1>7 DEF Drawn
<1>9. QED
  BY <1>0, <1>6, <1>8

-----------------------------------------------------------------------------
(* What an installation knows of its list *)

\* d comes before n in the tree's order.
Sooner(d, n) == \E i, j \in 1..Len(order) : j < i /\ order[j] = d /\ order[i] = n

\* The rest of the list keeps the tree's order, but for the targets.
Sorted(q) ==
    \A k, l \in 1..Len(q) :
        k < l /\ ~IsTarget(q[l]) => ~Sooner(q[l], q[k])

AfterResolve == {"confirm", "system", "scripts", "loop", "install", "targets", "cleanup"}

\* Every package of the tree is still on the list, put off, or installed.
Covered == visited \subseteq Range(queue) \cup deferred \cup installed

ListAgrees ==
    /\ pc \in AfterResolve => Resolved /\ Sorted(queue) /\ Covered
    /\ pc = "install" => queue # <<>> /\ Current \in visited /\ ~IsTarget(Current)
    /\ pc \in {"targets", "cleanup"} => queue = <<>>
    /\ pc = "cleanup" => deferred \subseteq installed

\* The system dependencies are there before the first script is read.
SystemIsReady ==
    pc \in {"scripts", "loop", "install", "targets", "cleanup"} => systemDeps \subseteq installed

InstallInv ==
    /\ WalkInv
    /\ TypeOK
    /\ ListAgrees
    /\ SystemIsReady
    /\ SuccessInstallsAll

\* Somewhere a target is named for the first time.
LEMMA NamedFirst ==
  ASSUME NEW T, NEW s \in Seq(T), NEW n \in Range(s)
  PROVE  \E i \in 1..Len(s) : s[i] = n /\ \A j \in 1..Len(s) : j < i => s[j] # s[i]
<1>1. Len(s) \in Nat /\ \E i \in 1..Len(s) : s[i] = n
  BY RangeEquality, LenProperties
<1>2. PICK S : S = {i \in 1..Len(s) : s[i] = n}
  OBVIOUS
<1>3. S \in SUBSET (1..Len(s)) /\ S # {}
  BY <1>1, <1>2
<1>4. PICK m : m = Cardinality(S)
  OBVIOUS
<1>5. /\ m \in Nat
      /\ \A k \in 1..m : Nth(S, k) \in S
      /\ \A i \in S : \E k \in 1..m : Nth(S, k) = i
      /\ \A k, l \in 1..m : k < l => Nth(S, k) < Nth(S, l)
  BY <1>1, <1>3, <1>4, NthPosition
<1>6. 1 \in 1..m
  <2>1. PICK i \in S : TRUE
    BY <1>3
  <2>2. PICK k \in 1..m : Nth(S, k) = i
    BY <1>5, <2>1
  <2>3. QED
    BY <1>5, <2>2
<1>7. PICK i \in S : i = Nth(S, 1)
  BY <1>5, <1>6
<1>8. \A j \in S : ~(j < i)
  <2> TAKE j \in S
  <2>1. PICK k \in 1..m : Nth(S, k) = j
    BY <1>5
  <2>2. k = 1 \/ 1 < k
    BY <1>5, <2>1
  <2>3. CASE k = 1
    BY <1>1, <1>2, <1>7, <2>1, <2>3
  <2>4. CASE 1 < k
    <3>1. i < j
      BY <1>5, <1>6, <1>7, <2>1, <2>4
    <3>2. i \in Nat /\ j \in Nat
      BY <1>2
    <3>3. QED
      BY <3>1, <3>2
  <2>5. QED
    BY <2>2, <2>3, <2>4
<1>9. QED
  BY <1>2, <1>7, <1>8

\* The list has every package of the tree and keeps the tree's order.
LEMMA PlannedList ==
  ASSUME WalkInv, Resolved, NEW q, q = AllALRPackages \o Extract(targets, FirstNamed)
  PROVE  /\ q \in Seq(Names \cup System)
         /\ Sorted(q)
         /\ visited \subseteq Range(q)
<1> DEFINE T == Names \cup System
<1>1. /\ order \in Seq(T) /\ targets \in Seq(T)
      /\ Len(order) \in Nat /\ Len(targets) \in Nat
  BY TreeAssumption, LenProperties DEF WalkInv, TreeTypeOK, TreeAssumption
<1> HIDE DEF T
<1>2. visited = Range(order) /\ IsInjective(order) /\ DOMAIN order = 1..Len(order)
  BY <1>1, WalkIsComplete, LenProperties
  DEF TreeIsComplete, WalkInv, TreeInv, OrderAgrees
<1>3. PICK O : O = {i \in 1..Len(order) : order[i] \notin Range(targets)}
  OBVIOUS
<1>4. O \in SUBSET (1..Len(order)) /\ FirstNamed \in SUBSET (1..Len(targets))
  BY <1>3 DEF FirstNamed
<1>5. PICK a : a = Extract(order, O)
  OBVIOUS
<1>6. PICK b : b = Extract(targets, FirstNamed)
  OBVIOUS
<1> USE DEF Drawn
<1>7. /\ a \in Seq(T)
      /\ \A i \in O : \E k \in 1..Len(a) : a[k] = order[i]
      /\ \A k, l \in 1..Len(a) : k < l => \E i, j \in O : i < j /\ a[k] = order[i] /\ a[l] = order[j]
  <2>1. a \in Seq(T) /\ Drawn(a, order, O)
    <3> HIDE DEF Drawn
    <3>1. QED
      BY <1>1, <1>4, <1>5, Extracted
  <2>2. QED
    BY <2>1
<1>8. /\ b \in Seq(T)
      /\ \A i \in FirstNamed : \E k \in 1..Len(b) : b[k] = targets[i]
      /\ \A k \in 1..Len(b) : \E i \in FirstNamed : b[k] = targets[i]
  <2>1. b \in Seq(T) /\ Drawn(b, targets, FirstNamed)
    <3> HIDE DEF Drawn
    <3>1. QED
      BY <1>1, <1>4, <1>6, Extracted
  <2>2. QED
    BY <2>1
<1> HIDE DEF Drawn
<1>9. q = a \o b
  BY <1>3, <1>5, <1>6 DEF AllALRPackages
<1>10. /\ q \in Seq(T) /\ Len(a) \in Nat /\ Len(b) \in Nat
       /\ Len(q) = Len(a) + Len(b)
       /\ \A k \in 1..Len(a) + Len(b) : q[k] = IF k <= Len(a) THEN a[k] ELSE b[k - Len(a)]
  BY <1>7, <1>8, <1>9, ConcatProperties, LenProperties
<1>11. \A k \in 1..Len(a) : k \in 1..Len(q) /\ q[k] = a[k]
  BY <1>10
<1>12. \A k \in 1..Len(b) : Len(a) + k \in 1..Len(q) /\ q[Len(a) + k] = b[k]
  BY <1>10
<1>13. \A k \in 1..Len(q) : ~IsTarget(q[k]) => k <= Len(a)
  <2> SUFFICES ASSUME NEW k \in 1..Len(q), ~(k <= Len(a)) PROVE IsTarget(q[k])
    OBVIOUS
  <2>1. k - Len(a) \in 1..Len(b) /\ q[k] = b[k - Len(a)]
    BY <1>10
  <2>2. PICK i \in FirstNamed : q[k] = targets[i]
    BY <1>8, <2>1
  <2>3. QED
    BY <1>1, <1>4, <2>2, RangeEquality DEF IsTarget
<1>14. Sorted(q)
  <2> SUFFICES ASSUME NEW k \in 1..Len(q), NEW l \in 1..Len(q), k < l,
                      ~IsTarget(q[l]), Sooner(q[l], q[k])
               PROVE  FALSE
    BY DEF Sorted
  <2>1. k \in 1..Len(a) /\ l \in 1..Len(a)
    <3>1. l <= Len(a)
      BY <1>13
    <3>2. PICK A \in Nat : A = Len(a)
      BY <1>10
    <3>3. PICK Q \in Nat : Q = Len(q)
      BY <1>10, LenProperties
    <3>4. k \in 1..A /\ l \in 1..A
      BY <3>1, <3>2, <3>3
    <3>5. QED
      BY <3>2, <3>4
  <2>2. PICK i \in O, j \in O : i < j /\ a[k] = order[i] /\ a[l] = order[j]
    BY <1>7, <2>1
  <2>3. PICK x \in 1..Len(order), y \in 1..Len(order) :
            y < x /\ order[y] = q[l] /\ order[x] = q[k]
    BY DEF Sooner
  <2>4. x = i /\ y = j
    <3>1. i \in 1..Len(order) /\ j \in 1..Len(order)
      BY <1>4
    <3>2. order[x] = order[i] /\ order[y] = order[j]
      BY <1>11, <2>1, <2>2, <2>3
    <3>3. QED
      BY <1>2, <3>1, <3>2 DEF IsInjective
  <2>5. QED
    BY <1>1, <2>2, <2>3, <2>4
<1>15. ASSUME NEW n \in visited PROVE n \in Range(q)
  <2>1. PICK i \in 1..Len(order) : order[i] = n
    BY <1>1, <1>2, <1>15, RangeEquality
  <2>2. \A k \in 1..Len(q) : q[k] \in Range(q)
    BY <1>10, RangeEquality
  <2>3. CASE n \in Range(targets)
    <3>1. PICK j \in FirstNamed : targets[j] = n
      BY <1>1, <2>3, NamedFirst DEF FirstNamed
    <3>2. PICK k \in 1..Len(b) : b[k] = n
      BY <1>8, <3>1
    <3>3. QED
      BY <1>12, <2>2, <3>2
  <2>4. CASE n \notin Range(targets)
    <3>1. i \in O
      BY <1>3, <2>1, <2>4
    <3>2. PICK k \in 1..Len(a) : a[k] = n
      BY <1>7, <2>1, <3>1
    <3>3. QED
      BY <1>11, <2>2, <3>2
  <2>5. QED
    BY <2>3, <2>4
<1>16. QED
  BY <1>10, <1>14, <1>15 DEF T

\* The list without its head.
LEMMA ListTail ==
  ASSUME NEW T, NEW q \in Seq(T), q # <<>>
  PROVE  /\ Tail(q) \in Seq(T)
         /\ Head(q) = q[1] /\ 1 \in 1..Len(q)
         /\ Range(q) = {Head(q)} \cup Range(Tail(q))
         /\ Sorted(q) => Sorted(Tail(q))
<1>0. PICK t : t = Tail(q)
  OBVIOUS
<1>1. /\ t \in Seq(T) /\ Len(q) \in Nat /\ Len(q) >= 1
      /\ Len(t) = Len(q) - 1
      /\ \A i \in 1..Len(t) : t[i] = q[i + 1]
  BY <1>0, HeadTailProperties, EmptySeq, LenProperties
<1>2. Head(q) = q[1]
  OBVIOUS
<1>3. Range(q) = {q[i] : i \in 1..Len(q)} /\ Range(t) = {t[i] : i \in 1..Len(t)}
  <2>1. Range(q) = {q[i] : i \in 1..Len(q)}
    BY RangeEquality
  <2>2. Range(t) = {t[i] : i \in 1..Len(t)}
    BY <1>1, RangeEquality
  <2>3. QED
    BY <2>1, <2>2
<1>4. \A i \in 1..Len(t) : i + 1 \in 1..Len(q)
  BY <1>1
<1>5. Range(t) \subseteq Range(q)
  BY <1>1, <1>3, <1>4
<1>6. \A i \in 1..Len(q) : i = 1 \/ (i - 1 \in 1..Len(t) /\ t[i - 1] = q[i])
  BY <1>1
<1>7. Range(q) \subseteq {q[1]} \cup Range(t) /\ q[1] \in Range(q)
  BY <1>1, <1>3, <1>6
<1>8. Sorted(q) => Sorted(t)
  <2> SUFFICES ASSUME Sorted(q), NEW k \in 1..Len(t), NEW l \in 1..Len(t), k < l, ~IsTarget(t[l])
               PROVE  ~Sooner(t[l], t[k])
    BY DEF Sorted
  <2>1. k + 1 < l + 1 /\ k + 1 \in 1..Len(q) /\ l + 1 \in 1..Len(q)
    BY <1>1, <1>4
  <2>2. t[k] = q[k + 1] /\ t[l] = q[l + 1]
    BY <1>1
  <2>3. QED
    BY <2>1, <2>2 DEF Sorted
<1>9. QED
  BY <1>0, <1>1, <1>2, <1>5, <1>7, <1>8

-----------------------------------------------------------------------------
(* The installation keeps it *)

\* The tree and the list stay, or the list loses its head.
LEMMA ListKept ==
  ASSUME UNCHANGED treeVars, queue' = queue, Resolved, Sorted(queue)
  PROVE  (Resolved /\ Sorted(queue))'
  BY DEF treeVars, Resolved, Sorted, Sooner, IsTarget

LEMMA ListAdvanced ==
  ASSUME TypeOK, UNCHANGED treeVars, queue # <<>>, queue' = Tail(queue),
         Resolved, Sorted(queue)
  PROVE  /\ (Resolved /\ Sorted(queue))'
         /\ Range(queue) = {Current} \cup Range(queue')
         /\ queue' \in Seq(Names \cup System)
<1>1. PICK t : t = queue'
  OBVIOUS
<1>2. queue \in Seq(Names \cup System) /\ t = Tail(queue)
  BY <1>1 DEF TypeOK
<1>3. /\ t \in Seq(Names \cup System)
      /\ Range(queue) = {Head(queue)} \cup Range(t)
      /\ Sorted(t)
  BY <1>2, ListTail
<1>4. (Resolved /\ Sorted(queue))'
  <2>1. Sorted(queue)'
    BY <1>1, <1>3 DEF treeVars, Sorted, Sooner, IsTarget
  <2>2. QED
    BY <2>1 DEF treeVars, Resolved
<1>5. QED
  BY <1>1, <1>3, <1>4 DEF Current

\* The head of the list is a name.
LEMMA CurrentIsName ==
  ASSUME TypeOK, queue # <<>>
  PROVE  Current \in Names \cup System
<1>1. queue \in Seq(Names \cup System)
  BY DEF TypeOK
<1>2. QED
  BY <1>1, HeadTailProperties DEF Current

LEMMA InstallInit == Init => InstallInv
<1> SUFFICES ASSUME Init PROVE InstallInv
  OBVIOUS
<1>1. WalkInv /\ TreeTypeOK
  BY WalkInit DEF Init, WalkInv
<1>2. <<>> \in Seq(Names \cup System)
  OBVIOUS
<1>3. TypeOK
  <2>1. Range(targets) \cap {} = {} /\ had \subseteq Names \cup System /\ cache \subseteq Names
    BY InstallAssumption DEF Init, InstallAssumption
  <2>2. QED
    BY <1>1, <1>2, <2>1 DEF Init, TypeOK, Steps, Ended
<1>4. QED
  BY <1>1, <1>3
  DEF Init, InstallInv, ListAgrees, AfterResolve, SystemIsReady, SuccessInstallsAll

\* The types, but for the tree's.
LEMMA TypesStay ==
  ASSUME InstallInv, Next, TreeTypeOK'
  PROVE  TypeOK'
<1> USE DEF InstallInv, TypeOK, Goto, Steps, Ended
<1>1. CASE Resolve
  BY <1>1 DEF Resolve, TreeNext, Skip, Visit, ResolveRuntime, AddToOrder, Return, callVars
<1>2. CASE ResolveFails
  BY <1>2 DEF ResolveFails, givenVars, treeVars
<1>3. CASE Plan
  <2>1. PICK q : q = AllALRPackages \o Extract(targets, FirstNamed)
    OBVIOUS
  <2>2. q \in Seq(Names \cup System) /\ queue' = q
    BY <1>3, <2>1, PlannedList DEF Plan
  <2>3. QED
    BY <1>3, <2>2 DEF Plan, givenVars, treeVars
<1>4. CASE Confirm
  BY <1>4 DEF Confirm, givenVars, treeVars
<1>5. CASE InstallSystemDeps
  BY <1>5 DEF InstallSystemDeps, RunManager, givenVars, treeVars, TreeTypeOK
<1>6. CASE ViewScripts
  BY <1>6 DEF ViewScripts, givenVars, treeVars
<1>7. CASE SkipPackage
  <2>1. queue' \in Seq(Names \cup System)
    BY <1>7, ListAdvanced DEF SkipPackage, Advance, givenVars, ListAgrees, AfterResolve
  <2>2. QED
    BY <1>7, <2>1 DEF SkipPackage, Advance, givenVars, treeVars
<1>8. CASE UseCached
  <2>1. queue # <<>> /\ Current \in Names \cup System /\ Resolved /\ Sorted(queue)
    BY <1>8, CurrentIsName DEF UseCached, Due, ListAgrees, AfterResolve
  <2>2. CASE queue' = queue
    BY <1>8, <2>1, <2>2
    DEF UseCached, Due, RunManager, IsTarget, givenVars, treeVars, Advance
  <2>3. CASE queue' = Tail(queue)
    <3>1. queue' \in Seq(Names \cup System)
      BY <1>8, <2>1, <2>3, ListAdvanced DEF UseCached, givenVars
    <3>2. QED
      BY <1>8, <2>1, <3>1
      DEF UseCached, Due, RunManager, IsTarget, givenVars, treeVars, Advance
  <2>4. QED
    BY <1>8, <2>2, <2>3 DEF UseCached, Advance
<1>9. CASE Build
  <2>1. /\ queue # <<>> /\ Current \in Names /\ Resolved /\ Sorted(queue)
        /\ world.build[Current] \subseteq Names \cup System
    BY <1>9 DEF Build, Due, ListAgrees, AfterResolve, TreeTypeOK
  <2>2. CASE queue' = queue
    BY <1>9, <2>1, <2>2 DEF Build, Due, IsTarget, givenVars, treeVars, Advance
  <2>3. CASE queue' = Tail(queue)
    <3>1. queue' \in Seq(Names \cup System)
      BY <1>9, <2>1, <2>3, ListAdvanced DEF Build, givenVars
    <3>2. QED
      BY <1>9, <2>1, <3>1 DEF Build, Due, IsTarget, givenVars, treeVars, Advance
  <2>4. QED
    BY <1>9, <2>2, <2>3 DEF Build, Advance
<1>10. CASE PackageFails
  BY <1>10 DEF PackageFails, givenVars, treeVars
<1>11. CASE InstallBuilt
  <2>1. queue # <<>> /\ Current \in Names \cup System /\ Resolved /\ Sorted(queue)
    BY <1>11, CurrentIsName DEF InstallBuilt, ListAgrees, AfterResolve
  <2>2. CASE queue' = queue
    BY <1>11, <2>1, <2>2 DEF InstallBuilt, RunManager, givenVars, treeVars, Advance
  <2>3. CASE queue' = Tail(queue)
    <3>1. queue' \in Seq(Names \cup System)
      BY <1>11, <2>1, <2>3, ListAdvanced DEF InstallBuilt, givenVars
    <3>2. QED
      BY <1>11, <2>1, <3>1 DEF InstallBuilt, RunManager, givenVars, treeVars, Advance
  <2>4. QED
    BY <1>11, <2>2, <2>3 DEF InstallBuilt, Advance
<1>12. CASE LoopEnds
  BY <1>12 DEF LoopEnds, givenVars, treeVars
<1>13. CASE InstallTargets
  <2>1. Range(targets) \subseteq Names \cup System
    BY TreeAssumption, RangeEquality, ElementOfSeq DEF TreeAssumption, TreeTypeOK
  <2>2. QED
    BY <1>13, <2>1 DEF InstallTargets, RunManager, givenVars, treeVars
<1>14. CASE Cleanup
  BY <1>14 DEF Cleanup, givenVars, treeVars
<1>15. QED
  BY <1>1, <1>2, <1>3, <1>4, <1>5, <1>6, <1>7, <1>8, <1>9, <1>10, <1>11, <1>12, <1>13,
     <1>14 DEF Next

\* The list, by what a step does to it.
LEMMA ListStays ==
  ASSUME InstallInv, Next, TreeTypeOK'
  PROVE  ListAgrees'
<1> USE DEF InstallInv, ListAgrees, AfterResolve, Goto, Covered
<1>1. CASE Resolve
  BY <1>1 DEF Resolve, callVars
<1>2. CASE ResolveFails
  BY <1>2 DEF ResolveFails
<1>3. CASE Plan
  <2>1. PICK q : q = AllALRPackages \o Extract(targets, FirstNamed)
    OBVIOUS
  <2>2. Sorted(q) /\ visited \subseteq Range(q) /\ queue' = q /\ Resolved
    BY <1>3, <2>1, PlannedList DEF Plan
  <2>3. Sorted(queue)' /\ Resolved'
    BY <1>3, <2>2 DEF Plan, Sorted, Sooner, IsTarget, Resolved, givenVars, treeVars
  <2>4. QED
    BY <1>3, <2>2, <2>3 DEF Plan, givenVars, treeVars
<1>4. CASE Confirm
  <2>1. (Resolved /\ Sorted(queue))'
    BY <1>4, ListKept DEF Confirm, givenVars
  <2>2. QED
    BY <1>4, <2>1 DEF Confirm, givenVars, treeVars
<1>5. CASE InstallSystemDeps
  <2>1. (Resolved /\ Sorted(queue))'
    BY <1>5, ListKept DEF InstallSystemDeps, givenVars
  <2>2. QED
    BY <1>5, <2>1 DEF InstallSystemDeps, givenVars, treeVars
<1>6. CASE ViewScripts
  <2>1. (Resolved /\ Sorted(queue))'
    BY <1>6, ListKept DEF ViewScripts, givenVars
  <2>2. QED
    BY <1>6, <2>1 DEF ViewScripts, givenVars, treeVars
<1>7. CASE SkipPackage
  <2>1. (Resolved /\ Sorted(queue))' /\ Range(queue) = {Current} \cup Range(queue')
    BY <1>7, ListAdvanced DEF SkipPackage, Advance, givenVars
  <2>2. QED
    BY <1>7, <2>1 DEF SkipPackage, Advance, givenVars, treeVars
<1>8. CASE UseCached
  <2>1. queue # <<>> /\ Resolved /\ Sorted(queue) /\ Covered
    BY <1>8 DEF UseCached, Due
  <2>2. CASE queue' = queue
    BY <1>8, <2>1, <2>2, ListKept DEF UseCached, Advance, givenVars, treeVars
  <2>3. CASE queue' = Tail(queue)
    <3>1. (Resolved /\ Sorted(queue))' /\ Range(queue) = {Current} \cup Range(queue')
      BY <1>8, <2>1, <2>3, ListAdvanced DEF UseCached, givenVars
    <3>2. visited' = visited /\ Current \in deferred' \cup installed'
          /\ deferred \subseteq deferred' /\ installed \subseteq installed'
      <4>1. \/ deferred' = deferred \cup {Current} /\ installed' = installed
            \/ deferred' = deferred /\ installed' = installed \cup {Current}
            \/ deferred' = deferred /\ installed' = installed /\ queue' = queue
        BY <1>8 DEF UseCached, Advance
      <4>2. queue' # queue
        <5>1. queue \in Seq(Names \cup System)
          BY DEF TypeOK
        <5>2. QED
          BY <2>1, <2>3, <5>1, HeadTailProperties, LenProperties
      <4>3. QED
        BY <1>8, <4>1, <4>2 DEF UseCached, givenVars, treeVars
    <3>3. Covered'
      BY <2>1, <3>1, <3>2
    <3>4. pc' \in {"loop", "error"}
      BY <1>8 DEF UseCached, Advance
    <3>5. QED
      BY <3>1, <3>3, <3>4
  <2>4. QED
    BY <1>8, <2>2, <2>3 DEF UseCached, Advance
<1>9. CASE Build
  <2>1. queue # <<>> /\ Resolved /\ Sorted(queue) /\ Covered
    BY <1>9 DEF Build, Due
  <2>2. CASE ~IsTarget(Current)
    <3>1. (Resolved /\ Sorted(queue))'
      BY <1>9, <2>1, <2>2, ListKept DEF Build, givenVars
    <3>2. queue' = queue /\ deferred' = deferred /\ installed' = installed /\ visited' = visited
          /\ pc' = "install" /\ targets' = targets
      BY <1>9, <2>2 DEF Build, givenVars, treeVars
    <3>3. Covered' /\ queue' # <<>> /\ Current' \in visited' /\ ~IsTarget(Current)'
      BY <1>9, <2>1, <2>2, <3>2 DEF Build, Due, Current, IsTarget
    <3>4. QED
      BY <3>1, <3>2, <3>3
  <2>3. CASE IsTarget(Current)
    <3>1. (Resolved /\ Sorted(queue))' /\ Range(queue) = {Current} \cup Range(queue')
      BY <1>9, <2>1, <2>3, ListAdvanced DEF Build, Advance, givenVars
    <3>2. visited' = visited /\ deferred' = deferred \cup {Current} /\ installed' = installed
          /\ pc' = "loop"
      BY <1>9, <2>3 DEF Build, Advance, givenVars, treeVars
    <3>3. Covered'
      BY <2>1, <3>1, <3>2
    <3>4. QED
      BY <3>1, <3>2, <3>3
  <2>4. QED
    BY <2>2, <2>3
<1>10. CASE PackageFails
  BY <1>10 DEF PackageFails
<1>11. CASE InstallBuilt
  <2>1. queue # <<>> /\ Resolved /\ Sorted(queue) /\ Covered
    BY <1>11 DEF InstallBuilt
  <2>2. CASE pc' = "error"
    BY <2>2
  <2>3. CASE pc' = "loop"
    <3>1. installed' = installed \cup {Current} /\ queue' = Tail(queue)
      BY <1>11, <2>3 DEF InstallBuilt, Advance
    <3>2. (Resolved /\ Sorted(queue))' /\ Range(queue) = {Current} \cup Range(queue')
      BY <1>11, <2>1, <3>1, ListAdvanced DEF InstallBuilt, givenVars
    <3>3. visited' = visited /\ deferred' = deferred
      BY <1>11 DEF InstallBuilt, givenVars, treeVars
    <3>4. Covered'
      BY <2>1, <3>1, <3>2, <3>3
    <3>5. QED
      BY <2>3, <3>2, <3>4
  <2>4. QED
    BY <1>11, <2>2, <2>3 DEF InstallBuilt, Advance
<1>12. CASE LoopEnds
  <2>1. (Resolved /\ Sorted(queue))'
    BY <1>12, ListKept DEF LoopEnds, givenVars
  <2>2. QED
    BY <1>12, <2>1 DEF LoopEnds, givenVars, treeVars
<1>13. CASE InstallTargets
  <2>1. (Resolved /\ Sorted(queue))'
    BY <1>13, ListKept DEF InstallTargets, givenVars
  <2>2. QED
    BY <1>13, <2>1 DEF InstallTargets, givenVars, treeVars
<1>14. CASE Cleanup
  BY <1>14 DEF Cleanup
<1>15. QED
  BY <1>1, <1>2, <1>3, <1>4, <1>5, <1>6, <1>7, <1>8, <1>9, <1>10, <1>11, <1>12, <1>13,
     <1>14 DEF Next

\* What is installed only grows, until the end.
LEMMA SystemStays ==
  ASSUME InstallInv, Next, TypeOK'
  PROVE  SystemIsReady' /\ SuccessInstallsAll'
<1> USE DEF InstallInv, SystemIsReady, SuccessInstallsAll, Goto, givenVars, treeVars
<1>1. CASE Resolve
  BY <1>1 DEF Resolve, callVars
<1>2. CASE ResolveFails
  BY <1>2 DEF ResolveFails
<1>3. CASE Plan
  BY <1>3 DEF Plan
<1>4. CASE Confirm
  BY <1>4 DEF Confirm
<1>5. CASE InstallSystemDeps
  BY <1>5 DEF InstallSystemDeps
<1>6. CASE ViewScripts
  BY <1>6 DEF ViewScripts
<1>7. CASE SkipPackage
  BY <1>7 DEF SkipPackage, Advance
<1>8. CASE UseCached
  BY <1>8 DEF UseCached, Due, Advance
<1>9. CASE Build
  BY <1>9 DEF Build, Due, Advance
<1>10. CASE PackageFails
  BY <1>10 DEF PackageFails
<1>11. CASE InstallBuilt
  BY <1>11 DEF InstallBuilt, Advance
<1>12. CASE LoopEnds
  BY <1>12 DEF LoopEnds
<1>13. CASE InstallTargets
  BY <1>13 DEF InstallTargets
<1>14. CASE Cleanup
  <2>1. Range(queue) = {}
    BY <1>14 DEF Cleanup, ListAgrees, Range
  <2>2. visited \cup systemDeps \subseteq installed
    BY <1>14, <2>1 DEF Cleanup, ListAgrees, AfterResolve, Covered
  <2>3. QED
    BY <1>14, <2>2 DEF Cleanup
<1>15. QED
  BY <1>1, <1>2, <1>3, <1>4, <1>5, <1>6, <1>7, <1>8, <1>9, <1>10, <1>11, <1>12, <1>13,
     <1>14 DEF Next

LEMMA InstallStep == InstallInv /\ [Next]_vars => InstallInv'
<1> SUFFICES ASSUME InstallInv, [Next]_vars PROVE InstallInv'
  OBVIOUS
<1>1. WalkInv' /\ TreeTypeOK'
  <2>1. WalkInv'
    BY InstallRefinesTree, WalkStep DEF InstallInv
  <2>2. QED
    BY <2>1 DEF WalkInv
<1>2. CASE Next
  BY <1>1, <1>2, TypesStay, ListStays, SystemStays DEF InstallInv
<1>3. CASE UNCHANGED vars
  <2>1. UNCHANGED treeVars /\ UNCHANGED callVars
    BY <1>3 DEF vars
  <2>2. TypeOK' /\ SystemIsReady' /\ SuccessInstallsAll'
    BY <1>1, <2>1
    DEF InstallInv, TypeOK, SystemIsReady, SuccessInstallsAll, callVars, treeVars
  <2>3. ListAgrees'
    BY <2>1
    DEF InstallInv, ListAgrees, Covered, Resolved, Sorted, Sooner, IsTarget, Current,
        callVars, treeVars
  <2>4. QED
    BY <1>1, <2>2, <2>3 DEF InstallInv
<1>4. QED
  BY <1>2, <1>3

LEMMA InstallAlways == Spec => []InstallInv
  BY InstallInit, InstallStep, PTL DEF Spec

\* The installation keeps its types: what is put off is a target, what was
\* built is in the cache (build.go 903-1159).
THEOREM InstallIsTyped == Spec => []TypeOK
<1>1. InstallInv => TypeOK
  BY DEF InstallInv
<1>2. QED
  BY <1>1, InstallAlways, PTL

\* Whatever fails, is cached or was there before: a call that succeeds has
\* installed the targets and all they need (build.go 1125-1159).
THEOREM SuccessAlwaysInstallsAll == Spec => []SuccessInstallsAll
<1>1. InstallInv => SuccessInstallsAll
  BY DEF InstallInv
<1>2. QED
  BY <1>1, InstallAlways, PTL

\* A package is built when its dependencies are installed, or are targets,
\* or need it in turn.
LEMMA BuiltWhenReady ==
  ASSUME InstallInv, Build, NEW d \in Requires(Current)
  PROVE  d \in installed \/ IsTarget(d) \/ Needs(d, Current)
<1>1. /\ pc = "loop" /\ queue # <<>> /\ Current \in visited
      /\ Resolved /\ Sorted(queue) /\ Covered /\ WalkInv /\ TypeOK /\ TreeTypeOK
  BY DEF Build, Due, InstallInv, ListAgrees, AfterResolve, WalkInv
<1>2. Current \in Names /\ d \in Names \cup System
  BY <1>1 DEF TreeTypeOK, Requires
<1>3. CASE d \notin Names
  <2>1. Len(stack) = 0
    BY <1>1, EmptySeq DEF Resolved
  <2>2. d \in systemDeps
    BY <1>1, <1>3, <2>1 DEF WalkInv, TreeInv, SystemAgrees, NotFound, Requires
  <2>3. QED
    BY <1>1, <2>2 DEF InstallInv, SystemIsReady
<1>4. CASE d \in Names /\ ~IsTarget(d) /\ d \notin installed /\ ~Needs(d, Current)
  <2>1. visited = Range(order) /\ order \in Seq(Names) /\ Len(order) \in Nat
    BY <1>1, WalkIsComplete, LenProperties DEF TreeIsComplete, TreeTypeOK
  <2>2. PICK i \in 1..Len(order) : order[i] = Current
    BY <1>1, <2>1, RangeEquality
  <2>3. d \in Range(SubSeq(order, 1, i))
    BY <1>1, <1>4, <2>2 DEF WalkInv, TreeInv, OrderIsTopological
  <2>4. PICK j \in 1..i : order[j] = d
    BY <2>1, <2>3, RangeOfPrefix
  <2>5. d # Current
    BY <1>1, <1>4, NeedsSelf DEF Known
  <2>6. Sooner(d, Current) /\ d \in visited
    <3>1. j \in 1..Len(order) /\ j < i
      BY <2>1, <2>2, <2>4, <2>5
    <3>2. QED
      BY <2>1, <2>2, <2>4, <3>1, RangeEquality DEF Sooner
  <2>7. d \in Range(queue)
    BY <1>1, <1>4, <2>6 DEF Covered, TypeOK, IsTarget
  <2>8. queue \in Seq(Names \cup System) /\ Len(queue) \in Nat
    BY <1>1, LenProperties DEF TypeOK
  <2>9. PICK l \in 1..Len(queue) : queue[l] = d
    BY <2>7, <2>8, RangeEquality
  <2>10. 1 \in 1..Len(queue) /\ Current = queue[1]
    BY <1>1, <2>8, ListTail DEF Current
  <2>11. 1 < l
    BY <2>5, <2>8, <2>9, <2>10
  <2>12. ~Sooner(queue[l], queue[1])
    BY <1>1, <1>4, <2>9, <2>10, <2>11 DEF Sorted
  <2>13. QED
    BY <2>6, <2>9, <2>10, <2>12
<1>5. QED
  BY <1>2, <1>3, <1>4

\* Whatever is built has its dependencies in place, build and runtime,
\* except targets and those it is needed by, for every request and with any
\* cycles among the packages (build.go 1015, 1109).
THEOREM DepsAlwaysReady == Spec => DepsReady
<1>1. ASSUME InstallInv, [Next]_vars
      PROVE  \A n \in built' \ built : \A d \in Requires(n) :
                d \in installed \/ IsTarget(d) \/ Needs(d, n)
  <2> SUFFICES ASSUME NEW n \in built' \ built, NEW d \in Requires(n)
               PROVE  d \in installed \/ IsTarget(d) \/ Needs(d, n)
    OBVIOUS
  <2>1. built' # built
    OBVIOUS
  <2>2. Build
    BY <1>1, <2>1
    DEF Next, vars, callVars, givenVars, Resolve, ResolveFails, Plan, Confirm,
        InstallSystemDeps, ViewScripts, SkipPackage, UseCached, PackageFails,
        InstallBuilt, LoopEnds, InstallTargets, Cleanup
  <2>3. n = Current
    BY <2>2 DEF Build
  <2>4. QED
    BY <1>1, <2>2, <2>3, BuiltWhenReady
<1>2. QED
  BY <1>1, InstallAlways, PTL DEF Spec, DepsReady
=============================================================================
