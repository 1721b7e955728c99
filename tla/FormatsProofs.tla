---------------------------- MODULE FormatsProofs ----------------------------
(***************************************************************************)
(* Proofs about Formats, for any values nested at any depth, any documents *)
(* and key files of any length.                                            *)
(***************************************************************************)
EXTENDS Formats, WellFoundedInduction, TLAPS

-----------------------------------------------------------------------------
(* Induction over the natural numbers, on sets *)

\* Induction, stated with a set in place of a predicate.
LEMMA SetInduction ==
  ASSUME NEW S, 0 \in S, \A n \in Nat : n \in S => n + 1 \in S
  PROVE  Nat \subseteq S
<1> DEFINE R == {p \in Nat \X Nat : p[1] < p[2]}
           T == {n \in Nat : n \notin S}
<1>1. IsWellFoundedOn(R, Nat)
  <2>1. R = OpToRel(<, Nat)
    BY DEF OpToRel
  <2> QED
    BY <2>1, NatLessThanWellFounded
<1>2. SUFFICES ASSUME T # {} PROVE FALSE
  OBVIOUS
<1>3. PICK x \in T : \A y \in T : <<y, x>> \notin R
  <2> HIDE DEF R, T
  <2>1. T \subseteq Nat
    BY DEF T
  <2> QED
    BY <1>1, <1>2, <2>1, WFMin
<1>4. x - 1 \in Nat /\ <<x - 1, x>> \in R
  OBVIOUS
<1> QED
  BY <1>3, <1>4

\* Induction up to a bound.
LEMMA UpToInduction ==
  ASSUME NEW N \in Nat, NEW S, 0 \in S, \A n \in 0..(N - 1) : n \in S => n + 1 \in S
  PROVE  0..N \subseteq S
<1> DEFINE T == {n \in Nat : n <= N => n \in S}
<1>1. 0 \in T /\ \A n \in Nat : n \in T => n + 1 \in T
  OBVIOUS
<1>2. Nat \subseteq T
  <2> HIDE DEF T
  <2> QED
    BY <1>1, SetInduction
<1> QED
  BY <1>2

-----------------------------------------------------------------------------
(* Values nested at most n deep *)

\* The levels are what their recursive definition says: the function exists.
LEMMA UpToDefined ==
  ASSUME NEW leaves, NEW lists, NEW maps, NEW plain
  PROVE  LET up == UpTo(leaves, lists, maps, plain)
         IN  up = [n \in 0..MaxNesting |->
                     IF n = 0 THEN leaves ELSE Over(leaves, lists, maps, plain, up[n - 1])]
<1> DEFINE above(S) == Over(leaves, lists, maps, plain, S)
           step(f, n) == IF n = 0 THEN leaves ELSE above(f[n - 1])
           Defined == {k \in Nat : \E f : f = [n \in 0..k |-> step(f, n)]}
<1>1. 0 \in Defined
  <2> DEFINE f == [n \in 0..0 |-> leaves]
  <2>1. f = [n \in 0..0 |-> step(f, n)]
    OBVIOUS
  <2> QED
    BY <2>1
<1>2. ASSUME NEW k \in Nat, k \in Defined PROVE k + 1 \in Defined
  <2> HIDE DEF above
  <2>1. PICK f : f = [n \in 0..k |-> step(f, n)]
    BY <1>2
  <2> DEFINE h == [n \in 0..(k + 1) |-> step(f, n)]
  <2>2. \A n \in 0..k : h[n] = f[n]
    BY <2>1
  <2>3. \A n \in 0..(k + 1) : step(f, n) = step(h, n)
    <3> HIDE DEF h
    <3>1. \A n \in 0..(k + 1) : n # 0 => n - 1 \in 0..k
      OBVIOUS
    <3>2. \A n \in 0..(k + 1) : n # 0 => f[n - 1] = h[n - 1]
      BY <2>2, <3>1
    <3> QED
      BY <3>2
  <2>4. h = [n \in 0..(k + 1) |-> step(h, n)]
    BY <2>3
  <2> HIDE DEF h, step
  <2>5. \E g : g = [n \in 0..(k + 1) |-> step(g, n)]
    BY <2>4
  <2> QED
    BY <2>5
<1>3. MaxNesting \in Defined
  <2> HIDE DEF Defined
  <2> QED
    BY <1>1, <1>2, SetInduction, EjsonAssumption
<1> QED
  BY <1>3 DEF UpTo

\* More parts, more values.
LEMMA OverGrows ==
  ASSUME NEW leaves, NEW lists, NEW maps, NEW plain, NEW S, NEW T, S \subseteq T
  PROVE  Over(leaves, lists, maps, plain, S) \subseteq Over(leaves, lists, maps, plain, T)
<1>1. Seq(S) \subseteq Seq(T)
  OBVIOUS
<1> QED
  BY <1>1 DEF Over

\* The lowest level has the leaves only, every other the values over the one
\* below, and each contains those below it.
LEMMA UpToLevels ==
  ASSUME NEW leaves, NEW lists, NEW maps, NEW plain,
         NEW up, up = UpTo(leaves, lists, maps, plain)
  PROVE  /\ up[0] = leaves
         /\ \A n \in 1..MaxNesting : up[n] = Over(leaves, lists, maps, plain, up[n - 1])
         /\ \A n \in 1..MaxNesting : up[n - 1] \subseteq up[n]
         /\ \A n \in 0..MaxNesting : up[n] \subseteq up[MaxNesting]
<1>1. /\ up[0] = leaves
      /\ \A n \in 1..MaxNesting : up[n] = Over(leaves, lists, maps, plain, up[n - 1])
  BY UpToDefined, EjsonAssumption
<1> DEFINE Grows == {n \in 0..MaxNesting : n < MaxNesting => up[n] \subseteq up[n + 1]}
<1>2. 0 \in Grows
  BY <1>1, EjsonAssumption DEF Over
<1>3. ASSUME NEW n \in 0..(MaxNesting - 1), n \in Grows PROVE n + 1 \in Grows
  <2>1. SUFFICES ASSUME n + 1 < MaxNesting PROVE up[n + 1] \subseteq up[n + 2]
    BY EjsonAssumption
  <2>2. n + 1 \in 1..MaxNesting /\ n + 2 \in 1..MaxNesting
    BY <2>1, EjsonAssumption
  <2>3. up[n + 1] = Over(leaves, lists, maps, plain, up[n]) /\ up[n + 2] = Over(leaves, lists, maps, plain, up[n + 1])
    BY <1>1, <2>2
  <2>4. up[n] \subseteq up[n + 1]
    BY <1>3, <2>1, EjsonAssumption
  <2> QED
    BY <2>3, <2>4, OverGrows
<1>4. 0..MaxNesting \subseteq Grows
  <2> HIDE DEF Grows
  <2> QED
    BY <1>2, <1>3, UpToInduction, EjsonAssumption
<1> DEFINE Below == {k \in 0..MaxNesting : up[MaxNesting - k] \subseteq up[MaxNesting]}
<1>5. 0 \in Below
  BY EjsonAssumption
<1>6. ASSUME NEW k \in 0..(MaxNesting - 1), k \in Below PROVE k + 1 \in Below
  <2>1. MaxNesting - (k + 1) \in 0..MaxNesting /\ MaxNesting - (k + 1) < MaxNesting
    BY EjsonAssumption
  <2>2. up[MaxNesting - (k + 1)] \subseteq up[MaxNesting - k]
    BY <1>4, <2>1, EjsonAssumption
  <2> QED
    BY <1>6, <2>2, EjsonAssumption
<1>7. 0..MaxNesting \subseteq Below
  <2> HIDE DEF Below
  <2> QED
    BY <1>5, <1>6, UpToInduction, EjsonAssumption
<1>8. \A n \in 1..MaxNesting : up[n - 1] \subseteq up[n]
  BY <1>4, EjsonAssumption
<1>9. ASSUME NEW n \in 0..MaxNesting PROVE up[n] \subseteq up[MaxNesting]
  <2>1. MaxNesting - n \in Below /\ MaxNesting - (MaxNesting - n) = n
    BY <1>7, EjsonAssumption
  <2> QED
    BY <2>1
<1> QED
  BY <1>1, <1>8, <1>9

\* The levels of Go values.
LEMMA GoLevels ==
  /\ GoUpTo[0] = GoLeaves
  /\ \A n \in 1..MaxNesting : GoUpTo[n - 1] \subseteq GoUpTo[n]
  /\ \A n \in 0..MaxNesting : GoUpTo[n] \subseteq GoValues
<1> DEFINE lists == {"list", "set", "slice"}
           maps == {"map", "table", "struct"}
           plain == TRUE
<1>1. GoUpTo = UpTo(GoLeaves, lists, maps, plain)
  BY DEF GoUpTo
<1> HIDE DEF lists, maps, plain
<1> QED
  BY <1>1, UpToLevels DEF GoValues

\* v is a list of parts in S, with one of the tags gs.
IsList(v, gs, S) == v.g \in gs /\ v = [g |-> v.g, items |-> v.items] /\ v.items \in Seq(S)
\* v is a map of parts in S.
IsMap(v, gs, S) ==
  /\ v.g \in gs /\ v = [g |-> v.g, keys |-> v.keys, items |-> v.items]
  /\ v.keys \in Shapes /\ v.items \in Seq(S) /\ Len(v.items) = Len(v.keys)

\* A Go value above the lowest level is a leaf, or a list or map of values of the
\* level below.
LEMMA GoAbove ==
  ASSUME NEW n \in 1..MaxNesting, NEW v
  PROVE  v \in GoUpTo[n] <=>
           \/ v \in GoLeaves
           \/ IsList(v, {"list", "set", "slice"}, GoUpTo[n - 1])
           \/ IsMap(v, {"map", "table", "struct"}, GoUpTo[n - 1]) /\ ~Extension(v)
<1> DEFINE lists == {"list", "set", "slice"}
           maps == {"map", "table", "struct"}
           plain == TRUE
<1>1. GoUpTo[n] = Over(GoLeaves, lists, maps, plain, GoUpTo[n - 1])
  <2>1. GoUpTo = UpTo(GoLeaves, lists, maps, plain)
    BY DEF GoUpTo
  <2> HIDE DEF lists, maps, plain
  <2> QED
    BY <2>1, UpToLevels
<1>2. v \in [g : lists, items : Seq(GoUpTo[n - 1])] <=> IsList(v, lists, GoUpTo[n - 1])
  BY DEF IsList
<1>3. v \in [g : maps, keys : Shapes, items : Seq(GoUpTo[n - 1])] /\ Len(v.items) = Len(v.keys)
      <=> IsMap(v, maps, GoUpTo[n - 1])
  BY DEF IsMap
<1> QED
  BY <1>1, <1>2, <1>3 DEF Over

\* The levels of documents.
LEMMA DocumentLevels ==
  /\ DocumentUpTo[0] = Scalars \cup {[g |-> "huge"]}
  /\ \A n \in 1..MaxNesting : DocumentUpTo[n - 1] \subseteq DocumentUpTo[n]
  /\ \A n \in 0..MaxNesting : DocumentUpTo[n] \subseteq Documents
<1> DEFINE leaves == Scalars \cup {[g |-> "huge"]}
           lists == {"list"}
           maps == {"map"}
           plain == FALSE
<1>1. DocumentUpTo = UpTo(leaves, lists, maps, plain)
  BY DEF DocumentUpTo
<1> HIDE DEF leaves, lists, maps, plain
<1>2. /\ DocumentUpTo[0] = leaves
      /\ \A n \in 1..MaxNesting : DocumentUpTo[n - 1] \subseteq DocumentUpTo[n]
      /\ \A n \in 0..MaxNesting : DocumentUpTo[n] \subseteq Documents
  BY <1>1, UpToLevels DEF Documents
<1> QED
  BY <1>2 DEF leaves

\* A document above the lowest level is a leaf, or a list or map of documents of
\* the level below.
LEMMA DocumentAbove ==
  ASSUME NEW n \in 1..MaxNesting, NEW v
  PROVE  v \in DocumentUpTo[n] <=>
           \/ v \in Scalars \cup {[g |-> "huge"]}
           \/ IsList(v, {"list"}, DocumentUpTo[n - 1])
           \/ IsMap(v, {"map"}, DocumentUpTo[n - 1])
<1> DEFINE leaves == Scalars \cup {[g |-> "huge"]}
           lists == {"list"}
           maps == {"map"}
           plain == FALSE
<1>1. DocumentUpTo[n] = Over(leaves, lists, maps, plain, DocumentUpTo[n - 1])
  <2>1. DocumentUpTo = UpTo(leaves, lists, maps, plain)
    BY DEF DocumentUpTo
  <2> HIDE DEF leaves, lists, maps, plain
  <2> QED
    BY <2>1, UpToLevels
<1>2. v \in [g : {"list"}, items : Seq(DocumentUpTo[n - 1])] <=> IsList(v, {"list"}, DocumentUpTo[n - 1])
  BY DEF IsList
<1>3. v \in [g : {"map"}, keys : Shapes, items : Seq(DocumentUpTo[n - 1])] /\ Len(v.items) = Len(v.keys)
      <=> IsMap(v, {"map"}, DocumentUpTo[n - 1])
  BY DEF IsMap
<1> QED
  BY <1>1, <1>2, <1>3 DEF Over

\* The tags of scalars.
ScalarKinds == {"atom", "float", "int", "whole", "string"}
\* The tags of leaves.
GoKinds == ScalarKinds \cup {"time", "date", "clock", "prefix", "stamp"}

\* What the client reads of its own documents: transform goes into []any, sets and
\* map[string]any, and leaves the rest to encoding/json.
ReturnedOf(returned, v) ==
  CASE v.g = "time" -> WholeSeconds(v)
    [] v.g = "prefix" -> v
    [] v.g = "set" -> [g |-> "set", items |-> Each(returned, v.items)]
    [] v.g = "list" -> List(Each(returned, v.items))
    [] v.g = "map" -> Map(v.keys, Each(returned, v.items))
    [] OTHER -> KeptNative[v]

Returned[v \in GoValues] == ReturnedOf(Returned, v)

\* Leaves are told from lists and maps by their tags.
LEMMA LeafKinds ==
  /\ \A v \in Scalars : v.g \in ScalarKinds
  /\ \A v \in Scalars \cup {[g |-> "huge"]} : v.g \in ScalarKinds \cup {"huge"}
  /\ \A v \in GoLeaves : v.g \in GoKinds
<1>1. \A v \in Scalars : v.g \in ScalarKinds
  BY DEF Scalars, ScalarKinds
<1>2. /\ \A v \in Times : v.g = "time"
      /\ \A v \in Dates : v.g = "date"
      /\ \A v \in Prefixes : v.g = "prefix"
  BY DEF Times, Dates, Prefixes
<1>3. \A v \in Clocks : v.g = "clock"
  BY DEF Clocks
<1>4. \A v \in [g : {"stamp"}, of : Times] : v.g = "stamp"
  OBVIOUS
<1>5. \A v \in GoLeaves : v.g \in GoKinds
  BY <1>1, <1>2, <1>3, <1>4 DEF GoLeaves, GoKinds
<1> QED
  BY <1>1, <1>5

\* A recursive call on the parts depends on their images only.
LEMMA EachAgrees ==
  ASSUME NEW S, NEW s \in Seq(S), NEW f, NEW h, \A p \in S : f[p] = h[p]
  PROVE  Each(f, s) = Each(h, s) /\ \A i \in DOMAIN s : f[s[i]] = h[s[i]]
BY DEF Each

\* The parts of a Go value are one level below it.
LEMMA GoParts ==
  ASSUME NEW n \in 0..MaxNesting, NEW v \in GoUpTo[n], v.g \notin GoKinds
  PROVE  n \in 1..MaxNesting /\ v.items \in Seq(GoUpTo[n - 1])
<1>1. v \notin GoLeaves
  BY LeafKinds
<1>2. n \in 1..MaxNesting
  BY <1>1, GoLevels, EjsonAssumption
<1> QED
  BY <1>1, <1>2, GoAbove DEF IsList, IsMap

\* The parts of a document are one level below it.
LEMMA DocumentParts ==
  ASSUME NEW n \in 0..MaxNesting, NEW v \in DocumentUpTo[n], v.g \in {"list", "map"}
  PROVE  n \in 1..MaxNesting /\ v.items \in Seq(DocumentUpTo[n - 1])
<1>1. v \notin Scalars \cup {[g |-> "huge"]}
  BY LeafKinds DEF ScalarKinds
<1>2. n \in 1..MaxNesting
  BY <1>1, DocumentLevels, EjsonAssumption
<1> QED
  BY <1>1, <1>2, DocumentAbove DEF IsList, IsMap

-----------------------------------------------------------------------------
(* The recursive functions are what their definitions say *)

\* encoding/json on a value the client left alone.
LEMMA NativeDefined == \A v \in GoValues : Native[v] = NativeOf(Native, v)
<1> DEFINE body(f, v) == NativeOf(f, v)
           Defined == {k \in 0..MaxNesting : \E f : f = [v \in GoUpTo[k] |-> body(f, v)]}
<1>1. ASSUME NEW n \in 0..MaxNesting, NEW v \in GoUpTo[n], NEW f, NEW h,
             n > 0 => \A p \in GoUpTo[n - 1] : f[p] = h[p]
      PROVE  body(f, v) = body(h, v)
  <2>1. v.g \in GoKinds \/ Each(f, v.items) = Each(h, v.items)
    BY <1>1, GoParts, EachAgrees
  <2> QED
    BY <2>1 DEF NativeOf, GoKinds, ScalarKinds
<1> HIDE DEF body
<1>2. 0 \in Defined
  <2> DEFINE f == [v \in GoUpTo[0] |-> body(<<>>, v)]
  <2>1. f = [v \in GoUpTo[0] |-> body(f, v)]
    BY <1>1, EjsonAssumption
  <2> HIDE DEF f
  <2> QED
    BY <2>1, EjsonAssumption
<1>3. ASSUME NEW k \in 0..(MaxNesting - 1), k \in Defined PROVE k + 1 \in Defined
  <2>1. PICK f : f = [v \in GoUpTo[k] |-> body(f, v)]
    BY <1>3
  <2> DEFINE h == [v \in GoUpTo[k + 1] |-> body(f, v)]
  <2>2. k + 1 \in 1..MaxNesting /\ (k + 1) - 1 = k
    BY EjsonAssumption
  <2>3. \A v \in GoUpTo[k] : h[v] = f[v]
    BY <2>1, <2>2, GoLevels
  <2>4. \A v \in GoUpTo[k + 1] : body(f, v) = body(h, v)
    <3> HIDE DEF h
    <3> QED
      BY <1>1, <2>2, <2>3
  <2>5. h = [v \in GoUpTo[k + 1] |-> body(h, v)]
    BY <2>4
  <2> HIDE DEF h
  <2> QED
    BY <2>2, <2>5
<1>4. MaxNesting \in Defined
  <2> HIDE DEF Defined
  <2> QED
    BY <1>2, <1>3, UpToInduction, EjsonAssumption
<1> QED
  BY <1>4 DEF Native, GoValues, body

\* Marshal.
LEMMA MarshalDefined == \A v \in GoValues : Marshal[v] = MarshalOf(Marshal, v)
<1> DEFINE body(f, v) == MarshalOf(f, v)
           Defined == {k \in 0..MaxNesting : \E f : f = [v \in GoUpTo[k] |-> body(f, v)]}
<1>1. ASSUME NEW n \in 0..MaxNesting, NEW v \in GoUpTo[n], NEW f, NEW h,
             n > 0 => \A p \in GoUpTo[n - 1] : f[p] = h[p]
      PROVE  body(f, v) = body(h, v)
  <2>1. v.g \in GoKinds \/ Each(f, v.items) = Each(h, v.items)
    BY <1>1, GoParts, EachAgrees
  <2> QED
    BY <2>1 DEF MarshalOf, GoKinds, ScalarKinds
<1> HIDE DEF body
<1>2. 0 \in Defined
  <2> DEFINE f == [v \in GoUpTo[0] |-> body(<<>>, v)]
  <2>1. f = [v \in GoUpTo[0] |-> body(f, v)]
    BY <1>1, EjsonAssumption
  <2> HIDE DEF f
  <2> QED
    BY <2>1, EjsonAssumption
<1>3. ASSUME NEW k \in 0..(MaxNesting - 1), k \in Defined PROVE k + 1 \in Defined
  <2>1. PICK f : f = [v \in GoUpTo[k] |-> body(f, v)]
    BY <1>3
  <2> DEFINE h == [v \in GoUpTo[k + 1] |-> body(f, v)]
  <2>2. k + 1 \in 1..MaxNesting /\ (k + 1) - 1 = k
    BY EjsonAssumption
  <2>3. \A v \in GoUpTo[k] : h[v] = f[v]
    BY <2>1, <2>2, GoLevels
  <2>4. \A v \in GoUpTo[k + 1] : body(f, v) = body(h, v)
    <3> HIDE DEF h
    <3> QED
      BY <1>1, <2>2, <2>3
  <2>5. h = [v \in GoUpTo[k + 1] |-> body(h, v)]
    BY <2>4
  <2> HIDE DEF h
  <2> QED
    BY <2>2, <2>5
<1>4. MaxNesting \in Defined
  <2> HIDE DEF Defined
  <2> QED
    BY <1>2, <1>3, UpToInduction, EjsonAssumption
<1> QED
  BY <1>4 DEF Marshal, GoValues, body

\* What is kept of a value encoding/json has encoded.
LEMMA KeptNativeDefined == \A v \in GoValues : KeptNative[v] = KeptNativeOf(KeptNative, v)
<1> DEFINE body(f, v) == KeptNativeOf(f, v)
           Defined == {k \in 0..MaxNesting : \E f : f = [v \in GoUpTo[k] |-> body(f, v)]}
<1>1. ASSUME NEW n \in 0..MaxNesting, NEW v \in GoUpTo[n], NEW f, NEW h,
             n > 0 => \A p \in GoUpTo[n - 1] : f[p] = h[p]
      PROVE  body(f, v) = body(h, v)
  <2>1. v.g \in GoKinds \/ Each(f, v.items) = Each(h, v.items)
    BY <1>1, GoParts, EachAgrees
  <2> QED
    BY <2>1 DEF KeptNativeOf, GoKinds, ScalarKinds
<1> HIDE DEF body
<1>2. 0 \in Defined
  <2> DEFINE f == [v \in GoUpTo[0] |-> body(<<>>, v)]
  <2>1. f = [v \in GoUpTo[0] |-> body(f, v)]
    BY <1>1, EjsonAssumption
  <2> HIDE DEF f
  <2> QED
    BY <2>1, EjsonAssumption
<1>3. ASSUME NEW k \in 0..(MaxNesting - 1), k \in Defined PROVE k + 1 \in Defined
  <2>1. PICK f : f = [v \in GoUpTo[k] |-> body(f, v)]
    BY <1>3
  <2> DEFINE h == [v \in GoUpTo[k + 1] |-> body(f, v)]
  <2>2. k + 1 \in 1..MaxNesting /\ (k + 1) - 1 = k
    BY EjsonAssumption
  <2>3. \A v \in GoUpTo[k] : h[v] = f[v]
    BY <2>1, <2>2, GoLevels
  <2>4. \A v \in GoUpTo[k + 1] : body(f, v) = body(h, v)
    <3> HIDE DEF h
    <3> QED
      BY <1>1, <2>2, <2>3
  <2>5. h = [v \in GoUpTo[k + 1] |-> body(h, v)]
    BY <2>4
  <2> HIDE DEF h
  <2> QED
    BY <2>2, <2>5
<1>4. MaxNesting \in Defined
  <2> HIDE DEF Defined
  <2> QED
    BY <1>2, <1>3, UpToInduction, EjsonAssumption
<1> QED
  BY <1>4 DEF KeptNative, GoValues, body

\* The server's encoder.
LEMMA ServerDocumentDefined == \A v \in GoValues : ServerDocument[v] = ServerDocumentOf(ServerDocument, v)
<1> DEFINE body(f, v) == ServerDocumentOf(f, v)
           Defined == {k \in 0..MaxNesting : \E f : f = [v \in GoUpTo[k] |-> body(f, v)]}
<1>1. ASSUME NEW n \in 0..MaxNesting, NEW v \in GoUpTo[n], NEW f, NEW h,
             n > 0 => \A p \in GoUpTo[n - 1] : f[p] = h[p]
      PROVE  body(f, v) = body(h, v)
  <2>1. v.g \in GoKinds \/ Each(f, v.items) = Each(h, v.items)
    BY <1>1, GoParts, EachAgrees
  <2> QED
    BY <2>1 DEF ServerDocumentOf, GoKinds, ScalarKinds
<1> HIDE DEF body
<1>2. 0 \in Defined
  <2> DEFINE f == [v \in GoUpTo[0] |-> body(<<>>, v)]
  <2>1. f = [v \in GoUpTo[0] |-> body(f, v)]
    BY <1>1, EjsonAssumption
  <2> HIDE DEF f
  <2> QED
    BY <2>1, EjsonAssumption
<1>3. ASSUME NEW k \in 0..(MaxNesting - 1), k \in Defined PROVE k + 1 \in Defined
  <2>1. PICK f : f = [v \in GoUpTo[k] |-> body(f, v)]
    BY <1>3
  <2> DEFINE h == [v \in GoUpTo[k + 1] |-> body(f, v)]
  <2>2. k + 1 \in 1..MaxNesting /\ (k + 1) - 1 = k
    BY EjsonAssumption
  <2>3. \A v \in GoUpTo[k] : h[v] = f[v]
    BY <2>1, <2>2, GoLevels
  <2>4. \A v \in GoUpTo[k + 1] : body(f, v) = body(h, v)
    <3> HIDE DEF h
    <3> QED
      BY <1>1, <2>2, <2>3
  <2>5. h = [v \in GoUpTo[k + 1] |-> body(h, v)]
    BY <2>4
  <2> HIDE DEF h
  <2> QED
    BY <2>2, <2>5
<1>4. MaxNesting \in Defined
  <2> HIDE DEF Defined
  <2> QED
    BY <1>2, <1>3, UpToInduction, EjsonAssumption
<1> QED
  BY <1>4 DEF ServerDocument, GoValues, body

\* What is kept of a value that was sent.
LEMMA KeptDefined ==
  ASSUME NEW server \in BOOLEAN
  PROVE  \A v \in GoValues : Kept(server)[v] = KeptOf(Kept(server), v, server)
<1> DEFINE body(f, v) == KeptOf(f, v, server)
           Defined == {k \in 0..MaxNesting : \E f : f = [v \in GoUpTo[k] |-> body(f, v)]}
<1>1. ASSUME NEW n \in 0..MaxNesting, NEW v \in GoUpTo[n], NEW f, NEW h,
             n > 0 => \A p \in GoUpTo[n - 1] : f[p] = h[p]
      PROVE  body(f, v) = body(h, v)
  <2>1. v.g \in GoKinds \/ Each(f, v.items) = Each(h, v.items)
    BY <1>1, GoParts, EachAgrees
  <2> QED
    BY <2>1 DEF KeptOf, GoKinds, ScalarKinds
<1> HIDE DEF body
<1>2. 0 \in Defined
  <2> DEFINE f == [v \in GoUpTo[0] |-> body(<<>>, v)]
  <2>1. f = [v \in GoUpTo[0] |-> body(f, v)]
    BY <1>1, EjsonAssumption
  <2> HIDE DEF f
  <2> QED
    BY <2>1, EjsonAssumption
<1>3. ASSUME NEW k \in 0..(MaxNesting - 1), k \in Defined PROVE k + 1 \in Defined
  <2>1. PICK f : f = [v \in GoUpTo[k] |-> body(f, v)]
    BY <1>3
  <2> DEFINE h == [v \in GoUpTo[k + 1] |-> body(f, v)]
  <2>2. k + 1 \in 1..MaxNesting /\ (k + 1) - 1 = k
    BY EjsonAssumption
  <2>3. \A v \in GoUpTo[k] : h[v] = f[v]
    BY <2>1, <2>2, GoLevels
  <2>4. \A v \in GoUpTo[k + 1] : body(f, v) = body(h, v)
    <3> HIDE DEF h
    <3> QED
      BY <1>1, <2>2, <2>3
  <2>5. h = [v \in GoUpTo[k + 1] |-> body(h, v)]
    BY <2>4
  <2> HIDE DEF h
  <2> QED
    BY <2>2, <2>5
<1>4. MaxNesting \in Defined
  <2> HIDE DEF Defined
  <2> QED
    BY <1>2, <1>3, UpToInduction, EjsonAssumption
<1> QED
  BY <1>4 DEF Kept, GoValues, body

\* What the client reads of its own documents.
LEMMA ReturnedDefined == \A v \in GoValues : Returned[v] = ReturnedOf(Returned, v)
<1> DEFINE body(f, v) == ReturnedOf(f, v)
           Defined == {k \in 0..MaxNesting : \E f : f = [v \in GoUpTo[k] |-> body(f, v)]}
<1>1. ASSUME NEW n \in 0..MaxNesting, NEW v \in GoUpTo[n], NEW f, NEW h,
             n > 0 => \A p \in GoUpTo[n - 1] : f[p] = h[p]
      PROVE  body(f, v) = body(h, v)
  <2>1. v.g \in GoKinds \/ Each(f, v.items) = Each(h, v.items)
    BY <1>1, GoParts, EachAgrees
  <2> QED
    BY <2>1 DEF ReturnedOf, GoKinds, ScalarKinds
<1> HIDE DEF body
<1>2. 0 \in Defined
  <2> DEFINE f == [v \in GoUpTo[0] |-> body(<<>>, v)]
  <2>1. f = [v \in GoUpTo[0] |-> body(f, v)]
    BY <1>1, EjsonAssumption
  <2> HIDE DEF f
  <2> QED
    BY <2>1, EjsonAssumption
<1>3. ASSUME NEW k \in 0..(MaxNesting - 1), k \in Defined PROVE k + 1 \in Defined
  <2>1. PICK f : f = [v \in GoUpTo[k] |-> body(f, v)]
    BY <1>3
  <2> DEFINE h == [v \in GoUpTo[k + 1] |-> body(f, v)]
  <2>2. k + 1 \in 1..MaxNesting /\ (k + 1) - 1 = k
    BY EjsonAssumption
  <2>3. \A v \in GoUpTo[k] : h[v] = f[v]
    BY <2>1, <2>2, GoLevels
  <2>4. \A v \in GoUpTo[k + 1] : body(f, v) = body(h, v)
    <3> HIDE DEF h
    <3> QED
      BY <1>1, <2>2, <2>3
  <2>5. h = [v \in GoUpTo[k + 1] |-> body(h, v)]
    BY <2>4
  <2> HIDE DEF h
  <2> QED
    BY <2>2, <2>5
<1>4. MaxNesting \in Defined
  <2> HIDE DEF Defined
  <2> QED
    BY <1>2, <1>3, UpToInduction, EjsonAssumption
<1> QED
  BY <1>4 DEF Returned, GoValues, body

\* Whether a value holds a time or prefix.
LEMMA BareDefined == \A v \in GoValues : Bare[v] = BareOf(Bare, v)
<1> DEFINE body(f, v) == BareOf(f, v)
           Defined == {k \in 0..MaxNesting : \E f : f = [v \in GoUpTo[k] |-> body(f, v)]}
<1>1. ASSUME NEW n \in 0..MaxNesting, NEW v \in GoUpTo[n], NEW f, NEW h,
             n > 0 => \A p \in GoUpTo[n - 1] : f[p] = h[p]
      PROVE  body(f, v) = body(h, v)
  <2>1. v.g \in GoKinds \/ \A i \in DOMAIN v.items : f[v.items[i]] = h[v.items[i]]
    BY <1>1, GoParts, EachAgrees
  <2> QED
    BY <2>1 DEF BareOf, GoKinds, ScalarKinds
<1> HIDE DEF body
<1>2. 0 \in Defined
  <2> DEFINE f == [v \in GoUpTo[0] |-> body(<<>>, v)]
  <2>1. f = [v \in GoUpTo[0] |-> body(f, v)]
    BY <1>1, EjsonAssumption
  <2> HIDE DEF f
  <2> QED
    BY <2>1, EjsonAssumption
<1>3. ASSUME NEW k \in 0..(MaxNesting - 1), k \in Defined PROVE k + 1 \in Defined
  <2>1. PICK f : f = [v \in GoUpTo[k] |-> body(f, v)]
    BY <1>3
  <2> DEFINE h == [v \in GoUpTo[k + 1] |-> body(f, v)]
  <2>2. k + 1 \in 1..MaxNesting /\ (k + 1) - 1 = k
    BY EjsonAssumption
  <2>3. \A v \in GoUpTo[k] : h[v] = f[v]
    BY <2>1, <2>2, GoLevels
  <2>4. \A v \in GoUpTo[k + 1] : body(f, v) = body(h, v)
    <3> HIDE DEF h
    <3> QED
      BY <1>1, <2>2, <2>3
  <2>5. h = [v \in GoUpTo[k + 1] |-> body(h, v)]
    BY <2>4
  <2> HIDE DEF h
  <2> QED
    BY <2>2, <2>5
<1>4. MaxNesting \in Defined
  <2> HIDE DEF Defined
  <2> QED
    BY <1>2, <1>3, UpToInduction, EjsonAssumption
<1> QED
  BY <1>4 DEF Bare, GoValues, body

\* Whether transform gets at it.
LEMMA ReachesDefined == \A v \in GoValues : Reaches[v] = ReachesOf(Reaches, v)
<1> DEFINE body(f, v) == ReachesOf(f, v)
           Defined == {k \in 0..MaxNesting : \E f : f = [v \in GoUpTo[k] |-> body(f, v)]}
<1>1. ASSUME NEW n \in 0..MaxNesting, NEW v \in GoUpTo[n], NEW f, NEW h,
             n > 0 => \A p \in GoUpTo[n - 1] : f[p] = h[p]
      PROVE  body(f, v) = body(h, v)
  <2>1. v.g \in GoKinds \/ \A i \in DOMAIN v.items : f[v.items[i]] = h[v.items[i]]
    BY <1>1, GoParts, EachAgrees
  <2> QED
    BY <2>1 DEF ReachesOf, GoKinds, ScalarKinds
<1> HIDE DEF body
<1>2. 0 \in Defined
  <2> DEFINE f == [v \in GoUpTo[0] |-> body(<<>>, v)]
  <2>1. f = [v \in GoUpTo[0] |-> body(f, v)]
    BY <1>1, EjsonAssumption
  <2> HIDE DEF f
  <2> QED
    BY <2>1, EjsonAssumption
<1>3. ASSUME NEW k \in 0..(MaxNesting - 1), k \in Defined PROVE k + 1 \in Defined
  <2>1. PICK f : f = [v \in GoUpTo[k] |-> body(f, v)]
    BY <1>3
  <2> DEFINE h == [v \in GoUpTo[k + 1] |-> body(f, v)]
  <2>2. k + 1 \in 1..MaxNesting /\ (k + 1) - 1 = k
    BY EjsonAssumption
  <2>3. \A v \in GoUpTo[k] : h[v] = f[v]
    BY <2>1, <2>2, GoLevels
  <2>4. \A v \in GoUpTo[k + 1] : body(f, v) = body(h, v)
    <3> HIDE DEF h
    <3> QED
      BY <1>1, <2>2, <2>3
  <2>5. h = [v \in GoUpTo[k + 1] |-> body(h, v)]
    BY <2>4
  <2> HIDE DEF h
  <2> QED
    BY <2>2, <2>5
<1>4. MaxNesting \in Defined
  <2> HIDE DEF Defined
  <2> QED
    BY <1>2, <1>3, UpToInduction, EjsonAssumption
<1> QED
  BY <1>4 DEF Reaches, GoValues, body

\* Decoding.
LEMMA ReviveDefined == \A v \in Documents : Revive[v] = ReviveOf(Revive, v)
<1> DEFINE body(f, v) == ReviveOf(f, v)
           Defined == {k \in 0..MaxNesting : \E f : f = [v \in DocumentUpTo[k] |-> body(f, v)]}
<1>1. ASSUME NEW n \in 0..MaxNesting, NEW v \in DocumentUpTo[n], NEW f, NEW h,
             n > 0 => \A p \in DocumentUpTo[n - 1] : f[p] = h[p]
      PROVE  body(f, v) = body(h, v)
  <2>1. CASE v.g \notin {"list", "map"}
    BY <2>1 DEF ReviveOf
  <2>2. CASE v.g \in {"list", "map"}
    <3>1. n \in 1..MaxNesting /\ v.items \in Seq(DocumentUpTo[n - 1])
      BY <2>2, DocumentParts
    <3>2. Each(f, v.items) = Each(h, v.items)
      BY <1>1, <3>1, EachAgrees
    <3>3. ASSUME v.g = "map", v.keys = <<"$set">>, v.items[1].g = "list"
          PROVE  Each(f, v.items[1].items) = Each(h, v.items[1].items)
      <4>1. v \notin Scalars \cup {[g |-> "huge"]} /\ ~IsList(v, {"list"}, DocumentUpTo[n - 1])
        BY <3>3, LeafKinds DEF ScalarKinds, IsList
      <4>2. Len(v.items) = 1
        BY <3>1, <3>3, <4>1, DocumentAbove DEF IsMap
      <4>3. v.items[1] \in DocumentUpTo[n - 1]
        BY <3>1, <4>2
      <4>4. n - 1 \in 1..MaxNesting /\ v.items[1].items \in Seq(DocumentUpTo[(n - 1) - 1])
        BY <3>1, <3>3, <4>3, DocumentParts, EjsonAssumption
      <4>5. DocumentUpTo[(n - 1) - 1] \subseteq DocumentUpTo[n - 1]
        BY <4>4, DocumentLevels
      <4>6. \A p \in DocumentUpTo[(n - 1) - 1] : f[p] = h[p]
        BY <1>1, <3>1, <4>5
      <4> QED
        BY <4>4, <4>6, EachAgrees
    <3> QED
      BY <2>2, <3>2, <3>3 DEF ReviveOf, ReviveObject, ReviveSet
  <2> QED
    BY <2>1, <2>2
<1> HIDE DEF body
<1>2. 0 \in Defined
  <2> DEFINE f == [v \in DocumentUpTo[0] |-> body(<<>>, v)]
  <2>1. f = [v \in DocumentUpTo[0] |-> body(f, v)]
    BY <1>1, EjsonAssumption
  <2> HIDE DEF f
  <2> QED
    BY <2>1, EjsonAssumption
<1>3. ASSUME NEW k \in 0..(MaxNesting - 1), k \in Defined PROVE k + 1 \in Defined
  <2>1. PICK f : f = [v \in DocumentUpTo[k] |-> body(f, v)]
    BY <1>3
  <2> DEFINE h == [v \in DocumentUpTo[k + 1] |-> body(f, v)]
  <2>2. k + 1 \in 1..MaxNesting /\ (k + 1) - 1 = k
    BY EjsonAssumption
  <2>3. \A v \in DocumentUpTo[k] : h[v] = f[v]
    BY <2>1, <2>2, DocumentLevels
  <2>4. \A v \in DocumentUpTo[k + 1] : body(f, v) = body(h, v)
    <3> HIDE DEF h
    <3> QED
      BY <1>1, <2>2, <2>3
  <2>5. h = [v \in DocumentUpTo[k + 1] |-> body(h, v)]
    BY <2>4
  <2> HIDE DEF h
  <2> QED
    BY <2>2, <2>5
<1>4. MaxNesting \in Defined
  <2> HIDE DEF Defined
  <2> QED
    BY <1>2, <1>3, UpToInduction, EjsonAssumption
<1> QED
  BY <1>4 DEF Revive, Documents, body

-----------------------------------------------------------------------------
(* Times, dates and times of day *)

\* The milliseconds of an instant are split exactly, before 1970 too.
LEMMA InstantExact ==
  ASSUME NEW n \in Int
  PROVE  Instant(n) \in Times /\ Instant(n).sec * 1000 + Instant(n).ms = n
<1> DEFINE q == IF n >= 0 THEN n \div 1000 ELSE -((-n) \div 1000)
<1>1. q \in Int /\ n - q * 1000 \in -999..999
  OBVIOUS
<1> DEFINE rem == n - q * 1000
           sec == IF rem < 0 THEN q - 1 ELSE q
           ms == IF rem < 0 THEN rem + 1000 ELSE rem
<1>2. Instant(n) = [g |-> "time", sec |-> sec, ms |-> ms]
  <2> HIDE DEF q
  <2> QED
    BY DEF Instant, q
<1>3. sec \in Int /\ ms \in 0..999 /\ sec * 1000 + ms = n
  <2> HIDE DEF q
  <2> QED
    BY <1>1
<1> HIDE DEF sec, ms
<1> QED
  BY <1>2, <1>3 DEF Times

\* Splitting the milliseconds of a time gives the time.
LEMMA InstantOfTime ==
  ASSUME NEW t \in Times, NEW n \in Int, n = t.sec * 1000 + t.ms
  PROVE  Instant(n) = t
<1> DEFINE u == Instant(n)
           a == u.sec
           x == u.ms
           sec == t.sec
           ms == t.ms
<1>1. u \in Times /\ a * 1000 + x = sec * 1000 + ms
  BY InstantExact
<1> HIDE DEF u
<1>2. /\ a \in Int /\ x \in 0..999 /\ u = [g |-> "time", sec |-> a, ms |-> x]
      /\ sec \in Int /\ ms \in 0..999 /\ t = [g |-> "time", sec |-> sec, ms |-> ms]
  BY <1>1 DEF Times
<1> HIDE DEF a, x, sec, ms
<1>3. a = sec /\ x = ms
  BY <1>1, <1>2, SMT
<1> QED
  BY <1>2, <1>3 DEF u

\* A date is read from its own text.
LEMMA DateRoundTrip == \A d \in Dates : ParseDate(DateString(d)) = d
<1>1. SUFFICES ASSUME NEW day \in Dates PROVE ParseDate(DateString(day)) = day
  OBVIOUS
<1> DEFINE Months == 1..12
           last == DaysIn(day.y, day.m)
<1>2. day = [g |-> "date", y |-> day.y, m |-> day.m, d |-> day.d]
  BY DEF Dates
<1>3. day.y \in Years /\ day.m \in Months
  BY DEF Dates, Months
<1>4. day.d \in 1..31 /\ day.d <= last
  BY DEF Dates
<1>5. day.d \in 1..last
  <2>1. last \in Int
    BY DEF DaysIn
  <2> HIDE DEF last
  <2> QED
    BY <1>4, <2>1
<1> HIDE DEF Months, last
<1>6. /\ DateString(day).as = "date" /\ DateString(day).y = day.y
      /\ DateString(day).m = day.m /\ DateString(day).d = day.d
  BY DEF DateString
<1>7. ParseDate(DateString(day)) = [g |-> "date", y |-> day.y, m |-> day.m, d |-> day.d]
  BY <1>3, <1>5, <1>6 DEF ParseDate, Months, last
<1> QED
  BY <1>2, <1>7

\* A month has 28 to 31 days.
LEMMA DaysInRange == \A y, m : DaysIn(y, m) \in 28..31
BY DEF DaysIn

\* Whatever text is parsed as a date gives a date there is, or an error.
LEMMA ParsedDate ==
  ASSUME NEW u
  PROVE  ParseDate(u) \in Dates \cup {Bad}
<1> DEFINE y == u.y
           m == u.m
           k == u.d
           date == [g |-> "date", y |-> y, m |-> m, d |-> k]
           ok == u.as = "date" /\ y \in Years /\ m \in 1..12 /\ k \in 1..DaysIn(y, m)
<1>1. ParseDate(u) = IF ok THEN date ELSE Bad
  BY DEF ParseDate
<1> HIDE DEF y, m, k
<1>2. ASSUME ok PROVE date \in Dates
  <2>1. DaysIn(y, m) \in 28..31
    BY DaysInRange
  <2>2. k \in 1..31 /\ k <= DaysIn(y, m)
    BY <1>2, <2>1
  <2>3. date \in [g : {"date"}, y : Years, m : 1..12, d : 1..31]
    BY <1>2, <2>2, SMT
  <2> QED
    BY <2>2, <2>3, SMT DEF Dates
<1> HIDE DEF ok, date
<1> QED
  BY <1>1, <1>2

\* Six digits of microseconds are read as that many microseconds.
LEMMA MicrosDigits ==
  ASSUME NEW n \in Int, 0 <= n, n < 1000000
  PROVE  /\ Micros(n) \in Seq(0..9)
         /\ Nanoseconds(Micros(n)) = n * 1000
<1> DEFINE a == n \div 100000
           b == (n \div 10000) % 10
           c == (n \div 1000) % 10
           d == (n \div 100) % 10
           e == (n \div 10) % 10
           f == n % 10
<1>1. a \in 0..9 /\ b \in 0..9 /\ c \in 0..9 /\ d \in 0..9 /\ e \in 0..9 /\ f \in 0..9
  BY SMT
<1>2. n \div 10000 = a * 10 + b
  BY SMT
<1>3. n \div 1000 = (n \div 10000) * 10 + c
  BY SMT
<1>4. n \div 100 = (n \div 1000) * 10 + d
  BY SMT
<1>5. n \div 10 = (n \div 100) * 10 + e
  BY SMT
<1>6. n = (n \div 10) * 10 + f
  BY SMT
<1>7. Micros(n) = <<a, b, c, d, e, f>>
  BY SMT DEF Micros
<1>8. n = ((((a * 10 + b) * 10 + c) * 10 + d) * 10 + e) * 10 + f
  BY <1>2, <1>3, <1>4, <1>5, <1>6, SMT
<1> HIDE DEF a, b, c, d, e, f
<1> DEFINE s == <<a, b, c, d, e, f>>
<1>9. /\ Digit(s, 1) = a /\ Digit(s, 2) = b /\ Digit(s, 3) = c
      /\ Digit(s, 4) = d /\ Digit(s, 5) = e /\ Digit(s, 6) = f
      /\ Digit(s, 7) = 0 /\ Digit(s, 8) = 0 /\ Digit(s, 9) = 0
  BY DEF Digit
<1>10. s \in Seq(0..9)
  BY <1>1
<1> HIDE DEF s
<1>11. Nanoseconds(s)
       = ((((((((a * 10 + b) * 10 + c) * 10 + d) * 10 + e) * 10 + f) * 10 + 0) * 10 + 0) * 10 + 0)
  BY <1>9, SMT DEF Nanoseconds
<1>12. Nanoseconds(s) = n * 1000
  BY <1>1, <1>8, <1>11, SMT
<1> QED
  BY <1>7, <1>10, <1>12 DEF s

\* A fraction is less than a second, however many digits it has.
LEMMA NanosecondsRange ==
  ASSUME NEW digits \in Seq(0..9)
  PROVE  Nanoseconds(digits) \in 0..LastNanosecond
<1> DEFINE a == Digit(digits, 1)
           b == Digit(digits, 2)
           c == Digit(digits, 3)
           d == Digit(digits, 4)
           e == Digit(digits, 5)
           f == Digit(digits, 6)
           g == Digit(digits, 7)
           h == Digit(digits, 8)
           i == Digit(digits, 9)
           sum == ((((((((a * 10 + b) * 10 + c) * 10 + d) * 10 + e) * 10 + f) * 10 + g) * 10 + h) * 10 + i)
<1>1. /\ a \in 0..9 /\ b \in 0..9 /\ c \in 0..9 /\ d \in 0..9 /\ e \in 0..9
      /\ f \in 0..9 /\ g \in 0..9 /\ h \in 0..9 /\ i \in 0..9
  BY DEF Digit
<1>2. Nanoseconds(digits) = sum
  BY DEF Nanoseconds
<1> HIDE DEF a, b, c, d, e, f, g, h, i
<1>3. sum \in Int /\ 0 <= sum /\ sum <= LastNanosecond
  BY <1>1, SMT DEF LastNanosecond
<1>4. LastNanosecond \in Int
  BY SMT DEF LastNanosecond
<1> HIDE DEF sum
<1> QED
  BY <1>2, <1>3, <1>4, SMT

\* The bounds, as inequalities.
LEMMA Limits ==
  /\ LastNanosecond \in Int /\ LastNanosecond < 1000000000
  /\ LargestOffset \in Int /\ LargestOffset < 360000
BY SMT DEF LastNanosecond, LargestOffset

\* Hours and minutes of an offset lose its seconds and nothing else.
LEMMA OffsetMinutes ==
  ASSUME NEW off \in 0..LargestOffset
  PROVE  /\ off \div 3600 \in Nat /\ off \div 3600 < 100
         /\ (off % 3600) \div 60 \in 0..59
         /\ (off \div 3600) * 3600 + ((off % 3600) \div 60) * 60 = (off \div 60) * 60
<1> DEFINE h == off \div 3600
           r == off % 3600
           m == r \div 60
           q == r % 60
<1>1. off \in Int /\ 0 <= off /\ off <= LargestOffset /\ LargestOffset < 360000
  BY Limits, SMT
<1>2. h \in Int /\ r \in Int /\ 0 <= r /\ r < 3600 /\ off = h * 3600 + r
  BY <1>1, SMT
<1>4. m \in Int /\ q \in Int /\ 0 <= q /\ q < 60 /\ r = m * 60 + q
  BY <1>2, SMT
<1>5. 0 <= m /\ m < 60
  BY <1>2, <1>4, SMT
<1> HIDE DEF h, r, m, q
<1>3. 0 <= h /\ h < 100
  BY <1>1, <1>2, Limits, SMT
<1>6. off \div 60 = h * 60 + m
  BY <1>2, <1>4, SMT
<1>7. h * 3600 + m * 60 = (off \div 60) * 60
  BY <1>2, <1>4, <1>6, SMT
<1>8. h \in Nat /\ m \in 0..59
  BY <1>2, <1>3, <1>4, <1>5, SMT
<1> QED
  BY <1>3, <1>7, <1>8, SMT DEF h, r, m

\* A fraction is written and read with microseconds.
LEMMA FractionKept ==
  ASSUME NEW ns \in 0..LastNanosecond, NEW f,
         f = IF ns = 0 THEN <<>> ELSE Micros(ns \div 1000)
  PROVE  f \in Seq(0..9) /\ Nanoseconds(f) = (ns \div 1000) * 1000
<1>1. CASE ns = 0
  <2>1. Nanoseconds(<<>>) = 0
    BY SMT DEF Nanoseconds, Digit
  <2> QED
    BY <1>1, <2>1, SMT
<1>2. CASE ns # 0
  <2>1. ns \div 1000 \in Int /\ 0 <= ns \div 1000 /\ ns \div 1000 < 1000000
    <3>1. ns \in Int /\ 0 <= ns /\ ns < 1000000000
      BY Limits, SMT
    <3> QED
      BY <3>1, SMT
  <2> QED
    BY <1>2, <2>1, MicrosDigits, SMT
<1> QED
  BY <1>1, <1>2

\* What is kept of a time of day is in range.
LEMMA KeptRanges ==
  ASSUME NEW ns \in 0..LastNanosecond, NEW off \in -LargestOffset..LargestOffset
  PROVE  /\ (ns \div 1000) * 1000 \in 0..LastNanosecond
         /\ Minutes(off) \in -LargestOffset..LargestOffset
<1>1. LastNanosecond \in Int /\ LargestOffset \in Int
  BY Limits
<1>2. ns \in Int /\ off \in Int /\ 0 <= ns /\ ns <= LastNanosecond
      /\ -LargestOffset <= off /\ off <= LargestOffset
  BY <1>1, SMT
<1>3. (ns \div 1000) * 1000 \in Int /\ 0 <= (ns \div 1000) * 1000 /\ (ns \div 1000) * 1000 <= ns
  BY <1>2, SMT
<1>4. Minutes(off) \in Int /\ -LargestOffset <= Minutes(off) /\ Minutes(off) <= LargestOffset
  BY <1>1, <1>2, SMT DEF Minutes
<1>5. (ns \div 1000) * 1000 \in 0..LastNanosecond
  BY <1>1, <1>2, <1>3, SMT
<1> QED
  BY <1>1, <1>4, <1>5, SMT

\* A time of day is read from its text, or from the server's, as the time of day
\* with whole microseconds and offset minutes.
LEMMA ClockTexts ==
  ASSUME NEW t \in Clocks, NEW x \in 0..59,
         NEW u, u = IF t.zoned THEN [TimeString(t) EXCEPT !.zone.s = x] ELSE TimeString(t)
  PROVE  u \in Texts /\ ParseTime(u) = KeptClock(t) /\ KeptClock(t) \in Clocks
<1> DEFINE h == t.h
           m == t.m
           s == t.s
           ns == t.ns
           zoned == t.zoned
           off == t.off
<1>0. /\ h \in 0..23 /\ m \in 0..59 /\ s \in 0..59 /\ ns \in 0..LastNanosecond
      /\ zoned \in BOOLEAN /\ off \in -LargestOffset..LargestOffset
      /\ t = [g |-> "clock", h |-> h, m |-> m, s |-> s, ns |-> ns, zoned |-> zoned, off |-> off]
      /\ u = IF zoned THEN [TimeString(t) EXCEPT !.zone.s = x] ELSE TimeString(t)
  BY DEF Clocks
<1> HIDE DEF h, m, s, ns, zoned, off
<1> DEFINE abs == IF off < 0 THEN -off ELSE off
           sign == IF off < 0 THEN -1 ELSE 1
           oh == abs \div 3600
           om == (abs % 3600) \div 60
           zone == IF ~zoned THEN [kind |-> "none"]
                   ELSE [kind |-> "offset", sign |-> sign, h |-> oh, m |-> om, s |-> x]
           fraction == IF ns = 0 THEN <<>> ELSE Micros(ns \div 1000)
           kept == (ns \div 1000) * 1000
           minutes == IF zoned THEN Minutes(off) ELSE 0
<1>1. abs \in 0..LargestOffset
  BY <1>0, Limits, SMT
<1>2. /\ oh \in Nat /\ oh < 100 /\ om \in 0..59
      /\ oh * 3600 + om * 60 = (abs \div 60) * 60
  <2> HIDE DEF abs
  <2> QED
    BY <1>1, OffsetMinutes, SMTT(30)
<1>3. u = [as |-> "clock", h |-> h, m |-> m, s |-> s, fraction |-> fraction, zone |-> zone]
  BY <1>0, SMTT(30) DEF TimeString
<1>4. sign \in {-1, 1}
  OBVIOUS
<1>5. fraction \in Seq(0..9) /\ Nanoseconds(fraction) = kept
  <2> HIDE DEF fraction
  <2> QED
    BY <1>0, FractionKept DEF fraction
<1>6. sign * (oh * 3600 + om * 60) = Minutes(off)
  <2> HIDE DEF oh, om
  <2>1. off \in Int
    BY <1>0, Limits, SMT
  <2>2. CASE off < 0
    BY <1>2, <2>1, <2>2, SMT DEF Minutes
  <2>3. CASE ~(off < 0)
    BY <1>2, <2>1, <2>3, SMT DEF Minutes
  <2> QED
    BY <2>2, <2>3
<1>7. KeptClock(t) = [g |-> "clock", h |-> h, m |-> m, s |-> s, ns |-> kept,
                      zoned |-> zoned, off |-> minutes]
  <2>1. KeptClock(t) = [t EXCEPT !.ns = kept, !.off = minutes]
    BY <1>0 DEF KeptClock
  <2> HIDE DEF kept, minutes
  <2> QED
    BY <1>0, <2>1
<1>8. kept \in 0..LastNanosecond /\ minutes \in -LargestOffset..LargestOffset
  <2>1. 0 <= LargestOffset
    BY <1>1, Limits, SMT
  <2>2. 0 \in -LargestOffset..LargestOffset
    BY <2>1, Limits, SMT
  <2>3. kept \in 0..LastNanosecond /\ Minutes(off) \in -LargestOffset..LargestOffset
    BY <1>0, KeptRanges
  <2> QED
    BY <2>2, <2>3
<1> HIDE DEF abs, sign, oh, om, fraction, kept
<1>9. zone \in Zones /\ ReadableOffset(zone)
  BY <1>0, <1>2, <1>4 DEF Zones, ReadableOffset
<1>10. /\ (zone.kind # "none") = zoned
       /\ (IF zone.kind = "offset" THEN ParseOffset(zone) ELSE 0) = minutes
  BY <1>0, <1>6 DEF ParseOffset
<1> HIDE DEF zone, minutes
<1>11. u \in Texts
  <2>1. u \in [as : {"clock"}, h : Nat, m : Nat, s : Int, fraction : Seq(0..9), zone : Zones]
    <3>1. h \in Nat /\ m \in Nat /\ s \in Int
      BY <1>0
    <3> QED
      BY <1>3, <1>5, <1>9, <3>1
  <2> QED
    BY <2>1 DEF Texts
<1>12. ParseTime(u) = KeptClock(t)
  <2>1. /\ u.as = "clock" /\ u.h = h /\ u.m = m /\ u.s = s
        /\ u.fraction = fraction /\ u.zone = zone
    BY <1>3
  <2>2. ~(h > 23) /\ ~(m > 59) /\ ~(s > 59) /\ s >= 0
    BY <1>0
  <2> DEFINE y == IF u.as = "clock" /\ u.s >= 0 THEN u.s ELSE 0
             bad == u.as # "clock" \/ u.h > 23 \/ u.m > 59 \/ y > 59 \/ ~ReadableOffset(u.zone)
             z == u.zone.kind # "none"
             o == IF u.zone.kind = "offset" THEN ParseOffset(u.zone) ELSE 0
  <2>3. ParseTime(u) = IF bad THEN Bad
                       ELSE [g |-> "clock", h |-> u.h, m |-> u.m, s |-> y, ns |-> Nanoseconds(u.fraction),
                             zoned |-> z, off |-> o]
    BY DEF ParseTime
  <2>4. y = s
    BY <2>1, <2>2
  <2>5. z = zoned
    BY <1>10, <2>1, Zenon
  <2>7. o = minutes
    <3>1. u.zone = zone /\ (IF zone.kind = "offset" THEN ParseOffset(zone) ELSE 0) = minutes
      BY <1>10, <2>1
    <3>2. CASE zone.kind = "offset"
      <4>1. ParseOffset(u.zone) = ParseOffset(zone) /\ u.zone.kind = zone.kind
        BY <3>1
      <4>2. o = ParseOffset(zone)
        BY <3>2, <4>1
      <4>3. minutes = ParseOffset(zone)
        BY <3>1, <3>2
      <4> QED
        BY <4>2, <4>3
    <3>3. CASE zone.kind # "offset"
      BY <3>1, <3>3, Zenon
    <3> QED
      BY <3>2, <3>3
  <2> HIDE DEF y, z, o
  <2>6. ~bad
    BY <1>9, <2>1, <2>2, <2>4
  <2> HIDE DEF bad
  <2> QED
    BY <1>5, <1>7, <2>1, <2>3, <2>4, <2>5, <2>6, <2>7
<1>13. KeptClock(t) \in Clocks
  BY <1>0, <1>7, <1>8 DEF Clocks
<1> QED
  BY <1>11, <1>12, <1>13

\* Whatever text is parsed as a time of day gives one there is, or an error.
LEMMA ParsedTime ==
  ASSUME NEW u \in Texts
  PROVE  ParseTime(u) \in Clocks \cup {Bad}
<1> DEFINE s == IF u.as = "clock" /\ u.s >= 0 THEN u.s ELSE 0
           off == IF u.zone.kind = "offset" THEN ParseOffset(u.zone) ELSE 0
           ns == Nanoseconds(u.fraction)
<1>1. SUFFICES ASSUME ParseTime(u) # Bad PROVE ParseTime(u) \in Clocks
  OBVIOUS
<1>2. /\ u.as = "clock" /\ ~(u.h > 23) /\ ~(u.m > 59) /\ ~(s > 59) /\ ReadableOffset(u.zone)
      /\ ParseTime(u) = [g |-> "clock", h |-> u.h, m |-> u.m, s |-> s, ns |-> ns,
                            zoned |-> u.zone.kind # "none", off |-> off]
  BY <1>1 DEF ParseTime
<1>3. /\ u.h \in Nat /\ u.m \in Nat /\ u.s \in Int
      /\ u.fraction \in Seq(0..9) /\ u.zone \in Zones
  <2>1. u.as = "clock"
    BY <1>2
  <2> QED
    BY <2>1 DEF Texts
<1>4. u.h \in 0..23 /\ u.m \in 0..59 /\ s \in 0..59
  <2>1. u.h \in 0..23 /\ u.m \in 0..59
    <3>1. ~(u.h > 23) /\ ~(u.m > 59) /\ u.h \in Nat /\ u.m \in Nat
      BY <1>2, <1>3
    <3> QED
      BY <3>1
  <2>2. s \in Int /\ s >= 0
    <3>1. CASE u.as = "clock" /\ u.s >= 0
      BY <1>3, <3>1
    <3>2. CASE ~(u.as = "clock" /\ u.s >= 0)
      BY <3>2
    <3> QED
      BY <3>1, <3>2
  <2> HIDE DEF s
  <2> QED
    BY <1>2, <2>1, <2>2
<1>5. ns \in 0..LastNanosecond
  BY <1>3, NanosecondsRange
<1>6. off \in -LargestOffset..LargestOffset
  <2> DEFINE z == u.zone
  <2>1. CASE z.kind = "offset"
    <3>1. z.h \in Nat /\ z.h < 100 /\ z.m \in 0..59 /\ z.sign \in {-1, 1}
      BY <1>2, <1>3, <2>1 DEF Zones, ReadableOffset
    <3> DEFINE d == z.h * 3600 + z.m * 60
    <3>2. d \in Int /\ 0 <= d /\ d <= 359940
      BY <3>1, SMT
    <3>3. off = d \/ off = -d
      <4>1. off = z.sign * d
        BY <2>1 DEF ParseOffset
      <4> HIDE DEF off, d
      <4> QED
        BY <3>1, <3>2, <4>1
    <3> HIDE DEF off, d
    <3>4. 359940 <= LargestOffset
      BY SMT DEF LargestOffset
    <3> QED
      BY <3>2, <3>3, <3>4, Limits, SMT
  <2>2. CASE z.kind # "offset"
    <3>1. 0 <= LargestOffset
      BY SMT DEF LargestOffset
    <3> QED
      BY <2>2, <3>1, Limits, SMT
  <2> QED
    BY <2>1, <2>2
<1>7. (u.zone.kind # "none") \in BOOLEAN
  OBVIOUS
<1> HIDE DEF s, off, ns
<1> QED
  BY <1>2, <1>4, <1>5, <1>6, <1>7 DEF Clocks

-----------------------------------------------------------------------------
(* What is kept of a value is a value *)

\* The tag of a leaf says which set it is from.
LEMMA LeafOfKind ==
  ASSUME NEW v \in GoLeaves
  PROVE  /\ v.g \in ScalarKinds => v \in Scalars
         /\ v.g = "time" => v \in Times
         /\ v.g = "date" => v \in Dates
         /\ v.g = "clock" => v \in Clocks
         /\ v.g = "prefix" => v \in Prefixes
         /\ v.g = "stamp" => v.of \in Times /\ v = [g |-> "stamp", of |-> v.of]
<1>1. /\ \A x \in Times : x.g = "time"
      /\ \A x \in Dates : x.g = "date"
      /\ \A x \in Prefixes : x.g = "prefix"
  BY DEF Times, Dates, Prefixes
<1>2. \A x \in Clocks : x.g = "clock"
  BY DEF Clocks
<1>3. \A x \in [g : {"stamp"}, of : Times] : x.g = "stamp" /\ x.of \in Times /\ x = [g |-> "stamp", of |-> x.of]
  OBVIOUS
<1>4. \A x \in Scalars : x.g \in ScalarKinds
  BY LeafKinds
<1> QED
  BY <1>1, <1>2, <1>3, <1>4 DEF GoLeaves, ScalarKinds

\* A Go value is a leaf, or a list or map over the level below.
LEMMA GoShape ==
  ASSUME NEW n \in 0..MaxNesting, NEW v \in GoUpTo[n]
  PROVE  /\ v.g \in GoKinds => v \in GoLeaves
         /\ v.g \notin GoKinds =>
              /\ n \in 1..MaxNesting /\ v.items \in Seq(GoUpTo[n - 1])
              /\ \/ IsList(v, {"list", "set", "slice"}, GoUpTo[n - 1])
                 \/ IsMap(v, {"map", "table", "struct"}, GoUpTo[n - 1]) /\ ~Extension(v)
<1>1. CASE v \in GoLeaves
  BY <1>1, LeafKinds
<1>2. CASE v \notin GoLeaves
  <2>1. n \in 1..MaxNesting
    BY <1>2, GoLevels, EjsonAssumption
  <2>2. \/ IsList(v, {"list", "set", "slice"}, GoUpTo[n - 1])
        \/ IsMap(v, {"map", "table", "struct"}, GoUpTo[n - 1]) /\ ~Extension(v)
    BY <1>2, <2>1, GoAbove
  <2> QED
    BY <2>1, <2>2 DEF IsList, IsMap, GoKinds, ScalarKinds
<1> QED
  BY <1>1, <1>2

\* Leaves are in every level.
LEMMA GoLeavesBelow == \A n \in 0..MaxNesting : GoLeaves \subseteq GoUpTo[n] /\ GoLeaves \subseteq GoValues
<1>1. ASSUME NEW n \in 0..MaxNesting PROVE GoLeaves \subseteq GoUpTo[n]
  <2>1. CASE n = 0
    BY <2>1, GoLevels
  <2>2. CASE n # 0
    BY <2>2, GoAbove, EjsonAssumption
  <2> QED
    BY <2>1, <2>2
<1> QED
  BY <1>1, EjsonAssumption DEF GoValues

\* A recursive call on every part gives as many images.
LEMMA Mapped ==
  ASSUME NEW S, NEW T, NEW s \in Seq(S), NEW f, \A p \in S : f[p] \in T
  PROVE  /\ Each(f, s) \in Seq(T) /\ Len(Each(f, s)) = Len(s)
         /\ \A i \in 1..Len(s) : Each(f, s)[i] = f[s[i]]
BY DEF Each

\* Parts of one level make a list of the next.
LEMMA Listed ==
  ASSUME NEW n \in 1..MaxNesting, NEW g \in {"list", "set", "slice"}, NEW items \in Seq(GoUpTo[n - 1])
  PROVE  [g |-> g, items |-> items] \in GoUpTo[n]
<1>1. IsList([g |-> g, items |-> items], {"list", "set", "slice"}, GoUpTo[n - 1])
  BY DEF IsList
<1> QED
  BY <1>1, GoAbove

\* And a map, unless it looks like an extended value.
LEMMA MapOf ==
  ASSUME NEW n \in 1..MaxNesting, NEW items \in Seq(GoUpTo[n - 1]), NEW keys \in Shapes,
         Len(items) = Len(keys), ~Extension(Map(keys, items))
  PROVE  Map(keys, items) \in GoUpTo[n]
<1>1. IsMap(Map(keys, items), {"map", "table", "struct"}, GoUpTo[n - 1])
  BY DEF IsMap, Map
<1> QED
  BY <1>1, GoAbove

\* Texts of times and prefixes are strings.
LEMMA StringsKept ==
  /\ \A sec \in Int, ms \in 0..999 : String([as |-> "rfc3339", sec |-> sec, ms |-> ms]) \in Scalars
  /\ \A p \in Prefixes : String(PrefixText(p)) \in Scalars
<1>1. \A sec \in Int, ms \in 0..999 : [as |-> "rfc3339", sec |-> sec, ms |-> ms] \in Texts
  BY SMTT(30) DEF Texts
<1>2. \A p \in Prefixes : PrefixText(p) \in Texts
  BY DEF Texts, Prefixes, PrefixText
<1>3. \A u \in Texts : String(u) \in Scalars
  BY SMTT(30) DEF Scalars, String
<1>4. ASSUME NEW sec \in Int, NEW ms \in 0..999
      PROVE  String([as |-> "rfc3339", sec |-> sec, ms |-> ms]) \in Scalars
  BY <1>1, <1>3, ZenonT(30)
<1>5. ASSUME NEW p \in Prefixes PROVE String(PrefixText(p)) \in Scalars
  BY <1>2, <1>3
<1> QED
  BY <1>4, <1>5

\* A whole number without its fraction is a number.
LEMMA WholeRead == \A v \in Scalars : v.g = "whole" => [g |-> "int", n |-> v.n] \in Scalars
BY DEF Scalars

\* Only the word "date" is kept as the word "date".
LEMMA WordsKept ==
  /\ \A v \in GoValues : KeptNative[v] = Word("date") => v = Word("date")
  /\ \A v \in GoValues : Kept(TRUE)[v] = Word("date") => v = Word("date")
  /\ \A v \in GoValues : Returned[v] = Word("date") => v = Word("date")
<1>0. /\ \A keys, items : Map(keys, items) # Word("date") /\ List(items) # Word("date")
      /\ \A items : [g |-> "set", items |-> items] # Word("date")
  BY DEF Map, List, Word, String
<1>1. ASSUME NEW v \in GoValues
      PROVE  /\ v.g = "time" => WholeSeconds(v) # Word("date")
             /\ v.g = "stamp" => WholeSeconds(v.of) # Word("date")
             /\ v.g = "clock" => KeptClock(v) # Word("date")
  <2>1. v \in GoUpTo[MaxNesting] /\ MaxNesting \in 0..MaxNesting
    BY EjsonAssumption DEF GoValues
  <2>2. \A t \in Times : WholeSeconds(t).g = "time"
    BY DEF Times, WholeSeconds
  <2>3. \A t \in Clocks : KeptClock(t).g = "clock"
    BY DEF Clocks, KeptClock
  <2>4. Word("date").g = "string"
    BY DEF Word, String
  <2>5. /\ v.g = "time" => v \in Times
        /\ v.g = "stamp" => v.of \in Times
        /\ v.g = "clock" => v \in Clocks
    BY <2>1, GoShape, LeafOfKind DEF GoKinds
  <2> QED
    BY <2>2, <2>3, <2>4, <2>5
<1>2. ASSUME NEW v \in GoValues, KeptNative[v] = Word("date") PROVE v = Word("date")
  <2>1. KeptNativeOf(KeptNative, v) = Word("date")
    BY <1>2, KeptNativeDefined
  <2>2. [g |-> "int", n |-> v.n] # Word("date")
    BY DEF Word, String
  <2> QED
    BY <1>0, <1>1, <2>1, <2>2 DEF KeptNativeOf, Word, String, PrefixText
<1>3. ASSUME NEW v \in GoValues, Kept(TRUE)[v] = Word("date") PROVE v = Word("date")
  <2>1. KeptOf(Kept(TRUE), v, TRUE) = Word("date")
    BY <1>3, KeptDefined
  <2> QED
    BY <1>0, <1>1, <1>2, <2>1 DEF KeptOf
<1>4. ASSUME NEW v \in GoValues, Returned[v] = Word("date") PROVE v = Word("date")
  <2>1. ReturnedOf(Returned, v) = Word("date")
    BY <1>4, ReturnedDefined
  <2> QED
    BY <1>0, <1>1, <1>2, <2>1 DEF ReturnedOf
<1> QED
  BY <1>2, <1>3, <1>4

\* What is kept of a leaf is a leaf.
LEMMA KeptLeaves ==
  ASSUME NEW v \in GoLeaves
  PROVE  KeptNative[v] \in GoLeaves /\ Kept(TRUE)[v] \in GoLeaves /\ Returned[v] \in GoLeaves
<1>1. v \in GoValues /\ v.g \in GoKinds
  BY GoLeavesBelow, LeafKinds, EjsonAssumption
<1>2. ASSUME NEW t \in Times
      PROVE  /\ WholeSeconds(t) \in Times
             /\ String([as |-> "rfc3339", sec |-> t.sec, ms |-> t.ms]) \in Scalars
  <2>1. t.sec \in Int /\ t.ms \in 0..999
    BY DEF Times
  <2>2. WholeSeconds(t) \in Times
    BY DEF Times, WholeSeconds
  <2> QED
    BY <2>1, <2>2, StringsKept, ZenonT(30)
<1>3. v.g = "clock" => KeptClock(v) \in Clocks
  <2>1. 0 \in 0..59
    OBVIOUS
  <2> QED
    BY <2>1, LeafOfKind, ClockTexts
<1>4. v.g = "prefix" => String(PrefixText(v)) \in Scalars
  BY LeafOfKind, StringsKept
<1>5. v.g = "time" => WholeSeconds(v) \in GoLeaves
  BY <1>2, LeafOfKind DEF GoLeaves
<1>6. KeptNative[v] \in GoLeaves
  <2>1. v.g = "time" => String([as |-> "rfc3339", sec |-> v.sec, ms |-> v.ms]) \in GoLeaves
    BY <1>2, LeafOfKind DEF GoLeaves
  <2>2. v.g = "stamp" => WholeSeconds(v.of) \in GoLeaves
    BY <1>2, LeafOfKind DEF GoLeaves
  <2>3. /\ v.g = "clock" => KeptClock(v) \in GoLeaves
        /\ v.g = "prefix" => String(PrefixText(v)) \in GoLeaves
    BY <1>3, <1>4 DEF GoLeaves
  <2>4. v.g = "whole" => [g |-> "int", n |-> v.n] \in GoLeaves
    BY WholeRead, LeafOfKind DEF GoLeaves, ScalarKinds
  <2>5. KeptNativeOf(KeptNative, v) \in GoLeaves
    BY <1>1, <2>1, <2>2, <2>3, <2>4 DEF KeptNativeOf, GoKinds, ScalarKinds
  <2> QED
    BY <1>1, <2>5, KeptNativeDefined
<1>7. Kept(TRUE)[v] \in GoLeaves
  <2>1. KeptOf(Kept(TRUE), v, TRUE) \in GoLeaves
    BY <1>1, <1>5, <1>6 DEF KeptOf, GoKinds, ScalarKinds
  <2> QED
    BY <1>1, <2>1, KeptDefined
<1>8. Returned[v] \in GoLeaves
  <2>1. ReturnedOf(Returned, v) \in GoLeaves
    BY <1>1, <1>5, <1>6 DEF ReturnedOf, GoKinds, ScalarKinds
  <2> QED
    BY <1>1, <2>1, ReturnedDefined
<1> QED
  BY <1>6, <1>7, <1>8

\* What is kept of a list or map has the depth it had.
LEMMA KeptParts ==
  ASSUME NEW n \in 1..MaxNesting, NEW v \in GoUpTo[n], v.g \notin GoKinds, NEW f,
         \A p \in GoUpTo[n - 1] : f[p] \in GoUpTo[n - 1] /\ (f[p] = Word("date") => p = Word("date"))
  PROVE  /\ List(Each(f, v.items)) \in GoUpTo[n]
         /\ [g |-> "set", items |-> Each(f, v.items)] \in GoUpTo[n]
         /\ v.g \in {"map", "table", "struct"} => Map(v.keys, Each(f, v.items)) \in GoUpTo[n]
<1>1. v.items \in Seq(GoUpTo[n - 1])
  BY GoShape
<1>2. /\ Each(f, v.items) \in Seq(GoUpTo[n - 1]) /\ Len(Each(f, v.items)) = Len(v.items)
      /\ \A i \in 1..Len(v.items) : Each(f, v.items)[i] = f[v.items[i]]
  BY <1>1, Mapped
<1>3. List(Each(f, v.items)) \in GoUpTo[n] /\ [g |-> "set", items |-> Each(f, v.items)] \in GoUpTo[n]
  BY <1>2, Listed DEF List
<1>4. ASSUME v.g \in {"map", "table", "struct"} PROVE Map(v.keys, Each(f, v.items)) \in GoUpTo[n]
  <2>1. v.keys \in Shapes /\ Len(v.items) = Len(v.keys) /\ ~Extension(v)
    BY <1>4, GoShape DEF IsList, IsMap
  <2> DEFINE w == Map(v.keys, Each(f, v.items))
  <2>2. ~Extension(w)
    <3>1. CASE v.keys = <<"$type", "$value">>
      <4>1. Len(v.items) = 2 /\ v.items[1] \in GoUpTo[n - 1]
        BY <1>1, <2>1, <3>1
      <4>2. v.items[1] # Word("date")
        BY <2>1, <3>1 DEF Extension
      <4>3. Each(f, v.items)[1] # Word("date")
        BY <1>2, <4>1, <4>2
      <4> QED
        BY <3>1, <4>3 DEF Extension, Map
    <3>2. CASE v.keys # <<"$type", "$value">>
      BY <2>1, <3>2 DEF Extension, Map
    <3> QED
      BY <3>1, <3>2
  <2> QED
    BY <1>2, <2>1, <2>2, MapOf
<1> QED
  BY <1>3, <1>4

\* What is kept of a value has the depth it had.
LEMMA KeptLevels ==
  \A n \in 0..MaxNesting : \A v \in GoUpTo[n] :
    KeptNative[v] \in GoUpTo[n] /\ Kept(TRUE)[v] \in GoUpTo[n] /\ Returned[v] \in GoUpTo[n]
<1> DEFINE kt == Kept(TRUE)
           Stays == {n \in 0..MaxNesting : \A v \in GoUpTo[n] :
              KeptNative[v] \in GoUpTo[n] /\ kt[v] \in GoUpTo[n] /\ Returned[v] \in GoUpTo[n]}
<1>0. /\ \A v \in GoLeaves : KeptNative[v] \in GoLeaves /\ kt[v] \in GoLeaves /\ Returned[v] \in GoLeaves
      /\ \A v \in GoValues : kt[v] = KeptOf(kt, v, TRUE)
      /\ \A v \in GoValues : kt[v] = Word("date") => v = Word("date")
  BY KeptLeaves, KeptDefined, WordsKept
<1> HIDE DEF kt
<1>1. 0 \in Stays
  BY <1>0, GoLevels, EjsonAssumption
<1>2. ASSUME NEW k \in 0..(MaxNesting - 1), k \in Stays PROVE k + 1 \in Stays
  <2>1. SUFFICES ASSUME NEW n \in 1..MaxNesting, n = k + 1, NEW v \in GoUpTo[n]
                 PROVE  KeptNative[v] \in GoUpTo[n] /\ kt[v] \in GoUpTo[n] /\ Returned[v] \in GoUpTo[n]
    BY EjsonAssumption
  <2>2. n - 1 = k
    BY <2>1
  <2>3. CASE v.g \in GoKinds
    BY <1>0, <2>3, GoShape, GoLeavesBelow
  <2>4. CASE v.g \notin GoKinds
    <3>1. v \in GoValues /\ v.g \in {"list", "set", "slice", "map", "table", "struct"}
      BY <2>4, GoShape, GoLevels DEF IsList, IsMap
    <3>2. \A p \in GoUpTo[n - 1] : p \in GoValues
      BY GoLevels
    <3> DEFINE before(f) == \A p \in GoUpTo[n - 1] : f[p] \in GoUpTo[n - 1] /\ (f[p] = Word("date") => p = Word("date"))
               parts(f) ==
                 /\ List(Each(f, v.items)) \in GoUpTo[n]
                 /\ [g |-> "set", items |-> Each(f, v.items)] \in GoUpTo[n]
                 /\ v.g \in {"map", "table", "struct"} => Map(v.keys, Each(f, v.items)) \in GoUpTo[n]
    <3>3. before(KeptNative) /\ before(kt) /\ before(Returned)
      BY <1>0, <1>2, <2>2, <3>2, WordsKept
    <3>4. \A f : before(f) => parts(f)
      BY <2>4, KeptParts
    <3>5. parts(KeptNative) /\ parts(kt) /\ parts(Returned)
      <4> HIDE DEF before, parts
      <4> QED
        BY <3>3, <3>4
    <3>6. KeptNativeOf(KeptNative, v) \in GoUpTo[n]
      BY <3>1, <3>5 DEF KeptNativeOf
    <3>7. KeptNative[v] \in GoUpTo[n]
      BY <3>1, <3>6, KeptNativeDefined
    <3>8. KeptOf(kt, v, TRUE) \in GoUpTo[n]
      BY <3>1, <3>5, <3>7 DEF KeptOf
    <3>9. ReturnedOf(Returned, v) \in GoUpTo[n]
      BY <3>1, <3>5, <3>7 DEF ReturnedOf
    <3> QED
      BY <1>0, <3>1, <3>7, <3>8, <3>9, ReturnedDefined
  <2> QED
    BY <2>3, <2>4
<1>3. 0..MaxNesting \subseteq Stays
  <2> HIDE DEF Stays
  <2> QED
    BY <1>1, <1>2, UpToInduction, EjsonAssumption
<1> QED
  BY <1>3 DEF kt

-----------------------------------------------------------------------------
(* What is written is read as it was meant *)

\* Decoding the objects the encoders make.
LEMMA RevivedObjects ==
  ASSUME NEW f, NEW raw
  PROVE  /\ ReviveOf(f, Object("$date", raw)) = ReviveDate(raw)
         /\ ReviveOf(f, Object("$time", raw)) = ReviveTime(raw)
         /\ ReviveOf(f, Object("$set", raw)) = ReviveSet(f, raw)
         /\ ReviveOf(f, Object("$ipv4_interface", raw)) = RevivePrefix(raw)
         /\ ReviveOf(f, Object("$ipv6_interface", raw)) = RevivePrefix(raw)
         /\ ReviveOf(f, Map(<<"$type", "$value">>, <<Word("date"), raw>>)) = ReviveDay(raw)
<1>1. \A o : o.g = "map" => ReviveOf(f, o) = ReviveObject(f, o)
  BY DEF ReviveOf
<1>2. \A key : Object(key, raw).g = "map" /\ Object(key, raw).keys = <<key>> /\ Object(key, raw).items[1] = raw
  BY DEF Object, Map
<1>3. /\ ReviveObject(f, Object("$date", raw)) = ReviveDate(raw)
      /\ ReviveObject(f, Object("$time", raw)) = ReviveTime(raw)
      /\ ReviveObject(f, Object("$set", raw)) = ReviveSet(f, raw)
  BY <1>2 DEF ReviveObject, IsDate
<1>4. ASSUME NEW key \in {"$ipv4_interface", "$ipv6_interface"}
      PROVE  ReviveObject(f, Object(key, raw)) = RevivePrefix(raw)
  <2>1. <<key>> \notin {<<"$date">>, <<"$time">>, <<"$set">>}
    BY <1>4
  <2>2. <<key>> # <<"$type", "$value">>
    OBVIOUS
  <2>3. <<key>> \in {<<"$ipv4_interface">>, <<"$ipv6_interface">>}
    BY <1>4
  <2> QED
    BY <1>2, <2>1, <2>2, <2>3 DEF ReviveObject, IsDate
<1>5. ReviveObject(f, Map(<<"$type", "$value">>, <<Word("date"), raw>>)) = ReviveDay(raw)
  BY DEF ReviveObject, IsDate, Map
<1>6. Map(<<"$type", "$value">>, <<Word("date"), raw>>).g = "map"
  BY DEF Map
<1> QED
  BY <1>1, <1>2, <1>3, <1>4, <1>5, <1>6

\* A $date is an instant.
LEMMA InstantRead == \A f, n : ReviveOf(f, Object("$date", [g |-> "int", n |-> n])) = Instant(n)
<1>1. \A f, raw : ReviveOf(f, Object("$date", raw)) = ReviveDate(raw)
  BY RevivedObjects
<1>2. \A n : ReviveDate([g |-> "int", n |-> n]) = Instant(n)
  BY DEF ReviveDate
<1> QED
  BY <1>1, <1>2

\* The client's $date of a time has its whole seconds.
LEMMA SecondsRead ==
  ASSUME NEW t \in Times, NEW f
  PROVE  ReviveOf(f, DateTime(t)) = WholeSeconds(t)
<1> DEFINE u == WholeSeconds(t)
           n == t.sec * 1000
<1>1. u \in Times /\ u.sec = t.sec /\ u.ms = 0 /\ t.sec \in Int
  BY DEF Times, WholeSeconds
<1>2. DateTime(t) = Object("$date", [g |-> "int", n |-> n])
  BY DEF DateTime
<1> HIDE DEF u
<1>3. n \in Int /\ n = u.sec * 1000 + u.ms
  BY <1>1, SMT
<1> HIDE DEF n
<1>4. Instant(n) = u
  BY <1>1, <1>3, InstantOfTime
<1> QED
  BY <1>2, <1>4, InstantRead DEF u

\* The server's $date of a time has its milliseconds.
LEMMA MillisRead ==
  ASSUME NEW t \in Times, NEW f, NEW n, n = t.sec * 1000 + t.ms
  PROVE  ReviveOf(f, Object("$date", [g |-> "int", n |-> n])) = t
<1>1. t.sec \in Int /\ t.ms \in Int
  BY DEF Times
<1>2. n \in Int
  BY <1>1, SMT
<1> QED
  BY <1>2, InstantOfTime, InstantRead

\* A date is read back.
LEMMA DateRead ==
  ASSUME NEW d \in Dates, NEW f
  PROVE  ReviveOf(f, Date(d)) = d
<1>1. ReviveOf(f, Date(d)) = ReviveDay(String(DateString(d)))
  BY RevivedObjects DEF Date
<1>2. ReviveDay(String(DateString(d))) = ParseDate(DateString(d))
  BY DEF ReviveDay, String
<1> QED
  BY <1>1, <1>2, DateRoundTrip

\* A time of day is read back, from the client's document and the server's.
LEMMA ClockRead ==
  ASSUME NEW t \in Clocks, NEW f, NEW x \in 0..59
  PROVE  /\ ReviveOf(f, Time(t)) = KeptClock(t)
         /\ t.zoned => ReviveOf(f, Object("$time", String([TimeString(t) EXCEPT !.zone.s = x]))) = KeptClock(t)
<1>1. \A u : ReviveTime(String(u)) = ParseTime(u)
  BY DEF ReviveTime, String
<1>2. ParseTime(TimeString(t)) = KeptClock(t)
  <2>1. CASE t.zoned
    <3>1. [TimeString(t) EXCEPT !.zone.s = 0] = TimeString(t)
      BY <2>1 DEF TimeString
    <3>2. 0 \in 0..59
      OBVIOUS
    <3> QED
      BY <2>1, <3>1, <3>2, ClockTexts
  <2>2. CASE ~t.zoned
    BY <2>2, ClockTexts
  <2> QED
    BY <2>1, <2>2
<1>3. t.zoned => ParseTime([TimeString(t) EXCEPT !.zone.s = x]) = KeptClock(t)
  BY ClockTexts
<1>4. \A u : ReviveOf(f, Object("$time", String(u))) = ParseTime(u)
  BY <1>1, RevivedObjects
<1> QED
  BY <1>2, <1>3, <1>4 DEF Time

\* A prefix is read back.
LEMMA PrefixRead ==
  ASSUME NEW p \in Prefixes, NEW f
  PROVE  ReviveOf(f, Prefix(p)) = p
<1>1. RevivePrefix(String(PrefixText(p))) = p
  BY DEF Prefixes, RevivePrefix, String, PrefixText
<1> QED
  BY <1>1, RevivedObjects DEF Prefix

\* Strings and other scalars are left as they are.
LEMMA StringRead ==
  /\ \A f, u : ReviveOf(f, String(u)) = String(u)
  /\ \A f : \A v \in Scalars : ReviveOf(f, v) = v
<1>1. \A v \in Scalars : v.g \notin {"huge", "list", "map"}
  BY LeafKinds DEF ScalarKinds
<1> QED
  BY <1>1 DEF ReviveOf, String

\* All leaves are read as they were meant.
LEMMA LeavesRead ==
  ASSUME NEW v \in GoLeaves, NEW f
  PROVE  /\ ReviveOf(f, Native[v]) = KeptNative[v]
         /\ ReviveOf(f, Marshal[v]) = Returned[v]
         /\ ReviveOf(f, ServerDocument[v]) = Kept(TRUE)[v]
<1>0. v \in GoValues /\ v.g \in GoKinds
  BY GoLeavesBelow, LeafKinds, EjsonAssumption
<1>1. ReviveOf(f, NativeOf(Native, v)) = KeptNativeOf(KeptNative, v)
  <2>1. CASE v.g = "time"
    BY <2>1, StringRead DEF NativeOf, KeptNativeOf
  <2>2. CASE v.g = "prefix"
    BY <2>2, StringRead DEF NativeOf, KeptNativeOf
  <2>3. CASE v.g = "stamp"
    <3>1. ReviveOf(f, DateTime(v.of)) = WholeSeconds(v.of)
      <4>1. v.of \in Times
        BY <2>3, LeafOfKind
      <4> QED
        BY <4>1, SecondsRead
    <3> QED
      BY <2>3, <3>1 DEF NativeOf, KeptNativeOf
  <2>4. CASE v.g = "date"
    BY <2>4, LeafOfKind, DateRead DEF NativeOf, KeptNativeOf
  <2>5. CASE v.g = "clock"
    <3>1. 0 \in 0..59
      OBVIOUS
    <3> QED
      BY <2>5, <3>1, LeafOfKind, ClockRead DEF NativeOf, KeptNativeOf
  <2>6. CASE v.g = "whole"
    BY <2>6, LeafOfKind, WholeRead, StringRead DEF NativeOf, KeptNativeOf, ScalarKinds
  <2>7. CASE v.g \in ScalarKinds \ {"whole"}
    BY <2>7, LeafOfKind, StringRead DEF NativeOf, KeptNativeOf, ScalarKinds
  <2> QED
    BY <1>0, <2>1, <2>2, <2>3, <2>4, <2>5, <2>6, <2>7 DEF GoKinds
<1>2. ReviveOf(f, Native[v]) = KeptNative[v]
  BY <1>0, <1>1, NativeDefined, KeptNativeDefined
<1>3. ReviveOf(f, MarshalOf(Marshal, v)) = ReturnedOf(Returned, v)
  <2>1. CASE v.g = "time"
    <3>1. ReviveOf(f, DateTime(v)) = WholeSeconds(v)
      <4>1. v \in Times
        BY <2>1, LeafOfKind
      <4> QED
        BY <4>1, SecondsRead
    <3> QED
      BY <2>1, <3>1 DEF MarshalOf, ReturnedOf
  <2>2. CASE v.g = "prefix"
    BY <2>2, LeafOfKind, PrefixRead DEF MarshalOf, ReturnedOf
  <2>3. CASE v.g \notin {"time", "prefix"}
    <3>1. MarshalOf(Marshal, v) = Native[v]
      BY <1>0, <2>3 DEF MarshalOf, GoKinds, ScalarKinds
    <3>2. ReturnedOf(Returned, v) = KeptNative[v]
      BY <1>0, <2>3 DEF ReturnedOf, GoKinds, ScalarKinds
    <3> QED
      BY <1>2, <3>1, <3>2
  <2> QED
    BY <2>1, <2>2, <2>3
<1>4. ReviveOf(f, Marshal[v]) = Returned[v]
  BY <1>0, <1>3, MarshalDefined, ReturnedDefined
<1>5. ReviveOf(f, ServerDocumentOf(ServerDocument, v)) = KeptOf(Kept(TRUE), v, TRUE)
  <2>1. CASE v.g = "time"
    <3> DEFINE n == v.sec * 1000 + v.ms
    <3>1. ReviveOf(f, Object("$date", [g |-> "int", n |-> n])) = v
      <4> n = v.sec * 1000 + v.ms
        OBVIOUS
      <4> HIDE DEF n
      <4> QED
        BY <2>1, LeafOfKind, MillisRead
    <3> QED
      BY <2>1, <3>1 DEF ServerDocumentOf, KeptOf
  <2>2. CASE v.g = "clock" /\ v.zoned
    <3> DEFINE off == IF v.off < 0 THEN -v.off ELSE v.off
    <3>1. off % 60 \in 0..59
      <4>1. v.off \in Int
        BY <2>2, LeafOfKind, Limits DEF Clocks
      <4> QED
        BY <4>1
    <3>2. ReviveOf(f, Object("$time", String([TimeString(v) EXCEPT !.zone.s = off % 60]))) = KeptClock(v)
      <4> HIDE DEF off
      <4> QED
        BY <2>2, <3>1, LeafOfKind, ClockRead
    <3> QED
      BY <1>0, <2>2, <3>2, KeptNativeDefined DEF ServerDocumentOf, KeptOf, KeptNativeOf
  <2>4. CASE v.g = "whole"
    BY <2>4, LeafOfKind, StringRead DEF ServerDocumentOf, KeptOf, ScalarKinds
  <2>3. CASE v.g \notin {"time", "whole"} /\ ~(v.g = "clock" /\ v.zoned)
    <3>1. ServerDocumentOf(ServerDocument, v) = Marshal[v]
      BY <1>0, <2>3 DEF ServerDocumentOf, GoKinds, ScalarKinds
    <3>2. KeptOf(Kept(TRUE), v, TRUE) = ReturnedOf(Returned, v)
      BY <1>0, <2>3 DEF KeptOf, ReturnedOf, GoKinds, ScalarKinds
    <3>3. ReviveOf(f, Marshal[v]) = ReturnedOf(Returned, v)
      BY <1>0, <1>4, ReturnedDefined
    <3> QED
      BY <3>1, <3>2, <3>3
  <2> QED
    BY <2>1, <2>2, <2>3, <2>4
<1>6. ReviveOf(f, ServerDocument[v]) = Kept(TRUE)[v]
  BY <1>0, <1>5, ServerDocumentDefined, KeptDefined
<1> QED
  BY <1>2, <1>4, <1>6

\* The parts of a document are documents.
LEMMA DocumentItems ==
  ASSUME NEW doc \in Documents, doc.g \in {"list", "map"}
  PROVE  doc.items \in Seq(Documents)
<1>1. doc \in DocumentUpTo[MaxNesting] /\ MaxNesting \in 0..MaxNesting
  BY EjsonAssumption DEF Documents
<1>2. MaxNesting \in 1..MaxNesting /\ doc.items \in Seq(DocumentUpTo[MaxNesting - 1])
  BY <1>1, DocumentParts
<1>3. DocumentUpTo[MaxNesting - 1] \subseteq Documents
  BY <1>2, DocumentLevels
<1> QED
  BY <1>2, <1>3

\* No value is an error.
LEMMA GoNoError == \A v \in GoValues : v # Bad /\ v.g # "error"
<1>1. ASSUME NEW v \in GoValues PROVE v.g # "error"
  <2>1. v \in GoUpTo[MaxNesting] /\ MaxNesting \in 0..MaxNesting
    BY EjsonAssumption DEF GoValues
  <2> QED
    BY <2>1, GoShape DEF GoKinds, ScalarKinds, IsList, IsMap
<1> QED
  BY <1>1 DEF Bad

\* Only the word "date" is written as that word, so that no map of two keys turns
\* into a date.
LEMMA WordsWritten ==
  /\ \A v \in GoValues : Native[v] = Word("date") => v = Word("date")
  /\ \A v \in GoValues : Marshal[v] = Word("date") => v = Word("date")
  /\ \A v \in GoValues : ServerDocument[v] = Word("date") => v = Word("date")
<1>1. \A key, raw, u : Object(key, raw) # String(u)
  BY DEF Object, Map, String
<1>2. \A keys, items, u : Map(keys, items) # String(u) /\ List(items) # String(u)
  BY DEF Map, List, String
<1>3. ASSUME NEW v \in GoValues PROVE Native[v] = Word("date") => v = Word("date")
  <2>1. \A u : DateTime(u) # Word("date") /\ Date(u) # Word("date") /\ Time(u) # Word("date")
    BY <1>1, <1>2 DEF DateTime, Date, Time, Word
  <2>2. NativeOf(Native, v) = Word("date") => v = Word("date")
    <3>1. [g |-> "int", n |-> v.n] # Word("date")
      BY DEF Word, String
    <3> QED
      BY <1>1, <1>2, <2>1, <3>1 DEF NativeOf, Word, String, PrefixText
  <2> QED
    BY <2>2, NativeDefined
<1>4. ASSUME NEW v \in GoValues PROVE Marshal[v] = Word("date") => v = Word("date")
  <2>1. \A u : DateTime(u) # Word("date") /\ Prefix(u) # Word("date")
    BY <1>1 DEF DateTime, Prefix, Word
  <2>2. MarshalOf(Marshal, v) = Word("date") => v = Word("date")
    BY <1>1, <1>2, <1>3, <2>1 DEF MarshalOf, Word
  <2> QED
    BY <2>2, MarshalDefined
<1>5. ASSUME NEW v \in GoValues PROVE ServerDocument[v] = Word("date") => v = Word("date")
  <2>1. /\ \A key, raw : Object(key, raw) # Word("date")
        /\ \A keys, items : Map(keys, items) # Word("date") /\ List(items) # Word("date")
    BY <1>1, <1>2 DEF Word
  <2>2. ServerDocumentOf(ServerDocument, v) = Word("date") => v = Word("date")
    <3>1. CASE v.g = "time" \/ v.g = "set" \/ (v.g = "clock" /\ v.zoned)
      <4>1. \E key, raw : ServerDocumentOf(ServerDocument, v) = Object(key, raw)
        <5>1. CASE v.g = "time"
          BY <5>1 DEF ServerDocumentOf
        <5>2. CASE v.g = "set"
          BY <5>2 DEF ServerDocumentOf
        <5>3. CASE v.g = "clock" /\ v.zoned
          BY <5>3 DEF ServerDocumentOf
        <5> QED
          BY <3>1, <5>1, <5>2, <5>3
      <4> QED
        BY <2>1, <4>1
    <3>2. CASE v.g \in {"list", "slice"}
      BY <2>1, <3>2 DEF ServerDocumentOf
    <3>3. CASE v.g \in {"map", "table"}
      BY <2>1, <3>3 DEF ServerDocumentOf
    <3>4. CASE v.g = "whole"
      BY <3>4 DEF ServerDocumentOf
    <3>5. CASE v.g \notin {"time", "whole", "set", "list", "slice", "map", "table"} /\ ~(v.g = "clock" /\ v.zoned)
      <4>1. ServerDocumentOf(ServerDocument, v) = Marshal[v]
        BY <3>5 DEF ServerDocumentOf
      <4> QED
        BY <1>4, <4>1
    <3> QED
      BY <3>1, <3>2, <3>3, <3>4, <3>5
  <2> QED
    BY <2>2, ServerDocumentDefined
<1> QED
  BY <1>3, <1>4, <1>5

\* If every part is read as it was meant, all of them are, with no error.
LEMMA PartsRead ==
  ASSUME NEW S, NEW s \in Seq(S), NEW e, NEW k,
         \A p \in S : (e[p] \in Documents => Revive[e[p]] = k[p]) /\ k[p] # Bad,
         Each(e, s) \in Seq(Documents)
  PROVE  /\ Each(Revive, Each(e, s)) = Each(k, s)
         /\ \A i \in DOMAIN Each(k, s) : Each(k, s)[i] # Bad
<1>1. \A i \in DOMAIN s : s[i] \in S
  OBVIOUS
<1>2. \A i \in DOMAIN s : e[s[i]] \in Documents
  <2>1. DOMAIN Each(e, s) = DOMAIN s /\ \A i \in DOMAIN s : Each(e, s)[i] = e[s[i]]
    BY DEF Each
  <2>2. \A i \in DOMAIN Each(e, s) : Each(e, s)[i] \in Documents
    OBVIOUS
  <2> QED
    BY <2>1, <2>2
<1> QED
  BY <1>1, <1>2 DEF Each

\* A list, set or map of parts that are read as they were meant is read as it was
\* meant itself.
LEMMA NestedRead ==
  ASSUME NEW n \in 1..MaxNesting, NEW v \in GoUpTo[n], v.g \notin GoKinds, NEW e, NEW k,
         \A p \in GoUpTo[n - 1] : (e[p] \in Documents => Revive[e[p]] = k[p]) /\ k[p] # Bad,
         \A p \in GoUpTo[n - 1] : e[p] = Word("date") => p = Word("date")
  PROVE  LET list == List(Each(e, v.items))
             set == Object("$set", list)
             map == Map(v.keys, Each(e, v.items)) IN
         /\ list \in Documents => Revive[list] = List(Each(k, v.items))
         /\ set \in Documents => Revive[set] = [g |-> "set", items |-> Each(k, v.items)]
         /\ v.g \in {"map", "table", "struct"} /\ map \in Documents => Revive[map] = Map(v.keys, Each(k, v.items))
<1> DEFINE items == Each(e, v.items)
           kept == Each(k, v.items)
<1>1. v.items \in Seq(GoUpTo[n - 1])
  BY GoShape
<1>2. ASSUME items \in Seq(Documents)
      PROVE  Each(Revive, items) = kept /\ \A i \in DOMAIN kept : kept[i] # Bad
  BY <1>1, <1>2, PartsRead
<1>3. Len(items) = Len(v.items) /\ \A i \in 1..Len(v.items) : items[i] = e[v.items[i]]
  BY <1>1 DEF Each
<1> HIDE DEF items, kept
<1>4. ASSUME \A i \in DOMAIN kept : kept[i] # Bad
      PROVE  /\ Whole(List(kept)) = List(kept)
             /\ Whole([g |-> "set", items |-> kept]) = [g |-> "set", items |-> kept]
             /\ Whole(Map(v.keys, kept)) = Map(v.keys, kept)
  BY <1>4 DEF Whole, List, Map
<1>5. ASSUME List(items) \in Documents PROVE Revive[List(items)] = List(kept)
  <2>1. items \in Seq(Documents)
    BY <1>5, DocumentItems DEF List
  <2>2. ReviveOf(Revive, List(items)) = Whole(List(Each(Revive, items)))
    BY DEF ReviveOf, List
  <2> QED
    BY <1>2, <1>4, <1>5, <2>1, <2>2, ReviveDefined
<1>6. ASSUME Object("$set", List(items)) \in Documents
      PROVE  Revive[Object("$set", List(items))] = [g |-> "set", items |-> kept]
  <2>1. List(items) \in Documents
    <3>1. Object("$set", List(items)).g = "map" /\ Object("$set", List(items)).items = <<List(items)>>
      BY DEF Object, Map
    <3>2. <<List(items)>> \in Seq(Documents)
      BY <1>6, <3>1, DocumentItems
    <3>3. 1 \in DOMAIN <<List(items)>> /\ <<List(items)>>[1] = List(items)
      OBVIOUS
    <3> HIDE DEF items
    <3>4. \A s \in Seq(Documents) : \A i \in DOMAIN s : s[i] \in Documents
      OBVIOUS
    <3> QED
      BY <3>2, <3>3, <3>4
  <2>2. items \in Seq(Documents)
    BY <2>1, DocumentItems DEF List
  <2>3. ReviveOf(Revive, Object("$set", List(items))) = ReviveSet(Revive, List(items))
    BY RevivedObjects
  <2>4. ReviveSet(Revive, List(items)) = Whole([g |-> "set", items |-> Each(Revive, items)])
    BY DEF ReviveSet, List
  <2> QED
    BY <1>2, <1>4, <1>6, <2>2, <2>3, <2>4, ReviveDefined
<1>7. ASSUME v.g \in {"map", "table", "struct"}, Map(v.keys, items) \in Documents
      PROVE  Revive[Map(v.keys, items)] = Map(v.keys, kept)
  <2> DEFINE o == Map(v.keys, items)
  <2>1. o.g = "map" /\ o.keys = v.keys /\ o.items = items
    BY DEF Map
  <2>2. v.keys \in Shapes /\ Len(v.items) = Len(v.keys) /\ ~Extension(v)
    BY <1>7, GoShape DEF IsList, IsMap
  <2>3. items \in Seq(Documents)
    BY <1>7, <2>1, DocumentItems
  <2>4. ~IsDate(o)
    <3>1. SUFFICES ASSUME v.keys = <<"$type", "$value">> PROVE items[1] # Word("date")
      BY <2>1 DEF IsDate
    <3>2. Len(v.items) = 2
      BY <2>2, <3>1
    <3>3. v.items[1] \in GoUpTo[n - 1] /\ items[1] = e[v.items[1]]
      BY <1>1, <1>3, <3>2
    <3>4. v.items[1] # Word("date")
      BY <2>2, <3>1 DEF Extension
    <3> QED
      BY <3>3, <3>4
  <2>5. ReviveOf(Revive, o) = Whole(Map(v.keys, Each(Revive, items)))
    <3>1. v.keys \notin {<<"$date">>, <<"$time">>, <<"$set">>, <<"$ipv4_interface">>, <<"$ipv6_interface">>}
      BY <2>2 DEF Extension
    <3> HIDE DEF o
    <3>2. ReviveOf(Revive, o) = ReviveObject(Revive, o)
      BY <2>1 DEF ReviveOf
    <3>3. ReviveObject(Revive, o) = Whole(Map(v.keys, Each(Revive, items)))
      BY <2>1, <2>4, <3>1 DEF ReviveObject
    <3> QED
      BY <3>2, <3>3
  <2> QED
    BY <1>2, <1>4, <1>7, <2>3, <2>5, ReviveDefined
<1> QED
  BY <1>5, <1>6, <1>7 DEF items, kept

\* Every value that is written as a document is read from it: what encoding/json
\* has written, what this client has, and what the server has.
LEMMA ReadBack ==
  \A v \in GoValues :
    /\ Native[v] \in Documents => Revive[Native[v]] = KeptNative[v]
    /\ Marshal[v] \in Documents => Revive[Marshal[v]] = Returned[v]
    /\ ServerDocument[v] \in Documents => Revive[ServerDocument[v]] = Kept(TRUE)[v]
<1> DEFINE kt == Kept(TRUE)
           read(e, k, v) == e[v] \in Documents => Revive[e[v]] = k[v]
           all(v) == read(Native, KeptNative, v) /\ read(Marshal, Returned, v)
                     /\ read(ServerDocument, kt, v)
           Read == {n \in 0..MaxNesting : \A v \in GoUpTo[n] : all(v)}
<1>1. ASSUME NEW v \in GoLeaves PROVE all(v)
  BY LeavesRead, ReviveDefined
<1>2. 0 \in Read
  <2> HIDE DEF all
  <2> QED
    BY <1>1, GoLevels, EjsonAssumption
<1>3. ASSUME NEW j \in 0..(MaxNesting - 1), j \in Read PROVE j + 1 \in Read
  <2>1. SUFFICES ASSUME NEW n \in 1..MaxNesting, n = j + 1, NEW v \in GoUpTo[n] PROVE all(v)
    <3> HIDE DEF all
    <3> QED
      BY EjsonAssumption
  <2>2. CASE v.g \in GoKinds
    <3> HIDE DEF all
    <3> QED
      BY <1>1, <2>2, GoShape
  <2>3. CASE v.g \notin GoKinds
    <3> DEFINE list(e) == List(Each(e, v.items))
               set(e) == Object("$set", list(e))
               map(e) == Map(v.keys, Each(e, v.items))
               setOf(k) == [g |-> "set", items |-> Each(k, v.items)]
               parts(e, k) ==
                 /\ list(e) \in Documents => Revive[list(e)] = List(Each(k, v.items))
                 /\ set(e) \in Documents => Revive[set(e)] = setOf(k)
                 /\ v.g \in {"map", "table", "struct"} /\ map(e) \in Documents =>
                      Revive[map(e)] = Map(v.keys, Each(k, v.items))
               before(e, k) ==
                 /\ \A p \in GoUpTo[n - 1] : (e[p] \in Documents => Revive[e[p]] = k[p]) /\ k[p] # Bad
                 /\ \A p \in GoUpTo[n - 1] : e[p] = Word("date") => p = Word("date")
    <3>1. v \in GoValues /\ v.g \in {"list", "set", "slice", "map", "table", "struct"}
      BY <2>3, GoShape, GoLevels DEF IsList, IsMap
    <3>2. /\ GoUpTo[n - 1] \subseteq GoValues /\ n - 1 \in 0..MaxNesting
          /\ \A p \in GoUpTo[n - 1] : all(p)
      <4> HIDE DEF all
      <4> QED
        BY <1>3, <2>1, GoLevels, EjsonAssumption
    <3>4. \A p \in GoUpTo[n - 1] : KeptNative[p] # Bad /\ kt[p] # Bad /\ Returned[p] # Bad
      BY <3>2, KeptLevels, GoNoError
    <3>5. ASSUME NEW e, NEW k, before(e, k) PROVE parts(e, k)
      BY <2>3, <3>5, NestedRead
    <3>6. parts(Native, KeptNative)
      <4>1. before(Native, KeptNative)
        BY <3>2, <3>4, WordsWritten
      <4> HIDE DEF before, parts
      <4> QED
        BY <3>5, <4>1
    <3>7. parts(Marshal, Returned)
      <4>1. before(Marshal, Returned)
        BY <3>2, <3>4, WordsWritten
      <4> HIDE DEF before, parts
      <4> QED
        BY <3>5, <4>1
    <3>8. parts(ServerDocument, kt)
      <4>1. before(ServerDocument, kt)
        BY <3>2, <3>4, WordsWritten
      <4> HIDE DEF before, parts, kt
      <4> QED
        BY <3>5, <4>1
    <3>9. read(Native, KeptNative, v)
      <4>1. Native[v] = NativeOf(Native, v) /\ KeptNative[v] = KeptNativeOf(KeptNative, v)
        BY <3>1, NativeDefined, KeptNativeDefined
      <4>2. v.g = "set" => NativeOf(Native, v) = set(Native) /\ KeptNativeOf(KeptNative, v) = setOf(KeptNative)
        BY DEF NativeOf, KeptNativeOf
      <4>3. v.g \in {"list", "slice"} => NativeOf(Native, v) = list(Native)
              /\ KeptNativeOf(KeptNative, v) = List(Each(KeptNative, v.items))
        BY DEF NativeOf, KeptNativeOf
      <4>4. v.g \in {"map", "table", "struct"} => NativeOf(Native, v) = map(Native)
              /\ KeptNativeOf(KeptNative, v) = Map(v.keys, Each(KeptNative, v.items))
        BY DEF NativeOf, KeptNativeOf
      <4> HIDE DEF list, set, map, setOf
      <4> QED
        BY <3>1, <3>6, <4>1, <4>2, <4>3, <4>4
    <3>10. read(Marshal, Returned, v)
      <4>1. Marshal[v] = MarshalOf(Marshal, v) /\ Returned[v] = ReturnedOf(Returned, v)
        BY <3>1, MarshalDefined, ReturnedDefined
      <4>2. v.g = "set" => MarshalOf(Marshal, v) = set(Marshal) /\ ReturnedOf(Returned, v) = setOf(Returned)
        BY DEF MarshalOf, ReturnedOf
      <4>3. v.g = "list" => MarshalOf(Marshal, v) = list(Marshal)
              /\ ReturnedOf(Returned, v) = List(Each(Returned, v.items))
        BY DEF MarshalOf, ReturnedOf
      <4>4. v.g = "map" => MarshalOf(Marshal, v) = map(Marshal)
              /\ ReturnedOf(Returned, v) = Map(v.keys, Each(Returned, v.items))
        BY DEF MarshalOf, ReturnedOf
      <4>5. v.g \in {"slice", "table", "struct"} => MarshalOf(Marshal, v) = Native[v]
              /\ ReturnedOf(Returned, v) = KeptNative[v]
        BY DEF MarshalOf, ReturnedOf
      <4> HIDE DEF list, set, map, setOf
      <4> QED
        BY <3>1, <3>7, <3>9, <4>1, <4>2, <4>3, <4>4, <4>5
    <3>11. read(ServerDocument, kt, v)
      <4>1. /\ ServerDocument[v] = ServerDocumentOf(ServerDocument, v) /\ kt[v] = KeptOf(kt, v, TRUE)
            /\ Marshal[v] = MarshalOf(Marshal, v)
        BY <3>1, MarshalDefined, ServerDocumentDefined, KeptDefined
      <4> HIDE DEF kt
      <4>2. v.g = "set" => ServerDocumentOf(ServerDocument, v) = set(ServerDocument)
              /\ KeptOf(kt, v, TRUE) = setOf(kt)
        BY DEF ServerDocumentOf, KeptOf
      <4>3. v.g \in {"list", "slice"} => ServerDocumentOf(ServerDocument, v) = list(ServerDocument)
              /\ KeptOf(kt, v, TRUE) = List(Each(kt, v.items))
        BY DEF ServerDocumentOf, KeptOf
      <4>4. v.g \in {"map", "table"} => ServerDocumentOf(ServerDocument, v) = map(ServerDocument)
              /\ KeptOf(kt, v, TRUE) = Map(v.keys, Each(kt, v.items))
        BY DEF ServerDocumentOf, KeptOf
      <4>5. v.g = "struct" => ServerDocumentOf(ServerDocument, v) = Native[v]
              /\ KeptOf(kt, v, TRUE) = KeptNative[v]
        BY <4>1 DEF ServerDocumentOf, MarshalOf, KeptOf
      <4> HIDE DEF list, set, map, setOf
      <4> QED
        BY <3>1, <3>8, <3>9, <4>1, <4>2, <4>3, <4>4, <4>5
    <3> QED
      BY <3>9, <3>10, <3>11
  <2> QED
    BY <2>2, <2>3
<1>4. 0..MaxNesting \subseteq Read
  <2> HIDE DEF Read
  <2> QED
    BY <1>2, <1>3, UpToInduction, EjsonAssumption
<1>5. \A v \in GoValues : all(v)
  <2> HIDE DEF all
  <2>1. MaxNesting \in Read
    BY <1>4, EjsonAssumption
  <2> QED
    BY <2>1 DEF GoValues
<1> QED
  BY <1>5

\* Lists, sets and maps of images are the same if and only if every part has the
\* same image.
LEMMA EachTold ==
  ASSUME NEW S, NEW s \in Seq(S), NEW f, NEW h
  PROVE  /\ List(Each(f, s)) = List(Each(h, s)) <=> \A i \in DOMAIN s : f[s[i]] = h[s[i]]
         /\ [g |-> "set", items |-> Each(f, s)] = [g |-> "set", items |-> Each(h, s)]
              <=> \A i \in DOMAIN s : f[s[i]] = h[s[i]]
         /\ \A keys : Map(keys, Each(f, s)) = Map(keys, Each(h, s)) <=> \A i \in DOMAIN s : f[s[i]] = h[s[i]]
<1> DEFINE a == Each(f, s)
           b == Each(h, s)
           same == \A i \in DOMAIN s : f[s[i]] = h[s[i]]
<1>1. a = b <=> same
  <2>1. /\ DOMAIN a = DOMAIN s /\ DOMAIN b = DOMAIN s
        /\ \A i \in DOMAIN s : a[i] = f[s[i]] /\ b[i] = h[s[i]]
    BY DEF Each
  <2>2. same => a = b
    BY DEF Each
  <2> HIDE DEF a, b
  <2>3. a = b => same
    BY <2>1
  <2> QED
    BY <2>2, <2>3
<1> HIDE DEF a, b, same
<1>2. /\ List(a) = List(b) <=> a = b
      /\ [g |-> "set", items |-> a] = [g |-> "set", items |-> b] <=> a = b
      /\ \A keys : Map(keys, a) = Map(keys, b) <=> a = b
  <2>1. List(a).items = a /\ List(b).items = b
    BY DEF List
  <2>2. [g |-> "set", items |-> a].items = a /\ [g |-> "set", items |-> b].items = b
    OBVIOUS
  <2>3. \A keys : Map(keys, a).items = a /\ Map(keys, b).items = b
    BY DEF Map
  <2> QED
    BY <2>1, <2>2, <2>3
<1> QED
  BY <1>1, <1>2 DEF a, b, same

\* What encoding/json makes of a value is not what Marshal promises of it if and
\* only if the value holds a time or prefix outside a struct.
LEMMA BareTold == \A v \in GoValues : Bare[v] <=> KeptNative[v] # Kept(FALSE)[v]
<1> DEFINE kf == Kept(FALSE)
           told(v) == Bare[v] <=> KeptNative[v] # kf[v]
           Told == {n \in 0..MaxNesting : \A v \in GoUpTo[n] : told(v)}
<1>0. \A v \in GoValues : /\ Bare[v] <=> BareOf(Bare, v)
                          /\ KeptNative[v] = KeptNativeOf(KeptNative, v) /\ kf[v] = KeptOf(kf, v, FALSE)
  BY BareDefined, KeptNativeDefined, KeptDefined
<1> HIDE DEF kf
<1>1. ASSUME NEW v \in GoLeaves PROVE told(v)
  <2>1. v \in GoValues /\ v.g \in GoKinds
    BY GoLeavesBelow, LeafKinds, EjsonAssumption
  <2>2. CASE v.g = "time"
    <3>1. WholeSeconds(v).g = "time"
      <4>1. v \in Times
        BY <2>2, LeafOfKind
      <4> QED
        BY <4>1 DEF Times, WholeSeconds
    <3>2. Bare[v]
      BY <1>0, <2>1, <2>2 DEF BareOf
    <3>3. kf[v].g = "time"
      BY <1>0, <2>1, <2>2, <3>1 DEF KeptOf
    <3>4. KeptNative[v].g = "string"
      <4>1. KeptNative[v] = String([as |-> "rfc3339", sec |-> v.sec, ms |-> v.ms])
        BY <1>0, <2>1, <2>2 DEF KeptNativeOf
      <4> QED
        BY <4>1 DEF String
    <3> QED
      BY <3>2, <3>3, <3>4
  <2>3. CASE v.g = "prefix"
    <3>1. Bare[v]
      BY <1>0, <2>1, <2>3 DEF BareOf
    <3>2. kf[v].g = "prefix"
      BY <1>0, <2>1, <2>3 DEF KeptOf
    <3>3. KeptNative[v].g = "string"
      <4>1. KeptNative[v] = String(PrefixText(v))
        BY <1>0, <2>1, <2>3 DEF KeptNativeOf
      <4> QED
        BY <4>1 DEF String
    <3> QED
      BY <3>1, <3>2, <3>3
  <2>4. CASE v.g \notin {"time", "prefix"}
    <3>1. ~Bare[v]
      BY <1>0, <2>1, <2>4 DEF BareOf, GoKinds, ScalarKinds
    <3>2. kf[v] = KeptNative[v]
      BY <1>0, <2>1, <2>4 DEF KeptOf, GoKinds, ScalarKinds
    <3> QED
      BY <3>1, <3>2
  <2> QED
    BY <2>2, <2>3, <2>4
<1>2. 0 \in Told
  <2> HIDE DEF told
  <2> QED
    BY <1>1, GoLevels, EjsonAssumption
<1>3. ASSUME NEW j \in 0..(MaxNesting - 1), j \in Told PROVE j + 1 \in Told
  <2>1. SUFFICES ASSUME NEW n \in 1..MaxNesting, n = j + 1, NEW v \in GoUpTo[n] PROVE told(v)
    <3> HIDE DEF told
    <3> QED
      BY EjsonAssumption
  <2>2. CASE v.g \in GoKinds
    <3> HIDE DEF told
    <3> QED
      BY <1>1, <2>2, GoShape
  <2>3. CASE v.g \notin GoKinds
    <3> DEFINE s == v.items
               same == \A i \in DOMAIN s : KeptNative[s[i]] = kf[s[i]]
    <3>1. v \in GoValues /\ v.g \in {"list", "set", "slice", "map", "table", "struct"}
      BY <2>3, GoShape, GoLevels DEF IsList, IsMap
    <3>2. s \in Seq(GoUpTo[n - 1]) /\ \A p \in GoUpTo[n - 1] : told(p)
      <4> HIDE DEF told
      <4> QED
        BY <1>3, <2>1, <2>3, GoShape, EjsonAssumption
    <3>3. (\E i \in DOMAIN s : Bare[s[i]]) <=> ~same
      <4>1. \A i \in DOMAIN s : s[i] \in GoUpTo[n - 1]
        BY <3>2
      <4> HIDE DEF s
      <4> QED
        BY <3>2, <4>1
    <3>4. /\ List(Each(KeptNative, s)) = List(Each(kf, s)) <=> same
          /\ [g |-> "set", items |-> Each(KeptNative, s)] = [g |-> "set", items |-> Each(kf, s)] <=> same
          /\ Map(v.keys, Each(KeptNative, s)) = Map(v.keys, Each(kf, s)) <=> same
      <4> HIDE DEF s
      <4> QED
        BY <3>2, EachTold
    <3>5. v.g # "struct" => (Bare[v] <=> ~same)
      BY <1>0, <3>1, <3>3 DEF BareOf
    <3> HIDE DEF same
    <3>6. CASE v.g \in {"list", "slice"}
      <4>1. KeptNative[v] = List(Each(KeptNative, s)) /\ kf[v] = List(Each(kf, s))
        BY <1>0, <3>1, <3>6 DEF KeptNativeOf, KeptOf
      <4> QED
        BY <3>4, <3>5, <3>6, <4>1
    <3>7. CASE v.g = "set"
      <4>1. /\ KeptNative[v] = [g |-> "set", items |-> Each(KeptNative, s)]
            /\ kf[v] = [g |-> "set", items |-> Each(kf, s)]
        BY <1>0, <3>1, <3>7 DEF KeptNativeOf, KeptOf
      <4> QED
        BY <3>4, <3>5, <3>7, <4>1
    <3>8. CASE v.g \in {"map", "table"}
      <4>1. KeptNative[v] = Map(v.keys, Each(KeptNative, s)) /\ kf[v] = Map(v.keys, Each(kf, s))
        BY <1>0, <3>1, <3>8 DEF KeptNativeOf, KeptOf
      <4> QED
        BY <3>4, <3>5, <3>8, <4>1
    <3>9. CASE v.g = "struct"
      <4>1. ~Bare[v] /\ kf[v] = KeptNative[v]
        BY <1>0, <3>1, <3>9 DEF BareOf, KeptOf
      <4> QED
        BY <4>1
    <3> QED
      BY <3>1, <3>6, <3>7, <3>8, <3>9
  <2> QED
    BY <2>2, <2>3
<1>4. 0..MaxNesting \subseteq Told
  <2> HIDE DEF Told
  <2> QED
    BY <1>2, <1>3, UpToInduction, EjsonAssumption
<1>5. \A v \in GoValues : told(v)
  <2> HIDE DEF told
  <2>1. MaxNesting \in Told
    BY <1>4, EjsonAssumption
  <2> QED
    BY <2>1 DEF GoValues
<1> QED
  BY <1>5 DEF kf

\* The client reads of its own document what Marshal promises if and only if
\* transform has reached all there was to convert.
LEMMA ReachedTold == \A v \in GoValues : Reaches[v] <=> Returned[v] = Kept(FALSE)[v]
<1> DEFINE kf == Kept(FALSE)
           told(v) == Reaches[v] <=> Returned[v] = kf[v]
           Told == {n \in 0..MaxNesting : \A v \in GoUpTo[n] : told(v)}
<1>0. \A v \in GoValues : /\ Reaches[v] <=> ReachesOf(Reaches, v)
                          /\ Returned[v] = ReturnedOf(Returned, v) /\ kf[v] = KeptOf(kf, v, FALSE)
  <2>1. \A v \in GoValues : ReachesOf(Reaches, v) \in BOOLEAN
    BY DEF ReachesOf
  <2> QED
    BY <2>1, ReachesDefined, ReturnedDefined, KeptDefined
<1>6. \A v \in GoValues : Bare[v] <=> KeptNative[v] # kf[v]
  BY BareTold
<1> HIDE DEF kf
<1>1. ASSUME NEW v \in GoLeaves PROVE told(v)
  <2>1. v \in GoValues /\ v.g \in GoKinds
    BY GoLeavesBelow, LeafKinds, EjsonAssumption
  <2>2. Reaches[v]
    BY <1>0, <2>1 DEF ReachesOf, GoKinds, ScalarKinds
  <2>3. Returned[v] = kf[v]
    BY <1>0, <2>1 DEF ReturnedOf, KeptOf, GoKinds, ScalarKinds
  <2> QED
    BY <2>2, <2>3
<1>2. 0 \in Told
  <2> HIDE DEF told
  <2> QED
    BY <1>1, GoLevels, EjsonAssumption
<1>3. ASSUME NEW j \in 0..(MaxNesting - 1), j \in Told PROVE j + 1 \in Told
  <2>1. SUFFICES ASSUME NEW n \in 1..MaxNesting, n = j + 1, NEW v \in GoUpTo[n] PROVE told(v)
    <3> HIDE DEF told
    <3> QED
      BY EjsonAssumption
  <2>2. CASE v.g \in GoKinds
    <3> HIDE DEF told
    <3> QED
      BY <1>1, <2>2, GoShape
  <2>3. CASE v.g \notin GoKinds
    <3> DEFINE s == v.items
               same == \A i \in DOMAIN s : Returned[s[i]] = kf[s[i]]
    <3>1. v \in GoValues /\ v.g \in {"list", "set", "slice", "map", "table", "struct"}
      BY <2>3, GoShape, GoLevels DEF IsList, IsMap
    <3>2. s \in Seq(GoUpTo[n - 1]) /\ \A p \in GoUpTo[n - 1] : told(p)
      <4> HIDE DEF told
      <4> QED
        BY <1>3, <2>1, <2>3, GoShape, EjsonAssumption
    <3>3. (\A i \in DOMAIN s : Reaches[s[i]]) <=> same
      <4>1. \A i \in DOMAIN s : s[i] \in GoUpTo[n - 1]
        BY <3>2
      <4> HIDE DEF s
      <4> QED
        BY <3>2, <4>1
    <3>4. /\ List(Each(Returned, s)) = List(Each(kf, s)) <=> same
          /\ [g |-> "set", items |-> Each(Returned, s)] = [g |-> "set", items |-> Each(kf, s)] <=> same
          /\ Map(v.keys, Each(Returned, s)) = Map(v.keys, Each(kf, s)) <=> same
      <4> HIDE DEF s
      <4> QED
        BY <3>2, EachTold
    <3>5. v.g \in {"list", "set", "map"} => (Reaches[v] <=> same)
      BY <1>0, <3>1, <3>3 DEF ReachesOf
    <3> HIDE DEF same
    <3>6. CASE v.g = "list"
      <4>1. Returned[v] = List(Each(Returned, s)) /\ kf[v] = List(Each(kf, s))
        BY <1>0, <3>1, <3>6 DEF ReturnedOf, KeptOf
      <4> QED
        BY <3>4, <3>5, <3>6, <4>1
    <3>7. CASE v.g = "set"
      <4>1. /\ Returned[v] = [g |-> "set", items |-> Each(Returned, s)]
            /\ kf[v] = [g |-> "set", items |-> Each(kf, s)]
        BY <1>0, <3>1, <3>7 DEF ReturnedOf, KeptOf
      <4> QED
        BY <3>4, <3>5, <3>7, <4>1
    <3>8. CASE v.g = "map"
      <4>1. Returned[v] = Map(v.keys, Each(Returned, s)) /\ kf[v] = Map(v.keys, Each(kf, s))
        BY <1>0, <3>1, <3>8 DEF ReturnedOf, KeptOf
      <4> QED
        BY <3>4, <3>5, <3>8, <4>1
    <3>9. CASE v.g \in {"slice", "table"}
      <4>1. (Reaches[v] <=> ~Bare[v]) /\ Returned[v] = KeptNative[v]
        BY <1>0, <3>1, <3>9 DEF ReachesOf, ReturnedOf
      <4> QED
        BY <1>6, <3>1, <4>1
    <3>10. CASE v.g = "struct"
      <4>1. Reaches[v] /\ kf[v] = KeptNative[v] /\ Returned[v] = KeptNative[v]
        BY <1>0, <3>1, <3>10 DEF ReachesOf, ReturnedOf, KeptOf
      <4> QED
        BY <4>1
    <3> QED
      BY <3>1, <3>6, <3>7, <3>8, <3>9, <3>10
  <2> QED
    BY <2>2, <2>3
<1>4. 0..MaxNesting \subseteq Told
  <2> HIDE DEF Told
  <2> QED
    BY <1>2, <1>3, UpToInduction, EjsonAssumption
<1>5. \A v \in GoValues : told(v)
  <2> HIDE DEF told
  <2>1. MaxNesting \in Told
    BY <1>4, EjsonAssumption
  <2> QED
    BY <2>1 DEF GoValues
<1> QED
  BY <1>5 DEF kf

\* Every value that is written as a document is read from it: what the server has
\* sent as it was meant; what this client has sent as Marshal promises, if and only
\* if no time or prefix is in a typed slice or map.
THEOREM RoundTrip ==
  \A v \in GoValues :
    /\ Marshal[v] \in Documents => (Revive[Marshal[v]] = Kept(FALSE)[v] <=> Reaches[v])
    /\ ServerDocument[v] \in Documents => Revive[ServerDocument[v]] = Kept(TRUE)[v]
BY ReadBack, ReachedTold

-----------------------------------------------------------------------------
(* Shallow values are written as documents *)

\* Documents of one level make lists and maps of the next.
LEMMA DocumentBuilt ==
  ASSUME NEW n \in 1..MaxNesting, NEW items \in Seq(DocumentUpTo[n - 1])
  PROVE  /\ List(items) \in DocumentUpTo[n]
         /\ \A keys \in Shapes : Len(items) = Len(keys) => Map(keys, items) \in DocumentUpTo[n]
<1>1. IsList(List(items), {"list"}, DocumentUpTo[n - 1])
  BY DEF IsList, List
<1>2. \A keys \in Shapes : Len(items) = Len(keys) => IsMap(Map(keys, items), {"map"}, DocumentUpTo[n - 1])
  BY DEF IsMap, Map
<1> QED
  BY <1>1, <1>2, DocumentAbove

\* The keys of extended values that have one.
ExtensionKeys == {"$date", "$time", "$set", "$ipv4_interface", "$ipv6_interface"}

\* Tuples of one or two elements are sequences.
LEMMA Tuples ==
  /\ \A S : \A x \in S : <<x>> \in Seq(S)
  /\ \A S : \A x, y \in S : <<x, y>> \in Seq(S)
  /\ \A x : Len(<<x>>) = 1
  /\ \A x, y : Len(<<x, y>>) = 2
OBVIOUS

\* A document under an extension's key is one level higher.
LEMMA ObjectBuilt ==
  ASSUME NEW n \in 1..MaxNesting, NEW raw \in DocumentUpTo[n - 1], NEW key \in ExtensionKeys
  PROVE  Object(key, raw) \in DocumentUpTo[n]
<1>1. <<raw>> \in Seq(DocumentUpTo[n - 1]) /\ Len(<<raw>>) = 1 /\ Len(<<key>>) = 1
  BY Tuples
<1>2. <<key>> \in Shapes
  BY ShapesAssumption DEF ExtensionKeys
<1> QED
  BY <1>1, <1>2, DocumentBuilt DEF Object

\* Numbers and texts are scalars.
LEMMA ScalarsWritten ==
  /\ \A n \in Int : [g |-> "int", n |-> n] \in Scalars
  /\ \A u \in Texts : String(u) \in Scalars
  /\ Word("date") \in Scalars
<1>1. \A n \in Int : [g |-> "int", n |-> n] \in Scalars
  BY DEF Scalars
<1>2. \A u \in Texts : String(u) \in Scalars
  BY SMTT(30) DEF Scalars, String
<1>3. \A a \in STRING : [as |-> "word", a |-> a] \in Texts
  BY SMTT(30) DEF Texts
<1>4. Word("date") \in Scalars
  <2>1. \A a \in STRING : Word(a) \in Scalars
    BY <1>2, <1>3 DEF Word
  <2> QED
    BY <2>1, StringAssumption
<1> QED
  BY <1>1, <1>2, <1>4

\* What the encoders write into strings is text.
LEMMA TextsWritten ==
  /\ \A d \in Dates : DateString(d) \in Texts
  /\ \A t \in Clocks : TimeString(t) \in Texts
  /\ \A p \in Prefixes : PrefixText(p) \in Texts
<1> DEFINE date(y, m, x) == [as |-> "date", y |-> y, m |-> m, d |-> x]
           Months == 1..12
           Days == 1..31
<1>1. \A y \in Years, m \in Months, x \in Days : date(y, m, x) \in Texts
  BY SMTT(30) DEF Texts, Years
<1> HIDE DEF date, Months, Days
<1>2. ASSUME NEW day \in Dates PROVE DateString(day) \in Texts
  <2>1. day.y \in Years /\ day.m \in Months
    BY DEF Dates, Months
  <2>4. day.d \in Days
    BY DEF Dates, Days
  <2> DEFINE y == day.y
             m == day.m
             x == day.d
  <2>2. DateString(day) = date(y, m, x)
    BY DEF DateString, date
  <2>3. y \in Years /\ m \in Months /\ x \in Days
    BY <2>1, <2>4
  <2> HIDE DEF y, m, x
  <2> QED
    BY <1>1, <2>2, <2>3
<1>3. ASSUME NEW t \in Clocks PROVE TimeString(t) \in Texts
  <2>1. 0 \in 0..59
    OBVIOUS
  <2>2. CASE t.zoned
    <3>1. [TimeString(t) EXCEPT !.zone.s = 0] = TimeString(t)
      BY <2>2 DEF TimeString
    <3> QED
      BY <2>1, <2>2, <3>1, ClockTexts
  <2>3. CASE ~t.zoned
    BY <2>1, <2>3, ClockTexts
  <2> QED
    BY <2>2, <2>3
<1>4. \A p \in Prefixes : PrefixText(p) \in Texts
  BY DEF Texts, Prefixes, PrefixText
<1> QED
  BY <1>2, <1>3, <1>4

\* Leaves are written as documents of one level.
LEMMA LeavesWritten ==
  ASSUME NEW v \in GoLeaves, 1 <= MaxNesting
  PROVE  /\ Native[v] \in DocumentUpTo[1] /\ Marshal[v] \in DocumentUpTo[1]
         /\ ServerDocument[v] \in DocumentUpTo[1]
<1>0. v \in GoValues /\ v.g \in GoKinds /\ 1 \in 1..MaxNesting
  BY GoLeavesBelow, LeafKinds, EjsonAssumption
<1>1. \A w \in Scalars : w \in DocumentUpTo[0] /\ w \in DocumentUpTo[1]
  BY <1>0, DocumentLevels
<1>2. \A w \in Scalars, key \in ExtensionKeys : Object(key, w) \in DocumentUpTo[1]
  <2>1. SUFFICES ASSUME NEW w \in Scalars, NEW key \in ExtensionKeys PROVE Object(key, w) \in DocumentUpTo[1]
    OBVIOUS
  <2>2. w \in DocumentUpTo[1 - 1]
    BY <1>1
  <2> QED
    BY <1>0, <2>2, ObjectBuilt
<1>13. \A n \in Int : Object("$date", [g |-> "int", n |-> n]) \in DocumentUpTo[1]
  BY <1>2, ScalarsWritten DEF ExtensionKeys
<1>3. ASSUME NEW t \in Times PROVE DateTime(t) \in DocumentUpTo[1]
  <2> DEFINE n == t.sec * 1000
  <2>1. n \in Int
    BY DEF Times
  <2>2. DateTime(t) = Object("$date", [g |-> "int", n |-> n])
    BY DEF DateTime
  <2> HIDE DEF n
  <2> QED
    BY <1>13, <2>1, <2>2
<1>4. ASSUME NEW t \in Clocks PROVE Time(t) \in DocumentUpTo[1]
  <2>1. String(TimeString(t)) \in Scalars
    BY ScalarsWritten, TextsWritten
  <2> QED
    BY <1>2, <2>1 DEF Time, ExtensionKeys
<1>5. ASSUME NEW p \in Prefixes PROVE Prefix(p) \in DocumentUpTo[1]
  <2>1. String(PrefixText(p)) \in Scalars
    BY ScalarsWritten, TextsWritten
  <2> QED
    BY <1>2, <2>1 DEF Prefix, ExtensionKeys
<1>6. \A d \in Dates : Date(d) \in DocumentUpTo[1]
  <2>1. SUFFICES ASSUME NEW d \in Dates PROVE Date(d) \in DocumentUpTo[1]
    OBVIOUS
  <2> DEFINE items == <<Word("date"), String(DateString(d))>>
             keys == <<"$type", "$value">>
  <2>2. Word("date") \in DocumentUpTo[1 - 1] /\ String(DateString(d)) \in DocumentUpTo[1 - 1]
    BY <1>1, ScalarsWritten, TextsWritten
  <2>3. items \in Seq(DocumentUpTo[1 - 1]) /\ Len(items) = 2 /\ Len(keys) = 2
    BY <2>2, Tuples
  <2>4. keys \in Shapes
    BY ShapesAssumption
  <2>5. Date(d) = Map(keys, items)
    BY DEF Date
  <2> HIDE DEF items, keys
  <2> QED
    BY <1>0, <2>3, <2>4, <2>5, DocumentBuilt
<1>7. NativeOf(Native, v) \in DocumentUpTo[1]
  <2>1. CASE v.g = "time"
    <3>1. v.sec \in Int /\ v.ms \in 0..999
      BY <2>1, LeafOfKind DEF Times
    <3>2. String([as |-> "rfc3339", sec |-> v.sec, ms |-> v.ms]) \in Scalars
      BY <3>1, StringsKept, ZenonT(30)
    <3> QED
      BY <1>1, <2>1, <3>2 DEF NativeOf
  <2>2. CASE v.g = "prefix"
    BY <1>1, <2>2, LeafOfKind, ScalarsWritten, TextsWritten DEF NativeOf
  <2>3. CASE v.g = "stamp"
    BY <1>3, <2>3, LeafOfKind DEF NativeOf
  <2>4. CASE v.g = "date"
    BY <1>6, <2>4, LeafOfKind DEF NativeOf
  <2>5. CASE v.g = "clock"
    BY <1>4, <2>5, LeafOfKind DEF NativeOf
  <2>6. CASE v.g = "whole"
    BY <1>1, <2>6, LeafOfKind, WholeRead DEF NativeOf, ScalarKinds
  <2>7. CASE v.g \in ScalarKinds \ {"whole"}
    BY <1>1, <2>7, LeafOfKind DEF NativeOf, ScalarKinds
  <2> QED
    BY <1>0, <2>1, <2>2, <2>3, <2>4, <2>5, <2>6, <2>7 DEF GoKinds
<1>8. Native[v] \in DocumentUpTo[1]
  BY <1>0, <1>7, NativeDefined
<1>9. MarshalOf(Marshal, v) \in DocumentUpTo[1]
  <2>1. CASE v.g = "time"
    BY <1>3, <2>1, LeafOfKind DEF MarshalOf
  <2>2. CASE v.g = "prefix"
    BY <1>5, <2>2, LeafOfKind DEF MarshalOf
  <2>3. CASE v.g \notin {"time", "prefix"}
    BY <1>0, <1>8, <2>3 DEF MarshalOf, GoKinds, ScalarKinds
  <2> QED
    BY <2>1, <2>2, <2>3
<1>10. Marshal[v] \in DocumentUpTo[1]
  BY <1>0, <1>9, MarshalDefined
<1>11. ServerDocumentOf(ServerDocument, v) \in DocumentUpTo[1]
  <2>1. CASE v.g = "time"
    <3> DEFINE n == v.sec * 1000 + v.ms
    <3>1. n \in Int
      <4>1. v.sec \in Int /\ v.ms \in Int
        BY <2>1, LeafOfKind DEF Times
      <4> QED
        BY <4>1
    <3>2. ServerDocumentOf(ServerDocument, v) = Object("$date", [g |-> "int", n |-> n])
      BY <2>1 DEF ServerDocumentOf
    <3> HIDE DEF n
    <3> QED
      BY <1>13, <3>1, <3>2
  <2>2. CASE v.g = "clock" /\ v.zoned
    <3> DEFINE off == IF v.off < 0 THEN -v.off ELSE v.off
               x == off % 60
    <3>1. ServerDocumentOf(ServerDocument, v) = Object("$time", String([TimeString(v) EXCEPT !.zone.s = x]))
      BY <2>2 DEF ServerDocumentOf
    <3>2. v \in Clocks
      BY <2>2, LeafOfKind
    <3>3. x \in 0..59
      <4>1. v.off \in Int
        BY <3>2 DEF Clocks
      <4> QED
        BY <4>1
    <3> HIDE DEF x
    <3>4. String([TimeString(v) EXCEPT !.zone.s = x]) \in Scalars
      <4>1. [TimeString(v) EXCEPT !.zone.s = x] \in Texts
        BY <2>2, <3>2, <3>3, ClockTexts
      <4> QED
        BY <4>1, ScalarsWritten
    <3> QED
      BY <1>2, <3>1, <3>4 DEF ExtensionKeys
  <2>4. CASE v.g = "whole"
    BY <1>1, <2>4, LeafOfKind DEF ServerDocumentOf, ScalarKinds
  <2>3. CASE v.g \notin {"time", "whole"} /\ ~(v.g = "clock" /\ v.zoned)
    BY <1>0, <1>10, <2>3 DEF ServerDocumentOf, GoKinds, ScalarKinds
  <2> QED
    BY <2>1, <2>2, <2>3, <2>4
<1>12. ServerDocument[v] \in DocumentUpTo[1]
  BY <1>0, <1>11, ServerDocumentDefined
<1> QED
  BY <1>8, <1>10, <1>12

\* Lists, sets and maps are written at most two levels higher than their parts.
LEMMA PartsWritten ==
  ASSUME NEW n \in 1..MaxNesting, NEW v \in GoUpTo[n], v.g \notin GoKinds, NEW e,
         NEW k \in Nat, NEW l \in Nat, l = k + 2, l <= MaxNesting,
         \A p \in GoUpTo[n - 1] : e[p] \in DocumentUpTo[k]
  PROVE  /\ List(Each(e, v.items)) \in DocumentUpTo[l]
         /\ Object("$set", List(Each(e, v.items))) \in DocumentUpTo[l]
         /\ v.g \in {"map", "table", "struct"} => Map(v.keys, Each(e, v.items)) \in DocumentUpTo[l]
<1> DEFINE m == k + 1
           items == Each(e, v.items)
<1>1. m \in 1..MaxNesting /\ m - 1 = k /\ l \in 1..MaxNesting /\ l - 1 = m
  BY EjsonAssumption
<1> HIDE DEF m
<1>2. v.items \in Seq(GoUpTo[n - 1])
  BY GoShape
<1>3. items \in Seq(DocumentUpTo[k]) /\ Len(items) = Len(v.items)
  <2> DEFINE S == GoUpTo[n - 1]
             T == DocumentUpTo[k]
             s == v.items
  <2>1. s \in Seq(S) /\ \A p \in S : e[p] \in T
    BY <1>2
  <2> HIDE DEF S, T, s
  <2>2. Each(e, s) \in Seq(T) /\ Len(Each(e, s)) = Len(s)
    BY <2>1, Mapped
  <2> QED
    BY <2>2 DEF T, s
<1> HIDE DEF items
<1>4. items \in Seq(DocumentUpTo[m - 1])
  BY <1>1, <1>3
<1>5. List(items) \in DocumentUpTo[m] /\ \A keys \in Shapes : Len(items) = Len(keys) => Map(keys, items) \in DocumentUpTo[m]
  BY <1>1, <1>4, DocumentBuilt
<1>6. DocumentUpTo[m] \subseteq DocumentUpTo[l]
  BY <1>1, DocumentLevels
<1>7. Object("$set", List(items)) \in DocumentUpTo[l]
  <2>1. List(items) \in DocumentUpTo[l - 1]
    BY <1>1, <1>5
  <2> QED
    BY <1>1, <2>1, ObjectBuilt DEF ExtensionKeys
<1>8. v.g \in {"map", "table", "struct"} => v.keys \in Shapes /\ Len(v.items) = Len(v.keys)
  BY GoShape DEF IsList, IsMap
<1> QED
  BY <1>3, <1>5, <1>6, <1>7, <1>8 DEF items

\* All values nested n deep are written as documents nested k deep.
Written(n, k) ==
  \A v \in GoUpTo[n] : /\ Native[v] \in DocumentUpTo[k] /\ Marshal[v] \in DocumentUpTo[k]
                       /\ ServerDocument[v] \in DocumentUpTo[k]

\* Deeper levels have more documents.
LEMMA DocumentGrows ==
  ASSUME NEW n \in 0..MaxNesting
  PROVE  \A m \in 0..MaxNesting : n <= m => DocumentUpTo[n] \subseteq DocumentUpTo[m]
<1> DEFINE Above == {m \in 0..MaxNesting : n <= m => DocumentUpTo[n] \subseteq DocumentUpTo[m]}
<1>1. 0 \in Above
  BY EjsonAssumption
<1>2. ASSUME NEW m \in 0..(MaxNesting - 1), m \in Above PROVE m + 1 \in Above
  <2> DEFINE l == m + 1
  <2>1. l \in 1..MaxNesting /\ l \in 0..MaxNesting /\ l - 1 = m /\ (n <= l => n <= m \/ n = l)
    BY EjsonAssumption
  <2> HIDE DEF l
  <2>2. DocumentUpTo[m] \subseteq DocumentUpTo[l]
    BY <2>1, DocumentLevels
  <2>3. l \in Above
    BY <1>2, <2>1, <2>2
  <2> QED
    BY <2>3 DEF l
<1>3. 0..MaxNesting \subseteq Above
  <2> HIDE DEF Above
  <2> QED
    BY <1>1, <1>2, UpToInduction, EjsonAssumption
<1> QED
  BY <1>3

\* Another level of values costs two levels of documents.
LEMMA WrittenStep ==
  ASSUME NEW n \in 1..MaxNesting, NEW j, j = n - 1, NEW k \in Nat, NEW l \in Nat, l = k + 2,
         l <= MaxNesting, Written(j, k)
  PROVE  Written(n, l)
<1>1. SUFFICES ASSUME NEW v \in GoUpTo[n]
               PROVE  /\ Native[v] \in DocumentUpTo[l] /\ Marshal[v] \in DocumentUpTo[l]
                      /\ ServerDocument[v] \in DocumentUpTo[l]
  BY DEF Written
<1>2. n \in 0..MaxNesting /\ v \in GoValues /\ l \in 1..MaxNesting /\ l \in 0..MaxNesting
  BY GoLevels, EjsonAssumption
<1>3. CASE v.g \in GoKinds
  <2>1. v \in GoLeaves
    BY <1>2, <1>3, GoShape
  <2>2. 1 \in 0..MaxNesting /\ 1 <= l /\ 1 <= MaxNesting
    BY <1>2, EjsonAssumption
  <2>3. DocumentUpTo[1] \subseteq DocumentUpTo[l]
    BY <1>2, <2>2, DocumentGrows
  <2> QED
    BY <2>1, <2>2, <2>3, LeavesWritten
<1>4. CASE v.g \notin GoKinds
  <2> DEFINE list(e) == List(Each(e, v.items))
             map(e) == Map(v.keys, Each(e, v.items))
             all(e) == /\ list(e) \in DocumentUpTo[l] /\ Object("$set", list(e)) \in DocumentUpTo[l]
                       /\ v.g \in {"map", "table", "struct"} => map(e) \in DocumentUpTo[l]
  <2>0. v.g \in {"list", "set", "slice", "map", "table", "struct"}
    BY <1>2, <1>4, GoShape DEF IsList, IsMap
  <2>1. \A p \in GoUpTo[n - 1] : /\ Native[p] \in DocumentUpTo[k] /\ Marshal[p] \in DocumentUpTo[k]
                                 /\ ServerDocument[p] \in DocumentUpTo[k]
    BY DEF Written
  <2>2. all(Native)
    BY <1>4, <2>1, PartsWritten
  <2>3. all(Marshal)
    BY <1>4, <2>1, PartsWritten
  <2>4. all(ServerDocument)
    BY <1>4, <2>1, PartsWritten
  <2>5. Native[v] \in DocumentUpTo[l]
    <3>1. NativeOf(Native, v) \in DocumentUpTo[l]
      BY <2>0, <2>2 DEF NativeOf
    <3> QED
      BY <1>2, <3>1, NativeDefined
  <2>6. Marshal[v] \in DocumentUpTo[l]
    <3>1. MarshalOf(Marshal, v) \in DocumentUpTo[l]
      BY <2>0, <2>3, <2>5 DEF MarshalOf
    <3> QED
      BY <1>2, <3>1, MarshalDefined
  <2>7. ServerDocument[v] \in DocumentUpTo[l]
    <3>1. ServerDocumentOf(ServerDocument, v) \in DocumentUpTo[l]
      BY <2>0, <2>4, <2>6 DEF ServerDocumentOf
    <3> QED
      BY <1>2, <3>1, ServerDocumentDefined
  <2> QED
    BY <2>5, <2>6, <2>7
<1> QED
  BY <1>3, <1>4

\* Values nested at most half as deep as a document may be are written as
\* documents.
THEOREM ShallowWritten == \A n \in Nat : 2 * n + 1 <= MaxNesting => Written(n, 2 * n + 1)
<1> DEFINE Has == {n \in Nat : 2 * n + 1 <= MaxNesting => Written(n, 2 * n + 1)}
<1>1. 0 \in Has
  <2>1. SUFFICES ASSUME 1 <= MaxNesting PROVE Written(0, 1)
    OBVIOUS
  <2> QED
    BY <2>1, LeavesWritten, GoLevels DEF Written
<1>2. ASSUME NEW j \in Nat, j \in Has PROVE j + 1 \in Has
  <2> DEFINE n == j + 1
             k == 2 * j + 1
             l == 2 * n + 1
  <2>1. SUFFICES ASSUME l <= MaxNesting PROVE Written(n, l)
    OBVIOUS
  <2>2. /\ n \in 1..MaxNesting /\ j = n - 1 /\ k \in Nat /\ l \in Nat /\ l = k + 2 /\ k <= MaxNesting
    BY <2>1, EjsonAssumption
  <2>3. Written(j, k)
    BY <1>2, <2>2
  <2> HIDE DEF n, k, l
  <2> QED
    BY <2>1, <2>2, <2>3, WrittenStep
<1>3. Nat \subseteq Has
  <2> HIDE DEF Has
  <2> QED
    BY <1>1, <1>2, SetInduction
<1> QED
  BY <1>3

\* They are decoded, never with an error: RoundTrip is about all of them.
THEOREM ShallowRead ==
  ASSUME NEW n \in Nat, 2 * n + 1 <= MaxNesting, NEW v \in GoUpTo[n]
  PROVE  /\ Unmarshal(Marshal[v], "") \in GoUpTo[n]
         /\ Unmarshal(Marshal[v], "") = Kept(FALSE)[v] <=> Reaches[v]
         /\ Unmarshal(ServerDocument[v], "") \in GoUpTo[n]
         /\ Unmarshal(ServerDocument[v], "") = Kept(TRUE)[v]
<1> DEFINE k == 2 * n + 1
<1>1. Written(n, k) /\ k \in 0..MaxNesting /\ n \in 0..MaxNesting
  BY ShallowWritten, EjsonAssumption
<1> HIDE DEF k
<1>2. v \in GoValues /\ Marshal[v] \in Documents /\ ServerDocument[v] \in Documents
  BY <1>1, GoLevels, DocumentLevels DEF Written
<1>3. Returned[v] \in GoUpTo[n] /\ Kept(TRUE)[v] \in GoUpTo[n]
  BY <1>1, KeptLevels
<1>4. Unmarshal(Marshal[v], "") = Revive[Marshal[v]] /\ Unmarshal(ServerDocument[v], "") = Revive[ServerDocument[v]]
  BY <1>2 DEF Unmarshal
<1>5. /\ Revive[Marshal[v]] = Returned[v] /\ (Revive[Marshal[v]] = Kept(FALSE)[v] <=> Reaches[v])
      /\ Revive[ServerDocument[v]] = Kept(TRUE)[v]
  BY <1>2, ReadBack, RoundTrip
<1> DEFINE kf == Kept(FALSE)[v]
           kt == Kept(TRUE)[v]
<1> HIDE DEF kf, kt
<1> QED
  BY <1>3, <1>4, <1>5 DEF kf, kt

-----------------------------------------------------------------------------
(* What is decoded can be sent on *)

\* Only the word "date" is decoded to that word.
LEMMA WordsRead == \A doc \in Documents : Revive[doc] = Word("date") => doc = Word("date")
<1>1. SUFFICES ASSUME NEW doc \in Documents, ReviveOf(Revive, doc) = Word("date") PROVE doc = Word("date")
  BY ReviveDefined
<1>2. Word("date").g = "string" /\ Bad # Word("date")
  BY DEF Word, String, Bad
<1>3. \A v : v.g # "string" => Whole(v) # Word("date")
  BY <1>2 DEF Whole
<1>4. \A s : List(s) .g = "list" /\ [g |-> "set", items |-> s].g = "set"
  BY DEF List
<1>5. \A keys, s : Map(keys, s).g = "map"
  BY DEF Map
<1>6. \A raw : /\ ReviveDate(raw) # Word("date") /\ ReviveTime(raw) # Word("date")
               /\ RevivePrefix(raw) # Word("date") /\ ReviveDay(raw) # Word("date")
  <2>1. \A n : Instant(n).g = "time"
    BY DEF Instant
  <2>2. \A u : ParseTime(u) = Bad \/ ParseTime(u).g = "clock"
    BY DEF ParseTime
  <2>3. \A u : ParseDate(u) = Bad \/ ParseDate(u).g = "date"
    BY DEF ParseDate
  <2>4. \A raw : RevivePrefix(raw) = Bad \/ RevivePrefix(raw).g = "prefix"
    BY DEF RevivePrefix
  <2> QED
    BY <1>2, <2>1, <2>2, <2>3, <2>4 DEF ReviveDate, ReviveTime, ReviveDay
<1>7. \A raw : ReviveSet(Revive, raw) # Word("date")
  BY <1>2, <1>3, <1>4 DEF ReviveSet
<1>8. doc.g = "map" => ReviveObject(Revive, doc) # Word("date")
  BY <1>3, <1>5, <1>6, <1>7 DEF ReviveObject
<1> QED
  BY <1>1, <1>2, <1>3, <1>4, <1>8 DEF ReviveOf

\* The texts and numbers of extended values are decoded to leaves or errors.
LEMMA LeavesRevived ==
  /\ \A v \in Scalars : v \in GoLeaves
  /\ \A doc \in Documents :
       /\ ReviveDate(doc) \in GoLeaves \cup {Bad} /\ ReviveTime(doc) \in GoLeaves \cup {Bad}
       /\ RevivePrefix(doc) \in GoLeaves \cup {Bad} /\ ReviveDay(doc) \in GoLeaves \cup {Bad}
<1>1. ASSUME NEW doc \in Documents
      PROVE  /\ doc.g = "int" => doc.n \in Int
             /\ doc.g = "string" => doc.text \in Texts
  <2>1. doc \in DocumentUpTo[MaxNesting]
    BY DEF Documents
  <2>2. doc \in Scalars \cup {[g |-> "huge"]} \/ doc.g \in {"list", "map"}
    <3>1. CASE MaxNesting = 0
      BY <2>1, <3>1, DocumentLevels
    <3>2. CASE MaxNesting # 0
      <4>1. MaxNesting \in 1..MaxNesting
        BY <3>2, EjsonAssumption
      <4> QED
        BY <2>1, <4>1, DocumentAbove DEF IsList, IsMap
    <3> QED
      BY <3>1, <3>2
  <2> QED
    BY <2>2 DEF Scalars
<1>2. ASSUME NEW doc \in Documents PROVE ReviveDate(doc) \in GoLeaves \cup {Bad}
  BY <1>1, InstantExact DEF ReviveDate, GoLeaves
<1>3. ASSUME NEW doc \in Documents PROVE ReviveTime(doc) \in GoLeaves \cup {Bad}
  BY <1>1, ParsedTime DEF ReviveTime, GoLeaves
<1>4. ASSUME NEW doc \in Documents PROVE RevivePrefix(doc) \in GoLeaves \cup {Bad}
  <2>1. \A u \in Texts : u.as = "prefix" => [g |-> "prefix", v4 |-> u.v4, net |-> u.net] \in Prefixes
    BY DEF Texts, Prefixes
  <2> QED
    BY <1>1, <2>1 DEF RevivePrefix, GoLeaves
<1>5. ASSUME NEW doc \in Documents PROVE ReviveDay(doc) \in GoLeaves \cup {Bad}
  BY ParsedDate DEF ReviveDay, GoLeaves
<1>6. \A v \in Scalars : v \in GoLeaves
  BY DEF GoLeaves
<1> QED
  BY <1>2, <1>3, <1>4, <1>5, <1>6

\* Lists, sets and maps of decoded parts are values of their level, or errors.
LEMMA RevivedParts ==
  ASSUME NEW n \in 1..MaxNesting, NEW s \in Seq(DocumentUpTo[n - 1]),
         \A p \in DocumentUpTo[n - 1] : Revive[p] \in GoUpTo[n - 1] \cup {Bad}
  PROVE  LET items == Each(Revive, s) IN
         /\ Whole(List(items)) \in GoUpTo[n] \cup {Bad}
         /\ Whole([g |-> "set", items |-> items]) \in GoUpTo[n] \cup {Bad}
         /\ \A keys \in Shapes :
              (/\ Len(s) = Len(keys)
               /\ keys \notin {<<"$date">>, <<"$time">>, <<"$set">>, <<"$ipv4_interface">>, <<"$ipv6_interface">>}
               /\ ~(keys = <<"$type", "$value">> /\ s[1] = Word("date")))
              => Whole(Map(keys, items)) \in GoUpTo[n] \cup {Bad}
<1> DEFINE items == Each(Revive, s)
<1>1. /\ Len(items) = Len(s) /\ \A i \in 1..Len(s) : items[i] = Revive[s[i]]
      /\ items \in Seq(GoUpTo[n - 1] \cup {Bad})
  BY Mapped, SMTT(30)
<1>2. \A i \in 1..Len(s) : s[i] \in Documents
  BY DocumentLevels, EjsonAssumption
<1> HIDE DEF items
<1>3. ASSUME ~ \E i \in DOMAIN items : items[i] = Bad PROVE items \in Seq(GoUpTo[n - 1])
  BY <1>1, <1>3
<1>4. \A keys : /\ List(items).items = items /\ [g |-> "set", items |-> items].items = items
                /\ Map(keys, items).items = items
  BY DEF List, Map
<1>5. CASE \E i \in DOMAIN items : items[i] = Bad
  <2>1. \A v : v.items = items => Whole(v) = Bad
    BY <1>5 DEF Whole
  <2> QED
    BY <1>4, <2>1 DEF items
<1>6. CASE ~ \E i \in DOMAIN items : items[i] = Bad
  <2>1. \A v : v.items = items => Whole(v) = v
    BY <1>6 DEF Whole
  <2>2. items \in Seq(GoUpTo[n - 1])
    BY <1>3, <1>6
  <2>3. List(items) \in GoUpTo[n] /\ [g |-> "set", items |-> items] \in GoUpTo[n]
    BY <2>2, Listed DEF List
  <2>4. ASSUME NEW keys \in Shapes, Len(s) = Len(keys),
               keys \notin {<<"$date">>, <<"$time">>, <<"$set">>, <<"$ipv4_interface">>, <<"$ipv6_interface">>},
               ~(keys = <<"$type", "$value">> /\ s[1] = Word("date"))
        PROVE  Map(keys, items) \in GoUpTo[n]
    <3>1. keys = <<"$type", "$value">> => items[1] # Word("date")
      <4>1. SUFFICES ASSUME keys = <<"$type", "$value">> PROVE items[1] # Word("date")
        OBVIOUS
      <4>2. 1 \in 1..Len(s)
        BY <2>4, <4>1
      <4> QED
        BY <1>1, <1>2, <2>4, <4>1, <4>2, WordsRead
    <3>2. ~Extension(Map(keys, items))
      BY <2>4, <3>1 DEF Extension, Map
    <3> QED
      BY <1>1, <2>2, <2>4, <3>2, MapOf
  <2> QED
    BY <1>4, <2>1, <2>3, <2>4 DEF items
<1> QED
  BY <1>5, <1>6

\* Whatever document is decoded, the outcome is a value that can be encoded again,
\* or an error: also of documents no encoder has written.
THEOREM RevivedIsSendable == \A doc \in Documents : Revive[doc] \in GoValues \cup {Bad}
<1> DEFINE Read == {n \in 0..MaxNesting : \A doc \in DocumentUpTo[n] : Revive[doc] \in GoUpTo[n] \cup {Bad}}
<1>1. ASSUME NEW n \in 0..MaxNesting, NEW doc \in Scalars \cup {[g |-> "huge"]}, doc \in Documents
      PROVE  Revive[doc] \in GoUpTo[n] \cup {Bad}
  <2>1. ReviveOf(Revive, doc) \in GoLeaves \cup {Bad}
    BY StringRead, LeavesRevived DEF ReviveOf
  <2> QED
    BY <1>1, <2>1, ReviveDefined, GoLeavesBelow
<1>2. 0 \in Read
  BY <1>1, DocumentLevels, EjsonAssumption
<1>3. ASSUME NEW j \in 0..(MaxNesting - 1), j \in Read PROVE j + 1 \in Read
  <2>1. SUFFICES ASSUME NEW n \in 1..MaxNesting, n = j + 1, NEW doc \in DocumentUpTo[n]
                 PROVE  Revive[doc] \in GoUpTo[n] \cup {Bad}
    BY EjsonAssumption
  <2>2. n - 1 = j /\ n - 1 \in 0..MaxNesting /\ n \in 0..MaxNesting
    BY <2>1, EjsonAssumption
  <2>3. doc \in Documents /\ DocumentUpTo[n - 1] \subseteq Documents
    BY <2>2, DocumentLevels
  <2>4. \A p \in DocumentUpTo[n - 1] : Revive[p] \in GoUpTo[n - 1] \cup {Bad}
    BY <1>3, <2>2
  <2>5. GoLeaves \subseteq GoUpTo[n]
    BY <2>2, GoLeavesBelow
  <2>6. CASE doc \in Scalars \cup {[g |-> "huge"]}
    BY <1>1, <2>2, <2>3, <2>6
  <2>7. CASE IsList(doc, {"list"}, DocumentUpTo[n - 1])
    <3>1. doc.g = "list" /\ doc.items \in Seq(DocumentUpTo[n - 1])
      BY <2>7 DEF IsList
    <3>2. ReviveOf(Revive, doc) = Whole(List(Each(Revive, doc.items)))
      BY <3>1 DEF ReviveOf
    <3> QED
      BY <2>3, <2>4, <3>1, <3>2, ReviveDefined, RevivedParts
  <2>8. CASE IsMap(doc, {"map"}, DocumentUpTo[n - 1])
    <3> DEFINE items == doc.items
               keys == doc.keys
    <3>1. doc.g = "map" /\ items \in Seq(DocumentUpTo[n - 1]) /\ keys \in Shapes /\ Len(items) = Len(keys)
      BY <2>8 DEF IsMap
    <3>2. Revive[doc] = ReviveObject(Revive, doc)
      BY <2>3, <3>1, ReviveDefined DEF ReviveOf
    <3>3. \A i \in 1..Len(items) : items[i] \in DocumentUpTo[n - 1] /\ items[i] \in Documents
      BY <2>3, <3>1
    <3>4. CASE keys \in {<<"$date">>, <<"$time">>, <<"$ipv4_interface">>, <<"$ipv6_interface">>}
      <4>1. items[1] \in Documents
        BY <3>1, <3>3, <3>4
      <4>2. ReviveObject(Revive, doc) \in GoLeaves \cup {Bad}
        <5>1. /\ ReviveDate(items[1]) \in GoLeaves \cup {Bad} /\ ReviveTime(items[1]) \in GoLeaves \cup {Bad}
              /\ RevivePrefix(items[1]) \in GoLeaves \cup {Bad}
          BY <4>1, LeavesRevived
        <5> QED
          BY <3>4, <5>1 DEF ReviveObject, IsDate
      <4> QED
        BY <2>5, <3>2, <4>2
    <3>5. CASE keys = <<"$set">>
      <4> DEFINE raw == items[1]
      <4>1. raw \in DocumentUpTo[n - 1]
        BY <3>1, <3>3, <3>5
      <4>2. ReviveObject(Revive, doc) = ReviveSet(Revive, raw)
        <5>1. /\ keys # <<"$date">> /\ keys # <<"$time">> /\ keys # <<"$type", "$value">>
              /\ keys \notin {<<"$ipv4_interface">>, <<"$ipv6_interface">>}
          BY <3>5
        <5> QED
          BY <3>5, <5>1 DEF ReviveObject, IsDate
      <4>3. raw.g = "list" => raw.items \in Seq(DocumentUpTo[n - 1])
        <5>1. SUFFICES ASSUME raw.g = "list" PROVE raw.items \in Seq(DocumentUpTo[n - 1])
          OBVIOUS
        <5>2. n - 1 \in 1..MaxNesting /\ raw.items \in Seq(DocumentUpTo[(n - 1) - 1])
          BY <2>2, <4>1, <5>1, DocumentParts
        <5>3. DocumentUpTo[(n - 1) - 1] \subseteq DocumentUpTo[n - 1]
          BY <5>2, DocumentLevels
        <5> QED
          BY <5>2, <5>3
      <4>4. ReviveSet(Revive, raw) \in GoUpTo[n] \cup {Bad}
        BY <2>4, <4>3, RevivedParts DEF ReviveSet
      <4> QED
        BY <3>2, <4>2, <4>4
    <3>6. CASE IsDate(doc)
      <4>1. ReviveObject(Revive, doc) = ReviveDay(items[2])
        BY <3>6 DEF ReviveObject, IsDate
      <4>2. items[2] \in Documents
        BY <3>1, <3>3, <3>6 DEF IsDate
      <4> QED
        BY <2>5, <3>2, <4>1, <4>2, LeavesRevived
    <3>7. CASE /\ keys \notin {<<"$date">>, <<"$time">>, <<"$set">>, <<"$ipv4_interface">>, <<"$ipv6_interface">>}
               /\ ~IsDate(doc)
      <4>1. ReviveObject(Revive, doc) = Whole(Map(keys, Each(Revive, items)))
        BY <3>7 DEF ReviveObject
      <4>2. ~(keys = <<"$type", "$value">> /\ items[1] = Word("date"))
        BY <3>7 DEF IsDate
      <4> HIDE DEF keys, items
      <4> QED
        BY <2>4, <3>1, <3>2, <3>7, <4>1, <4>2, RevivedParts
    <3> QED
      BY <3>4, <3>5, <3>6, <3>7
  <2> QED
    BY <2>6, <2>7, <2>8, DocumentAbove
<1>4. 0..MaxNesting \subseteq Read
  <2> HIDE DEF Read
  <2> QED
    BY <1>2, <1>3, UpToInduction, EjsonAssumption
<1>5. MaxNesting \in Read
  BY <1>4, EjsonAssumption
<1> QED
  BY <1>5 DEF Documents, GoValues

-----------------------------------------------------------------------------
(* The decoders of typed fields *)

\* Looking up a key of an object with one key.
LEMMA FieldOfOne ==
  ASSUME NEW doc, NEW key, NEW other, doc.g = "map", doc.keys = <<key>>, other # key
  PROVE  Field(doc, key) = doc.items[1] /\ Field(doc, other) = [g |-> "missing"]
<1>1. DOMAIN doc.keys = {1} /\ doc.keys[1] = key
  OBVIOUS
<1>2. (CHOOSE i \in DOMAIN doc.keys : doc.keys[i] = key) = 1
  BY <1>1
<1> QED
  BY <1>1, <1>2 DEF Field

\* Looking up a key of an object with $type and $value.
LEMMA FieldOfTwo ==
  ASSUME NEW doc, NEW other, doc.g = "map", doc.keys = <<"$type", "$value">>, other \notin {"$type", "$value"}
  PROVE  /\ Field(doc, "$type") = doc.items[1] /\ Field(doc, "$value") = doc.items[2]
         /\ Field(doc, other) = [g |-> "missing"]
<1>1. DOMAIN doc.keys = {1, 2} /\ doc.keys[1] = "$type" /\ doc.keys[2] = "$value"
  OBVIOUS
<1>2. (CHOOSE i \in DOMAIN doc.keys : doc.keys[i] = "$type") = 1
  BY <1>1
<1>3. (CHOOSE i \in DOMAIN doc.keys : doc.keys[i] = "$value") = 2
  BY <1>1
<1> QED
  BY <1>1, <1>2, <1>3 DEF Field

\* Each of the decoders gives its own type or an error.
LEMMA KindsRevived ==
  /\ \A raw : ReviveDate(raw).g = "time" \/ ReviveDate(raw) = Bad
  /\ \A raw : ReviveTime(raw).g = "clock" \/ ReviveTime(raw) = Bad
  /\ \A raw : ReviveDay(raw).g = "date" \/ ReviveDay(raw) = Bad
<1>1. \A n : Instant(n).g = "time"
  BY DEF Instant
<1>2. \A u : ParseTime(u) = Bad \/ ParseTime(u).g = "clock"
  BY DEF ParseTime
<1>3. \A u : ParseDate(u) = Bad \/ ParseDate(u).g = "date"
  BY DEF ParseDate
<1> QED
  BY <1>1, <1>2, <1>3 DEF ReviveDate, ReviveTime, ReviveDay

\* On an extended value, the decoders of typed fields agree with the decoder of
\* values of any type.
LEMMA TypedRead ==
  ASSUME NEW doc \in Documents, Extended(doc), NEW type \in {"time", "clock", "date"}
  PROVE  UnmarshalTyped(type, doc) = IF Revive[doc].g = type THEN Revive[doc] ELSE Bad
<1> DEFINE v == Revive[doc]
           none == [g |-> "missing"]
<1>1. doc.g = "map" /\ v = ReviveObject(Revive, doc)
  BY ReviveDefined DEF Extended, ReviveOf
<1>2. /\ ReviveDate(none) = Bad /\ ReviveTime(none) = Bad /\ none # Word("date")
      /\ Bad.g = "error"
  BY DEF ReviveDate, ReviveTime, Word, String, Bad
<1>3. SUFFICES /\ DateTimeOf(doc) = IF v.g = "time" THEN v ELSE Bad
               /\ TimeOf(doc) = IF v.g = "clock" THEN v ELSE Bad
               /\ DateOf(doc) = IF v.g = "date" THEN v ELSE Bad
  <2> HIDE DEF v
  <2>1. UnmarshalTyped("time", doc) = DateTimeOf(doc) /\ UnmarshalTyped("clock", doc) = TimeOf(doc)
        /\ UnmarshalTyped("date", doc) = DateOf(doc)
    BY DEF UnmarshalTyped
  <2> QED
    BY <2>1 DEF v
<1> HIDE DEF v
<1>4. CASE doc.keys = <<"$date">>
  <2>1. v = ReviveDate(doc.items[1])
    BY <1>1, <1>4 DEF ReviveObject, IsDate
  <2>2. /\ Field(doc, "$date") = doc.items[1] /\ Field(doc, "$time") = none
        /\ Field(doc, "$type") = none
    BY <1>1, <1>4, FieldOfOne
  <2> QED
    BY <1>2, <2>1, <2>2, KindsRevived DEF DateTimeOf, TimeOf, DateOf
<1>5. CASE doc.keys = <<"$time">>
  <2>1. v = ReviveTime(doc.items[1])
    BY <1>1, <1>5 DEF ReviveObject, IsDate
  <2>2. /\ Field(doc, "$time") = doc.items[1] /\ Field(doc, "$date") = none
        /\ Field(doc, "$type") = none
    BY <1>1, <1>5, FieldOfOne
  <2> QED
    BY <1>2, <2>1, <2>2, KindsRevived DEF DateTimeOf, TimeOf, DateOf
<1>6. CASE doc.keys = <<"$type", "$value">>
  <2>1. /\ Field(doc, "$type") = doc.items[1] /\ Field(doc, "$value") = doc.items[2]
        /\ Field(doc, "$date") = none /\ Field(doc, "$time") = none
    BY <1>1, <1>6, FieldOfTwo
  <2>2. DateTimeOf(doc) = Bad /\ TimeOf(doc) = Bad
    BY <1>2, <2>1 DEF DateTimeOf, TimeOf
  <2>3. DateOf(doc) = IF doc.items[1] = Word("date") THEN ReviveDay(doc.items[2]) ELSE Bad
    BY <2>1 DEF DateOf
  <2>4. CASE doc.items[1] = Word("date")
    <3>1. v = ReviveDay(doc.items[2])
      BY <1>1, <1>6, <2>4 DEF ReviveObject, IsDate
    <3> QED
      BY <1>2, <2>2, <2>3, <2>4, <3>1, KindsRevived
  <2>5. CASE doc.items[1] # Word("date")
    <3>1. v = Whole(Map(doc.keys, Each(Revive, doc.items)))
      BY <1>1, <1>6, <2>5 DEF ReviveObject, IsDate
    <3>2. v.g \in {"map", "error"}
      BY <3>1 DEF Whole, Map, Bad
    <3> QED
      BY <2>2, <2>3, <2>5, <3>2
  <2> QED
    BY <2>4, <2>5
<1> QED
  BY <1>4, <1>5, <1>6 DEF Extended

-----------------------------------------------------------------------------
(* Lines of a key file *)

\* A set of line numbers that is not empty has a last one.
LEMMA LastOf ==
  ASSUME NEW n \in Nat, NEW S, S \subseteq 1..n, S # {}
  PROVE  \E i \in S : \A j \in S : j <= i
<1> DEFINE Has == {m \in Nat : \A T \in SUBSET (1..m) : T # {} => \E i \in T : \A j \in T : j <= i}
<1>1. 0 \in Has
  <2>1. 1..0 = {}
    OBVIOUS
  <2> QED
    BY <2>1
<1>2. ASSUME NEW m \in Nat, m \in Has PROVE m + 1 \in Has
  <2>1. SUFFICES ASSUME NEW T \in SUBSET (1..(m + 1)), T # {} PROVE \E i \in T : \A j \in T : j <= i
    OBVIOUS
  <2>2. CASE m + 1 \in T
    BY <2>2
  <2>3. CASE m + 1 \notin T
    <3>1. T \in SUBSET (1..m)
      BY <2>3
    <3> QED
      BY <1>2, <2>1, <3>1
  <2> QED
    BY <2>2, <2>3
<1>3. Nat \subseteq Has
  <2> HIDE DEF Has
  <2> QED
    BY <1>1, <1>2, SetInduction
<1> QED
  BY <1>3

\* The state of the parser's loop is what its recursive definition says.
LEMMA AfterDefined ==
  ASSUME NEW S, NEW lines \in Seq(S)
  PROVE  \A n \in 0..Len(lines) :
           After(lines)[n] = IF n = 0 THEN Start ELSE Line(After(lines)[n - 1], lines[n])
<1> DEFINE N == Len(lines)
           step(f, n) == IF n = 0 THEN Start ELSE Line(f[n - 1], lines[n])
           Defined == {k \in Nat : \E f : f = [n \in 0..k |-> step(f, n)]}
<1>1. 0 \in Defined
  <2> DEFINE f == [n \in 0..0 |-> Start]
  <2>1. f = [n \in 0..0 |-> step(f, n)]
    OBVIOUS
  <2> QED
    BY <2>1
<1>2. ASSUME NEW k \in Nat, k \in Defined PROVE k + 1 \in Defined
  <2>1. PICK f : f = [n \in 0..k |-> step(f, n)]
    BY <1>2
  <2> DEFINE h == [n \in 0..(k + 1) |-> step(f, n)]
  <2>2. \A n \in 0..k : h[n] = f[n]
    BY <2>1
  <2>3. \A n \in 0..(k + 1) : step(f, n) = step(h, n)
    <3> HIDE DEF h
    <3>1. SUFFICES ASSUME NEW n \in 0..(k + 1), n # 0 PROVE f[n - 1] = h[n - 1]
      OBVIOUS
    <3>2. n - 1 \in 0..k
      BY <3>1
    <3> QED
      BY <2>2, <3>2
  <2>4. h = [n \in 0..(k + 1) |-> step(h, n)]
    BY <2>3
  <2> HIDE DEF h, step
  <2>5. \E g : g = [n \in 0..(k + 1) |-> step(g, n)]
    BY <2>4
  <2> QED
    BY <2>5
<1>3. N \in Defined
  <2> HIDE DEF Defined
  <2>1. N \in Nat
    OBVIOUS
  <2> QED
    BY <1>1, <1>2, <2>1, SetInduction
<1>4. After(lines) = [n \in 0..N |-> step(After(lines), n)]
  BY <1>3 DEF After
<1> QED
  BY <1>4

\* The headers among the first n lines.
HeadersTo(lines, n) == {i \in 1..n : lines[i].kind = "section"}

\* j is the last of them.
LastHeader(lines, n, j) == j \in HeadersTo(lines, n) /\ \A k \in HeadersTo(lines, n) : k <= j

\* The pairs of a section among the first n lines.
PairsTo(lines, name, n) == {i \in 1..n : i \in PairsOf(lines, name)}

\* Nothing in the first n lines is refused.
ReadableTo(lines, n) ==
  \A i \in 1..n :
    IF lines[i].kind = "section" THEN lines[i].name # ""
    ELSE lines[i].kind = "pair" /\ HeadersTo(lines, i) # {}

\* The names of the sections in the first n lines.
NamesTo(lines, n) == {lines[i].name : i \in HeadersTo(lines, n)}

\* The last pair of its key in the section, among the first n lines.
LastPair(lines, name, n, i) ==
  i \in PairsTo(lines, name, n) /\ \A j \in PairsTo(lines, name, n) : lines[j].key = lines[i].key => j <= i

\* The sections hold what the first n lines say, the last pair of each key.
Collected(lines, n, sections) ==
  /\ DOMAIN sections = NamesTo(lines, n)
  /\ \A name \in NamesTo(lines, n) :
       /\ DOMAIN sections[name] = {lines[i].key : i \in PairsTo(lines, name, n)}
       /\ \A i : LastPair(lines, name, n, i) => sections[name][lines[i].key] = lines[i].value

\* The order lists the sections that have a name of their own.
Ordered(lines, n, order) ==
  order \in Seq(NamesTo(lines, n)) /\ {order[i] : i \in DOMAIN order} = NamesTo(lines, n) \ {"DEFAULT"}

\* The current section is that of the last header.
Current(lines, n, current) ==
  /\ HeadersTo(lines, n) = {} => current = ""
  /\ \A j : LastHeader(lines, n, j) => current = lines[j].name

\* The invariant of parseINIKeyConfig's loop: what its state has to do with the
\* lines it has read.
Loop(lines, n, config) ==
  /\ config = [ok |-> config.ok, sections |-> config.sections, order |-> config.order,
               current |-> config.current]
  /\ config.ok \in BOOLEAN
  /\ config.ok <=> ReadableTo(lines, n)
  /\ config.ok => /\ Current(lines, n, config.current)
                  /\ Collected(lines, n, config.sections)
                  /\ Ordered(lines, n, config.order)

\* The section of a line is that of the last header up to it.
LEMMA LastHeaderIs ==
  ASSUME NEW S, NEW lines \in Seq(S), NEW i \in 1..Len(lines), HeadersTo(lines, i) # {}
  PROVE  \E j : LastHeader(lines, i, j) /\ Section(lines, i) = lines[j].name
<1>1. PICK j \in HeadersTo(lines, i) : \A k \in HeadersTo(lines, i) : k <= j
  <2>1. i \in Nat /\ HeadersTo(lines, i) \subseteq 1..i
    BY DEF HeadersTo
  <2> QED
    BY <2>1, LastOf
<1>2. LastHeader(lines, i, j)
  BY <1>1 DEF LastHeader
<1>3. HeadersTo(lines, i) = {k \in Headers(lines) : k <= i}
  BY DEF HeadersTo, Headers
<1> DEFINE is(x) == x <= i /\ \A k \in Headers(lines) : k <= i => k <= x
<1>4. j \in Headers(lines) /\ is(j)
  BY <1>1, <1>3
<1>5. \A x \in Headers(lines) : is(x) => x = j
  <2>1. SUFFICES ASSUME NEW x \in Headers(lines), is(x) PROVE x = j
    OBVIOUS
  <2>2. x <= j /\ j <= x /\ x \in Int /\ j \in Int
    BY <1>4, <2>1 DEF Headers
  <2> QED
    BY <2>2
<1>6. (CHOOSE x \in Headers(lines) : is(x)) = j
  <2> HIDE DEF is
  <2> QED
    BY <1>4, <1>5
<1> QED
  BY <1>2, <1>6 DEF Section

\* What line m adds to the first n.
OneMore(lines, n, m) ==
  /\ m \in 1..Len(lines) /\ n \in 0..Len(lines)
  /\ lines[m].kind = "section" =>
       /\ HeadersTo(lines, m) = HeadersTo(lines, n) \cup {m}
       /\ NamesTo(lines, m) = NamesTo(lines, n) \cup {lines[m].name}
  /\ lines[m].kind # "section" =>
       HeadersTo(lines, m) = HeadersTo(lines, n) /\ NamesTo(lines, m) = NamesTo(lines, n)
  /\ \A name :
       PairsTo(lines, name, m) =
         IF lines[m].kind = "pair" /\ Section(lines, m) = name
           THEN PairsTo(lines, name, n) \cup {m} ELSE PairsTo(lines, name, n)
  /\ ReadableTo(lines, m) <=>
       /\ ReadableTo(lines, n)
       /\ IF lines[m].kind = "section" THEN lines[m].name # ""
          ELSE lines[m].kind = "pair" /\ HeadersTo(lines, n) # {}

\* The line after the first n adds that.
LEMMA LinesGrow ==
  ASSUME NEW S, NEW lines \in Seq(S), NEW n \in 0..(Len(lines) - 1), NEW m, m = n + 1
  PROVE  OneMore(lines, n, m)
<1>1. m \in 1..Len(lines) /\ n \in 0..Len(lines) /\ 1..m = (1..n) \cup {m} /\ m \notin 1..n
  OBVIOUS
<1>2. lines[m].kind = "section" => HeadersTo(lines, m) = HeadersTo(lines, n) \cup {m}
  BY <1>1 DEF HeadersTo
<1>3. lines[m].kind # "section" => HeadersTo(lines, m) = HeadersTo(lines, n)
  BY <1>1 DEF HeadersTo
<1>4. /\ lines[m].kind = "section" => NamesTo(lines, m) = NamesTo(lines, n) \cup {lines[m].name}
      /\ lines[m].kind # "section" => NamesTo(lines, m) = NamesTo(lines, n)
  BY <1>2, <1>3 DEF NamesTo
<1>5. ASSUME NEW name
      PROVE  PairsTo(lines, name, m) =
               IF lines[m].kind = "pair" /\ Section(lines, m) = name
                 THEN PairsTo(lines, name, n) \cup {m} ELSE PairsTo(lines, name, n)
  <2>1. m \in PairsOf(lines, name) <=> lines[m].kind = "pair" /\ Section(lines, m) = name
    BY <1>1 DEF PairsOf
  <2> QED
    BY <1>1, <2>1 DEF PairsTo
<1>6. ReadableTo(lines, m) <=>
        /\ ReadableTo(lines, n)
        /\ IF lines[m].kind = "section" THEN lines[m].name # ""
           ELSE lines[m].kind = "pair" /\ HeadersTo(lines, m) # {}
  BY <1>1 DEF ReadableTo
<1> QED
  BY <1>1, <1>2, <1>3, <1>4, <1>5, <1>6 DEF OneMore

\* A pair is in a section that has a header before it.
LEMMA PairsNamed ==
  ASSUME NEW S, NEW lines \in Seq(S), NEW n \in 0..Len(lines), ReadableTo(lines, n),
         NEW name, PairsTo(lines, name, n) # {}
  PROVE  name \in NamesTo(lines, n)
<1>1. PICK i \in 1..n : lines[i].kind = "pair" /\ Section(lines, i) = name
  BY DEF PairsTo, PairsOf
<1>2. i \in 1..Len(lines) /\ HeadersTo(lines, i) # {}
  <2>1. lines[i].kind # "section"
    BY <1>1
  <2>2. HeadersTo(lines, i) # {}
    BY <2>1 DEF ReadableTo
  <2> QED
    BY <2>2
<1>3. PICK j : LastHeader(lines, i, j) /\ Section(lines, i) = lines[j].name
  BY <1>2, LastHeaderIs
<1>4. j \in HeadersTo(lines, n)
  BY <1>3 DEF LastHeader, HeadersTo
<1> QED
  BY <1>1, <1>3, <1>4 DEF NamesTo

\* The invariant holds before the first line.
LEMMA LoopStart == \A lines : Loop(lines, 0, Start)
<1>1. 1..0 = {}
  OBVIOUS
<1>2. SUFFICES ASSUME NEW lines PROVE Loop(lines, 0, Start)
  OBVIOUS
<1>3. HeadersTo(lines, 0) = {} /\ NamesTo(lines, 0) = {}
  BY <1>1 DEF HeadersTo, NamesTo
<1>4. ReadableTo(lines, 0)
  BY <1>1 DEF ReadableTo
<1>5. Collected(lines, 0, <<>>)
  BY <1>3 DEF Collected
<1>6. Ordered(lines, 0, <<>>)
  BY <1>3 DEF Ordered
<1>7. Current(lines, 0, "")
  BY <1>3 DEF Current, LastHeader
<1> QED
  BY <1>4, <1>5, <1>6, <1>7 DEF Loop, Start

\* A sequence of members of a set is one of a larger set.
LEMMA SeqGrows ==
  ASSUME NEW S, NEW T, NEW s \in Seq(S), S \subseteq T
  PROVE  s \in Seq(T)
OBVIOUS

\* A header that has just been read is the last one.
LEMMA NewHeaderIsLast ==
  ASSUME NEW lines, NEW n \in Nat, NEW m, m = n + 1,
         HeadersTo(lines, m) = HeadersTo(lines, n) \cup {m}
  PROVE  \A j : LastHeader(lines, m, j) => j = m
<1>1. SUFFICES ASSUME NEW j, LastHeader(lines, m, j), j # m PROVE FALSE
  OBVIOUS
<1>2. j \in HeadersTo(lines, n) /\ m <= j
  BY <1>1 DEF LastHeader
<1>3. j \in 1..n
  BY <1>2 DEF HeadersTo
<1> QED
  BY <1>2, <1>3

\* The empty function has no keys.
LEMMA NoKeys == DOMAIN <<>> = {}
OBVIOUS

\* The members of a sequence.
Entries(s) == {s[i] : i \in DOMAIN s}

\* What Append adds.
Longer(T, s, x) == Append(s, x) \in Seq(T) /\ Entries(Append(s, x)) = Entries(s) \cup {x}

\* Append adds a member.
LEMMA AppendGrows ==
  ASSUME NEW T, NEW s \in Seq(T), NEW x \in T
  PROVE  Longer(T, s, x)
<1>1. /\ Append(s, x) \in Seq(T) /\ DOMAIN Append(s, x) = (DOMAIN s) \cup {Len(s) + 1}
      /\ \A i \in DOMAIN s : Append(s, x)[i] = s[i]
      /\ Append(s, x)[Len(s) + 1] = x
  OBVIOUS
<1> QED
  BY <1>1 DEF Entries, Longer

\* A header preserves the loop's invariant.
LEMMA HeaderLine ==
  ASSUME NEW S, NEW lines \in Seq(S), NEW n \in Nat, NEW m \in Nat, OneMore(lines, n, m), m = n + 1,
         NEW c, Loop(lines, n, c), c.ok = TRUE, lines[m].kind = "section", lines[m].name # ""
  PROVE  Loop(lines, m, Line(c, lines[m]))
<1> DEFINE name == lines[m].name
           sections == IF name \in DOMAIN c.sections THEN c.sections ELSE With(c.sections, name, <<>>)
           order == IF name \in DOMAIN c.sections \cup {"DEFAULT"} THEN c.order ELSE Append(c.order, name)
           d == [ok |-> TRUE, sections |-> sections, order |-> order, current |-> name]
<1>1. Line(c, lines[m]) = d
  BY DEF Line, Loop
<1> HIDE DEF sections, order, d
<1>2. /\ ReadableTo(lines, n) /\ Collected(lines, n, c.sections) /\ Ordered(lines, n, c.order)
  BY DEF Loop
<1>3. /\ m \in 1..Len(lines) /\ n \in 0..Len(lines)
      /\ HeadersTo(lines, m) = HeadersTo(lines, n) \cup {m}
      /\ NamesTo(lines, m) = NamesTo(lines, n) \cup {name}
      /\ ReadableTo(lines, m)
  BY <1>2 DEF OneMore
<1>4. \A x : PairsTo(lines, x, m) = PairsTo(lines, x, n)
  BY DEF OneMore
<1> HIDE DEF name
<1>5. Current(lines, m, name)
  <2>2. \A j : LastHeader(lines, m, j) => j = m
    BY <1>3, NewHeaderIsLast
  <2>3. HeadersTo(lines, m) # {}
    BY <1>3
  <2> QED
    BY <2>2, <2>3 DEF Current, name
<1>6. Collected(lines, m, sections)
  <2>1. DOMAIN c.sections = NamesTo(lines, n)
    BY <1>2 DEF Collected
  <2>2. DOMAIN sections = NamesTo(lines, m)
    BY <1>3, <2>1 DEF With, sections
  <2>3. ASSUME NEW x \in NamesTo(lines, m)
        PROVE  /\ DOMAIN sections[x] = {lines[i].key : i \in PairsTo(lines, x, m)}
               /\ \A i : LastPair(lines, x, m, i) => sections[x][lines[i].key] = lines[i].value
    <3>1. PairsTo(lines, x, m) = PairsTo(lines, x, n)
      BY <1>4
    <3>2. CASE x \in NamesTo(lines, n)
      <4>1. sections[x] = c.sections[x]
        BY <2>1, <3>2 DEF With, sections
      <4>2. /\ DOMAIN c.sections[x] = {lines[i].key : i \in PairsTo(lines, x, n)}
            /\ \A i : LastPair(lines, x, n, i) => c.sections[x][lines[i].key] = lines[i].value
        BY <1>2, <3>2 DEF Collected
      <4>3. \A i : LastPair(lines, x, m, i) => LastPair(lines, x, n, i)
        BY <3>1 DEF LastPair
      <4> QED
        BY <3>1, <4>1, <4>2, <4>3
    <3>3. CASE x \notin NamesTo(lines, n)
      <4>1. PairsTo(lines, x, n) = {}
        <5>1. SUFFICES ASSUME PairsTo(lines, x, n) # {} PROVE FALSE
          OBVIOUS
        <5>2. n \in 0..Len(lines) /\ ReadableTo(lines, n)
          BY <1>2, <1>3
        <5>4. lines \in Seq(S)
          OBVIOUS
        <5>3. x \in NamesTo(lines, n)
          BY <5>1, <5>2, <5>4, PairsNamed
        <5> QED
          BY <3>3, <5>3
      <4>2. sections[x] = <<>>
        <5>1. x = name /\ name \notin DOMAIN c.sections
          BY <1>3, <2>1, <3>3
        <5> QED
          BY <5>1 DEF With, sections
      <4>3. \A i : ~LastPair(lines, x, m, i)
        BY <3>1, <4>1 DEF LastPair
      <4>4. DOMAIN sections[x] = {} /\ {lines[i].key : i \in PairsTo(lines, x, m)} = {}
        <5>1. PairsTo(lines, x, m) = {}
          BY <3>1, <4>1
        <5>2. {lines[i].key : i \in PairsTo(lines, x, m)} = {}
          BY <5>1
        <5>3. DOMAIN sections[x] = {}
          BY <4>2, NoKeys
        <5> QED
          BY <5>2, <5>3
      <4> QED
        BY <4>3, <4>4
    <3> QED
      BY <3>2, <3>3
  <2> QED
    BY <2>2, <2>3 DEF Collected
<1>7. Ordered(lines, m, order)
  <2>1. /\ DOMAIN c.sections = NamesTo(lines, n)
        /\ c.order \in Seq(NamesTo(lines, n))
        /\ {c.order[i] : i \in DOMAIN c.order} = NamesTo(lines, n) \ {"DEFAULT"}
    BY <1>2 DEF Collected, Ordered
  <2> DEFINE before == NamesTo(lines, n)
             after == NamesTo(lines, m)
  <2>4. after = before \cup {name}
    BY <1>3
  <2> HIDE DEF before, after
  <2>2. CASE name \in DOMAIN c.sections \cup {"DEFAULT"}
    <3>1. order = c.order
      BY <2>2 DEF order
    <3>2. c.order \in Seq(after)
      <4>1. before \subseteq after /\ c.order \in Seq(before)
        BY <2>1, <2>4 DEF before
      <4> QED
        BY <4>1, SeqGrows
    <3>3. {c.order[i] : i \in DOMAIN c.order} = after \ {"DEFAULT"}
      <4>1. name \in before \cup {"DEFAULT"}
        BY <2>1, <2>2 DEF before
      <4>2. {c.order[i] : i \in DOMAIN c.order} = before \ {"DEFAULT"}
        BY <2>1 DEF before
      <4> QED
        BY <2>4, <4>1, <4>2
    <3> QED
      BY <3>1, <3>2, <3>3 DEF Ordered, after
  <2>3. CASE name \notin DOMAIN c.sections \cup {"DEFAULT"}
    <3>1. order = Append(c.order, name)
      BY <2>3 DEF order
    <3>2. /\ c.order \in Seq(before) /\ name \notin before \cup {"DEFAULT"}
          /\ {c.order[i] : i \in DOMAIN c.order} = before \ {"DEFAULT"}
      BY <2>1, <2>3 DEF before
    <3>4. c.order \in Seq(after) /\ name \in after
      <4>1. before \subseteq after
        BY <2>4
      <4> QED
        BY <2>4, <3>2, <4>1, SeqGrows
    <3>6. /\ Append(c.order, name) \in Seq(after)
          /\ Entries(Append(c.order, name)) = Entries(c.order) \cup {name}
      <4>1. Longer(after, c.order, name)
        BY <3>4, AppendGrows
      <4> QED
        BY <4>1 DEF Longer
    <3>7. Entries(c.order) = before \ {"DEFAULT"}
      BY <3>2 DEF Entries
    <3>8. Entries(Append(c.order, name)) = after \ {"DEFAULT"}
      BY <2>4, <3>2, <3>6, <3>7
    <3>3. /\ Append(c.order, name) \in Seq(after)
          /\ {Append(c.order, name)[i] : i \in DOMAIN Append(c.order, name)} = after \ {"DEFAULT"}
      BY <3>6, <3>8 DEF Entries
    <3> QED
      BY <3>1, <3>3 DEF Ordered, after
  <2> QED
    BY <2>2, <2>3
<1>8. /\ d.ok = TRUE /\ d.sections = sections /\ d.order = order /\ d.current = name
      /\ d = [ok |-> d.ok, sections |-> d.sections, order |-> d.order, current |-> d.current]
  BY DEF d
<1> QED
  BY <1>1, <1>3, <1>5, <1>6, <1>7, <1>8 DEF Loop

\* The current section is the section the next line is in, and it has a name.
LEMMA CurrentSection ==
  ASSUME NEW S, NEW lines \in Seq(S), NEW n \in Nat, NEW m \in Nat, OneMore(lines, n, m), m = n + 1,
         NEW current, Current(lines, n, current), ReadableTo(lines, n),
         lines[m].kind # "section", HeadersTo(lines, n) # {}
  PROVE  current = Section(lines, m) /\ current \in NamesTo(lines, n) /\ current # ""
<1>1. m \in 1..Len(lines) /\ HeadersTo(lines, m) = HeadersTo(lines, n)
  BY DEF OneMore
<1>2. PICK j : LastHeader(lines, m, j) /\ Section(lines, m) = lines[j].name
  BY <1>1, LastHeaderIs
<1>3. LastHeader(lines, n, j) /\ j \in HeadersTo(lines, n)
  BY <1>1, <1>2 DEF LastHeader
<1>4. current = lines[j].name
  BY <1>3 DEF Current
<1>5. lines[j].name \in NamesTo(lines, n)
  BY <1>3 DEF NamesTo
<1>6. lines[j].name # ""
  <2>1. j \in 1..n /\ lines[j].kind = "section"
    BY <1>3 DEF HeadersTo
  <2> QED
    BY <2>1 DEF ReadableTo
<1> QED
  BY <1>2, <1>4, <1>5, <1>6

\* A pair that has just been read is the last of its key, and leaves the others.
LEMMA NewPairIsLast ==
  ASSUME NEW lines, NEW n \in Nat, NEW m, m = n + 1, NEW name,
         PairsTo(lines, name, m) = PairsTo(lines, name, n) \cup {m}
  PROVE  \A i : LastPair(lines, name, m, i) =>
           \/ i = m
           \/ LastPair(lines, name, n, i) /\ lines[i].key # lines[m].key
<1>1. SUFFICES ASSUME NEW i, LastPair(lines, name, m, i), i # m
               PROVE  LastPair(lines, name, n, i) /\ lines[i].key # lines[m].key
  OBVIOUS
<1>2. i \in PairsTo(lines, name, n)
  BY <1>1 DEF LastPair
<1>3. LastPair(lines, name, n, i)
  BY <1>1, <1>2 DEF LastPair
<1>4. lines[m].key = lines[i].key => m <= i
  BY <1>1 DEF LastPair
<1>5. i \in 1..n
  BY <1>2 DEF PairsTo
<1>6. ~(m <= i)
  BY <1>5
<1> QED
  BY <1>3, <1>4, <1>6

\* A pair preserves the loop's invariant.
LEMMA PairLine ==
  ASSUME NEW S, NEW lines \in Seq(S), NEW n \in Nat, NEW m \in Nat, OneMore(lines, n, m), m = n + 1,
         NEW c, Loop(lines, n, c), c.ok = TRUE, lines[m].kind = "pair", HeadersTo(lines, n) # {}
  PROVE  Loop(lines, m, Line(c, lines[m]))
<1> DEFINE name == Section(lines, m)
           key == lines[m].key
           pairs == With(c.sections[name], key, lines[m].value)
           sections == [c.sections EXCEPT ![name] = pairs]
           d == [ok |-> TRUE, sections |-> sections, order |-> c.order, current |-> name]
<1>2. /\ ReadableTo(lines, n) /\ Collected(lines, n, c.sections) /\ Ordered(lines, n, c.order)
      /\ Current(lines, n, c.current)
  BY DEF Loop
<1>3. lines[m].kind # "section"
  OBVIOUS
<1>4. c.current = name /\ name \in NamesTo(lines, n) /\ name # ""
  BY <1>2, <1>3, CurrentSection
<1>1. Line(c, lines[m]) = d
  <2>1. Line(c, lines[m]) = [c EXCEPT !.sections[c.current] = With(@, lines[m].key, lines[m].value)]
    BY <1>3, <1>4 DEF Line
  <2>2. c = [ok |-> c.ok, sections |-> c.sections, order |-> c.order, current |-> c.current]
    BY DEF Loop
  <2> QED
    BY <1>4, <2>1, <2>2
<1> HIDE DEF sections, d, pairs
<1>5. /\ m \in 1..Len(lines) /\ HeadersTo(lines, m) = HeadersTo(lines, n)
      /\ NamesTo(lines, m) = NamesTo(lines, n) /\ ReadableTo(lines, m)
  BY <1>2, <1>3 DEF OneMore
<1>6. /\ PairsTo(lines, name, m) = PairsTo(lines, name, n) \cup {m}
      /\ \A x : x # name => PairsTo(lines, x, m) = PairsTo(lines, x, n)
  BY <1>3 DEF OneMore
<1> HIDE DEF name
<1>7. Current(lines, m, name)
  BY <1>2, <1>4, <1>5 DEF Current, LastHeader
<1>8. Ordered(lines, m, c.order)
  BY <1>2, <1>5 DEF Ordered
<1>9. Collected(lines, m, sections)
  <2>1. /\ DOMAIN c.sections = NamesTo(lines, n)
        /\ \A x \in NamesTo(lines, n) :
             /\ DOMAIN c.sections[x] = {lines[i].key : i \in PairsTo(lines, x, n)}
             /\ \A i : LastPair(lines, x, n, i) => c.sections[x][lines[i].key] = lines[i].value
    BY <1>2 DEF Collected
  <2>2. DOMAIN sections = NamesTo(lines, m)
    BY <1>5, <2>1 DEF sections
  <2>3. ASSUME NEW x \in NamesTo(lines, m), x # name
        PROVE  /\ DOMAIN sections[x] = {lines[i].key : i \in PairsTo(lines, x, m)}
               /\ \A i : LastPair(lines, x, m, i) => sections[x][lines[i].key] = lines[i].value
    <3>1. PairsTo(lines, x, m) = PairsTo(lines, x, n)
      BY <1>6, <2>3
    <3>2. sections[x] = c.sections[x]
      BY <1>5, <2>1, <2>3 DEF sections
    <3>3. \A i : LastPair(lines, x, m, i) => LastPair(lines, x, n, i)
      BY <3>1 DEF LastPair
    <3> QED
      BY <1>5, <2>1, <3>1, <3>2, <3>3
  <2>4. sections[name] = pairs
    BY <1>4, <2>1 DEF sections
  <2>5. DOMAIN pairs = {lines[i].key : i \in PairsTo(lines, name, m)}
    <3>1. DOMAIN pairs = DOMAIN c.sections[name] \cup {key}
      BY DEF pairs, With
    <3>2. {lines[i].key : i \in PairsTo(lines, name, m)} = {lines[i].key : i \in PairsTo(lines, name, n)} \cup {key}
      BY <1>6
    <3> QED
      BY <1>4, <2>1, <3>1, <3>2
  <2>6. ASSUME NEW i, LastPair(lines, name, m, i) PROVE pairs[lines[i].key] = lines[i].value
    <3>1. CASE i = m
      BY <3>1 DEF pairs, With
    <3>2. CASE LastPair(lines, name, n, i) /\ lines[i].key # key
      <4>1. lines[i].key \in {lines[k].key : k \in PairsTo(lines, name, n)}
        BY <3>2 DEF LastPair
      <4>2. lines[i].key \in DOMAIN c.sections[name]
        BY <1>4, <2>1, <4>1
      <4>3. pairs[lines[i].key] = c.sections[name][lines[i].key]
        BY <3>2, <4>2 DEF pairs, With
      <4> QED
        BY <1>4, <2>1, <3>2, <4>3
    <3> QED
      BY <1>6, <2>6, <3>1, <3>2, NewPairIsLast
  <2> QED
    BY <2>2, <2>3, <2>4, <2>5, <2>6 DEF Collected
<1>10. /\ d.ok = TRUE /\ d.sections = sections /\ d.order = c.order /\ d.current = name
       /\ d = [ok |-> d.ok, sections |-> d.sections, order |-> d.order, current |-> d.current]
  BY DEF d
<1> QED
  BY <1>1, <1>5, <1>7, <1>8, <1>9, <1>10 DEF Loop

\* A line that is refused preserves the loop's invariant.
LEMMA RefusedLine ==
  ASSUME NEW S, NEW lines \in Seq(S), NEW n \in Nat, NEW m \in Nat, OneMore(lines, n, m), m = n + 1,
         NEW c, Loop(lines, n, c), c.ok = TRUE,
         ~(lines[m].kind = "section" /\ lines[m].name # ""),
         ~(lines[m].kind = "pair" /\ HeadersTo(lines, n) # {})
  PROVE  Loop(lines, m, Line(c, lines[m]))
<1> DEFINE d == [ok |-> FALSE, sections |-> c.sections, order |-> c.order, current |-> c.current]
<1>1. Line(c, lines[m]) = d
  <2>1. HeadersTo(lines, n) = {} => c.current = ""
    BY DEF Loop, Current
  <2>2. Line(c, lines[m]) = [c EXCEPT !.ok = FALSE]
    BY <2>1 DEF Line
  <2>3. c = [ok |-> c.ok, sections |-> c.sections, order |-> c.order, current |-> c.current]
    BY DEF Loop
  <2> QED
    BY <2>2, <2>3
<1>2. ~ReadableTo(lines, m)
  BY DEF OneMore
<1>3. /\ d.ok = FALSE
      /\ d = [ok |-> d.ok, sections |-> d.sections, order |-> d.order, current |-> d.current]
  OBVIOUS
<1> HIDE DEF d
<1> QED
  BY <1>1, <1>2, <1>3 DEF Loop

\* Every line preserves the loop's invariant.
LEMMA LoopStep ==
  ASSUME NEW S, NEW lines \in Seq(S), NEW n \in 0..(Len(lines) - 1), NEW m, m = n + 1,
         NEW c, Loop(lines, n, c)
  PROVE  Loop(lines, m, Line(c, lines[m]))
<1>1. OneMore(lines, n, m) /\ n \in Nat /\ m \in Nat
  BY LinesGrow
<1>2. CASE c.ok = FALSE
  <2>1. Line(c, lines[m]) = c
    BY <1>2 DEF Line
  <2>2. ~ReadableTo(lines, m)
    BY <1>1, <1>2 DEF OneMore, Loop
  <2> QED
    BY <1>2, <2>1, <2>2 DEF Loop
<1>3. CASE c.ok = TRUE
  <2>1. CASE lines[m].kind = "section" /\ lines[m].name # ""
    BY <1>1, <1>3, <2>1, HeaderLine
  <2>2. CASE lines[m].kind = "pair" /\ HeadersTo(lines, n) # {}
    BY <1>1, <1>3, <2>2, PairLine
  <2>3. CASE /\ ~(lines[m].kind = "section" /\ lines[m].name # "")
             /\ ~(lines[m].kind = "pair" /\ HeadersTo(lines, n) # {})
    BY <1>1, <1>3, <2>3, RefusedLine
  <2> QED
    BY <2>1, <2>2, <2>3
<1> QED
  BY <1>2, <1>3 DEF Loop

\* The loop's invariant holds at the end of the file.
LEMMA LoopInvariant ==
  ASSUME NEW S, NEW lines \in Seq(S)
  PROVE  Loop(lines, Len(lines), After(lines)[Len(lines)])
<1> DEFINE Holds == {n \in 0..Len(lines) : Loop(lines, n, After(lines)[n])}
<1>1. 0 \in Holds
  <2>1. After(lines)[0] = Start
    BY AfterDefined
  <2> QED
    BY <2>1, LoopStart
<1>2. ASSUME NEW n \in 0..(Len(lines) - 1), n \in Holds PROVE n + 1 \in Holds
  <2> DEFINE m == n + 1
  <2>1. m \in 0..Len(lines) /\ m # 0 /\ m - 1 = n
    OBVIOUS
  <2>2. After(lines)[m] = Line(After(lines)[n], lines[m])
    <3> HIDE DEF m
    <3> QED
      BY <2>1, AfterDefined
  <2>3. Loop(lines, n, After(lines)[n])
    BY <1>2
  <2>5. m = n + 1
    OBVIOUS
  <2> HIDE DEF m
  <2>4. Loop(lines, m, Line(After(lines)[n], lines[m]))
    BY <2>3, <2>5, LoopStep
  <2> QED
    BY <2>1, <2>2, <2>4, <2>5
<1>3. Len(lines) \in Holds
  <2> DEFINE N == Len(lines)
  <2>1. N \in Nat
    OBVIOUS
  <2> HIDE DEF Holds
  <2>2. 0 \in Holds /\ \A n \in 0..(N - 1) : n \in Holds => n + 1 \in Holds
    BY <1>1, <1>2
  <2>3. \A x \in 0..N : x \in Holds
    <3> HIDE DEF N
    <3> QED
      BY <2>1, <2>2, UpToInduction
  <2> QED
    BY <2>1, <2>3
<1> QED
  BY <1>3

-----------------------------------------------------------------------------
(* Key files *)

\* The first n lines of a file, where n is its length, are the file.
LEMMA AllLines ==
  ASSUME NEW S, NEW lines \in Seq(S)
  PROVE  /\ HeadersTo(lines, Len(lines)) = Headers(lines)
         /\ NamesTo(lines, Len(lines)) = {lines[i].name : i \in Headers(lines)}
         /\ \A name : PairsTo(lines, name, Len(lines)) = PairsOf(lines, name)
         /\ ReadableTo(lines, Len(lines)) <=> Readable(lines)
<1>1. DOMAIN lines = 1..Len(lines)
  OBVIOUS
<1>2. HeadersTo(lines, Len(lines)) = Headers(lines)
  BY <1>1 DEF HeadersTo, Headers
<1>3. NamesTo(lines, Len(lines)) = {lines[i].name : i \in Headers(lines)}
  BY <1>2 DEF NamesTo
<1>4. \A name : PairsTo(lines, name, Len(lines)) = PairsOf(lines, name)
  BY <1>1 DEF PairsTo, PairsOf
<1>5. ASSUME NEW i \in 1..Len(lines), lines[i].kind # "section"
      PROVE  HeadersTo(lines, i) # {} <=> \E j \in Headers(lines) : j < i
  <2>1. \A j : j \in HeadersTo(lines, i) <=> j \in Headers(lines) /\ j < i
    <3>1. \A j : j \in 1..i <=> j \in 1..Len(lines) /\ j <= i
      OBVIOUS
    <3>2. \A j \in 1..Len(lines) : j <= i <=> (j < i \/ j = i)
      OBVIOUS
    <3>3. \A j : j \in HeadersTo(lines, i) <=> j \in 1..i /\ lines[j].kind = "section"
      BY DEF HeadersTo
    <3>4. \A j : j \in Headers(lines) <=> j \in 1..Len(lines) /\ lines[j].kind = "section"
      BY <1>1 DEF Headers
    <3> QED
      BY <1>5, <3>1, <3>2, <3>3, <3>4
  <2> QED
    BY <2>1
<1>6. ReadableTo(lines, Len(lines)) <=> Readable(lines)
  <2>1. ReadableTo(lines, Len(lines)) <=>
          /\ \A i \in 1..Len(lines) : lines[i].kind = "section" => lines[i].name # ""
          /\ \A i \in 1..Len(lines) : lines[i].kind # "section" =>
               lines[i].kind = "pair" /\ HeadersTo(lines, i) # {}
    BY DEF ReadableTo
  <2>2. Readable(lines) <=>
          /\ \A i \in 1..Len(lines) : lines[i].kind = "section" => lines[i].name # ""
          /\ \A i \in 1..Len(lines) : lines[i].kind # "section" =>
               lines[i].kind = "pair" /\ \E j \in Headers(lines) : j < i
    BY <1>1 DEF Readable
  <2> QED
    BY <1>5, <2>1, <2>2
<1> QED
  BY <1>2, <1>3, <1>4, <1>6

\* What a file says of a key is in the last pair of that key.
LEMMA LastSaid ==
  ASSUME NEW S, NEW lines \in Seq(S), NEW name, NEW key \in {lines[i].key : i \in PairsOf(lines, name)}
  PROVE  \E i : /\ LastPair(lines, name, Len(lines), i) /\ lines[i].key = key
                /\ Said(lines, name)[key] = lines[i].value
<1> DEFINE mine == {i \in PairsOf(lines, name) : lines[i].key = key}
<1>1. mine \subseteq 1..Len(lines) /\ mine # {} /\ Len(lines) \in Nat
  BY DEF PairsOf
<1>2. PICK i \in mine : \A j \in mine : j <= i
  <2> DEFINE N == Len(lines)
  <2>1. N \in Nat /\ mine \subseteq 1..N /\ mine # {}
    BY <1>1
  <2> HIDE DEF N, mine
  <2> QED
    BY <2>1, LastOf
<1> DEFINE is(x) == lines[x].key = key /\ \A j \in PairsOf(lines, name) : lines[j].key = key => j <= x
<1>3. i \in PairsOf(lines, name) /\ is(i)
  BY <1>2
<1>4. \A x \in PairsOf(lines, name) : is(x) => x = i
  <2>1. SUFFICES ASSUME NEW x \in PairsOf(lines, name), is(x) PROVE x = i
    OBVIOUS
  <2>2. x <= i /\ i <= x
    BY <1>3, <2>1
  <2>3. x \in Int /\ i \in Int
    <3>1. x \in mine /\ i \in mine
      BY <2>1, <1>2
    <3>2. \A y \in 1..Len(lines) : y \in Int
      OBVIOUS
    <3> HIDE DEF mine
    <3> QED
      BY <1>1, <3>1, <3>2
  <2> QED
    BY <2>2, <2>3
<1>5. (CHOOSE x \in PairsOf(lines, name) : is(x)) = i
  <2> HIDE DEF is
  <2> QED
    BY <1>3, <1>4
<1>6. Said(lines, name)[key] = lines[i].value
  BY <1>5 DEF Said
<1>7. LastPair(lines, name, Len(lines), i) /\ lines[i].key = key
  BY <1>3, AllLines DEF LastPair
<1> QED
  BY <1>6, <1>7

\* The same keys with the same values.
Agree(pairs, said) ==
  DOMAIN pairs = DOMAIN said /\ \A key \in DOMAIN said : pairs[key] = said[key]

\* The parser's sections hold what the file says.
LEMMA SectionsSaid ==
  ASSUME NEW S, NEW lines \in Seq(S), NEW c, Loop(lines, Len(lines), c), c.ok = TRUE,
         NEW name \in {lines[i].name : i \in Headers(lines)}
  PROVE  Agree(c.sections[name], Said(lines, name))
<1>1. Collected(lines, Len(lines), c.sections) /\ name \in NamesTo(lines, Len(lines))
  BY AllLines DEF Loop
<1>2. /\ DOMAIN c.sections[name] = {lines[i].key : i \in PairsTo(lines, name, Len(lines))}
      /\ \A i : LastPair(lines, name, Len(lines), i) => c.sections[name][lines[i].key] = lines[i].value
  BY <1>1 DEF Collected
<1>3. PairsTo(lines, name, Len(lines)) = PairsOf(lines, name)
  BY AllLines
<1>4. DOMAIN Said(lines, name) = {lines[i].key : i \in PairsOf(lines, name)}
  BY DEF Said
<1>5. ASSUME NEW key \in DOMAIN Said(lines, name) PROVE c.sections[name][key] = Said(lines, name)[key]
  <2>1. PICK i : /\ LastPair(lines, name, Len(lines), i) /\ lines[i].key = key
                 /\ Said(lines, name)[key] = lines[i].value
    BY <1>4, LastSaid
  <2> QED
    BY <1>2, <2>1
<1> QED
  BY <1>2, <1>3, <1>4, <1>5 DEF Agree

\* The parser selects the section that is meant.
LEMMA SectionSelected ==
  ASSUME NEW S, NEW lines \in Seq(S), NEW c, Loop(lines, Len(lines), c), c.ok = TRUE
  PROVE  Selected(c.sections, c.order) = SectionMeant(lines)
<1> DEFINE names == {lines[i].name : i \in Headers(lines)}
<1>1. NamesTo(lines, Len(lines)) = names
  BY AllLines
<1>2. Collected(lines, Len(lines), c.sections) /\ Ordered(lines, Len(lines), c.order)
  BY DEF Loop
<1>3. DOMAIN c.sections = names
  BY <1>1, <1>2 DEF Collected
<1>4. Named(c.sections, c.order) = names \ {"DEFAULT"}
  BY <1>1, <1>2 DEF Ordered, Named
<1> DEFINE own == names \ {"DEFAULT"}
<1>5. SectionMeant(lines) = CASE "TRUENAS_API_KEY" \in names -> {"TRUENAS_API_KEY"}
                              [] own = {} -> names
                              [] OTHER -> {n \in own : own = {n}}
  BY DEF SectionMeant
<1>6. Selected(c.sections, c.order) =
        CASE own = {} /\ "DEFAULT" \in names -> {"DEFAULT"}
          [] "TRUENAS_API_KEY" \in own -> {"TRUENAS_API_KEY"}
          [] OTHER -> IF \E n \in own : own = {n} THEN own ELSE {}
  BY <1>3, <1>4 DEF Selected
<1> HIDE DEF names
<1>7. CASE "TRUENAS_API_KEY" \in names
  <2>1. "TRUENAS_API_KEY" \in own /\ own # {}
    BY <1>7
  <2> QED
    BY <1>5, <1>6, <1>7, <2>1
<1>8. CASE "TRUENAS_API_KEY" \notin names /\ own = {}
  <2>1. "DEFAULT" \in names => names = {"DEFAULT"}
    BY <1>8
  <2>2. "DEFAULT" \notin names => names = {}
    BY <1>8
  <2>3. SectionMeant(lines) = names
    BY <1>5, <1>8
  <2>4. Selected(c.sections, c.order) = IF "DEFAULT" \in names THEN {"DEFAULT"} ELSE {}
    BY <1>6, <1>8
  <2> QED
    BY <2>1, <2>2, <2>3, <2>4
<1>9. CASE "TRUENAS_API_KEY" \notin names /\ own # {}
  <2>1. SectionMeant(lines) = {n \in own : own = {n}}
    BY <1>5, <1>9
  <2>2. Selected(c.sections, c.order) = IF \E n \in own : own = {n} THEN own ELSE {}
    BY <1>6, <1>9
  <2> HIDE DEF own
  <2> QED
    BY <2>1, <2>2
<1> QED
  BY <1>7, <1>8, <1>9

\* What the reader gets from the outcome of the parser.
ReadFrom(config) ==
  IF config.ok THEN [g |-> "file", m |-> [f \in DOMAIN config.data |-> config.data[f].is]] ELSE Bad

\* What it ought to get.
AsDocumented(file) ==
  IF file # Bad /\ "api_key_id" \in DOMAIN file.m /\ file.m["api_key_id"] = NotInt THEN Bad ELSE file

\* The pairs of a section come out as they are, api_key_id if it is a number.
LEMMA PairsGiven ==
  ASSUME NEW pairs, NEW said, said = [key \in DOMAIN said |-> said[key]], Agree(pairs, said)
  PROVE  ReadFrom(Pairs(pairs)) = AsDocumented([g |-> "file", m |-> said])
<1> DEFINE file == [g |-> "file", m |-> said]
<1>1. file.g = "file" /\ file.m = said /\ Bad.g = "error"
  BY DEF Bad
<1>2. file # Bad
  BY <1>1
<1> HIDE DEF file
<1>5. DOMAIN pairs = DOMAIN said /\ \A key \in DOMAIN said : pairs[key] = said[key]
  BY DEF Agree
<1>3. CASE "api_key_id" \in DOMAIN said /\ said["api_key_id"] = NotInt
  <2>1. Pairs(pairs) = Invalid
    BY <1>3, <1>5 DEF Pairs
  <2>2. ReadFrom(Pairs(pairs)) = Bad
    BY <2>1 DEF ReadFrom, Invalid
  <2>3. AsDocumented(file) = Bad
    BY <1>1, <1>2, <1>3 DEF AsDocumented
  <2> QED
    BY <2>2, <2>3 DEF file
<1>4. CASE ~("api_key_id" \in DOMAIN said /\ said["api_key_id"] = NotInt)
  <2>1. Pairs(pairs) = [ok |-> TRUE, data |-> [f \in DOMAIN said |-> IniValue(f, said[f])]]
    BY <1>4, <1>5 DEF Pairs
  <2>2. \A f \in DOMAIN said : IniValue(f, said[f]).is = said[f]
    BY DEF IniValue
  <2> DEFINE data == [f \in DOMAIN said |-> IniValue(f, said[f])]
  <2>3. ReadFrom([ok |-> TRUE, data |-> data]) = [g |-> "file", m |-> [f \in DOMAIN data |-> data[f].is]]
    <3> HIDE DEF data
    <3> QED
      BY DEF ReadFrom
  <2>4. [f \in DOMAIN data |-> data[f].is] = said
    BY <2>2
  <2>5. AsDocumented(file) = file
    BY <1>1, <1>2, <1>4 DEF AsDocumented
  <2> QED
    BY <2>1, <2>3, <2>4, <2>5 DEF file
<1> QED
  BY <1>3, <1>4

\* parseINIKeyConfig does what its documentation says, with a file of any length.
THEOREM FileRead ==
  ASSUME NEW S, NEW lines \in Seq(S)
  PROVE  ReadFrom(ParseIni(lines)) = AsDocumented(FileMeant(lines))
<1> DEFINE c == After(lines)[Len(lines)]
<1>1. Loop(lines, Len(lines), c)
  BY LoopInvariant
<1>2. ParseIni(lines) = IF c.ok THEN OfSection(c.sections, Selected(c.sections, c.order)) ELSE Invalid
  BY DEF ParseIni
<1> HIDE DEF c
<1>3. c.ok \in BOOLEAN /\ (c.ok <=> Readable(lines))
  BY <1>1, AllLines DEF Loop
<1>4. ReadFrom(Invalid) = Bad /\ AsDocumented(Bad) = Bad
  BY DEF ReadFrom, Invalid, AsDocumented
<1>5. CASE c.ok = FALSE
  <2>1. FileMeant(lines) = Bad
    BY <1>3, <1>5 DEF FileMeant
  <2>2. ParseIni(lines) = Invalid
    BY <1>2, <1>5
  <2> QED
    BY <1>4, <2>1, <2>2
<1>6. CASE c.ok = TRUE
  <2> DEFINE selected == SectionMeant(lines)
  <2>1. ParseIni(lines) = OfSection(c.sections, selected)
    BY <1>1, <1>2, <1>6, SectionSelected
  <2>2. CASE selected = {}
    <3>1. FileMeant(lines) = Bad
      BY <2>2 DEF FileMeant
    <3>2. ParseIni(lines) = Invalid
      BY <2>1, <2>2 DEF OfSection
    <3> QED
      BY <1>4, <3>1, <3>2
  <2>3. CASE selected # {}
    <3> DEFINE name == CHOOSE n \in selected : TRUE
               pairs == c.sections[name]
               said == Said(lines, name)
    <3>1. ParseIni(lines) = Pairs(pairs)
      BY <2>1, <2>3 DEF OfSection
    <3>2. FileMeant(lines) = [g |-> "file", m |-> said]
      BY <1>3, <1>6, <2>3 DEF FileMeant
    <3>3. name \in selected
      BY <2>3
    <3>4. selected \subseteq {lines[i].name : i \in Headers(lines)}
      BY DEF SectionMeant
    <3> HIDE DEF name, selected
    <3>5. Agree(pairs, said)
      <4>1. name \in {lines[i].name : i \in Headers(lines)}
        BY <3>3, <3>4
      <4> QED
        BY <1>1, <1>6, <4>1, SectionsSaid
    <3>6. said = [key \in DOMAIN said |-> said[key]]
      BY DEF Said
    <3> HIDE DEF pairs, said
    <3>7. ReadFrom(Pairs(pairs)) = AsDocumented([g |-> "file", m |-> said])
      BY <3>5, <3>6, PairsGiven
    <3> QED
      BY <3>1, <3>2, <3>7
  <2> QED
    BY <2>2, <2>3
<1> QED
  BY <1>3, <1>5, <1>6

-----------------------------------------------------------------------------
(* The specification *)

\* doc stands for a value of which m should be read; is says whether transform has
\* reached all of it.
SentAs(doc, m, is) ==
  \E v \in GoValues :
    \/ doc = Marshal[v] /\ m = Kept(FALSE)[v] /\ is = Reaches[v]
    \/ doc = ServerDocument[v] /\ m = Kept(TRUE)[v] /\ is = TRUE

\* A document on the way, and what its reader has got, if it has looked.
DocumentInv ==
  /\ text.format = "ejson"
  /\ meant = Anything \/ (text.rest = "" /\ SentAs(text.doc, meant, reached))
  /\ got \in {Unread, Unmarshal(text.doc, text.rest)}

\* A key file, and what its reader has got.
FileInv ==
  /\ text.format = "ini" /\ text.lines \in Seq(Lines)
  /\ meant = FileMeant(text.lines)
  /\ got \in {Unread, ReadFrom(ParseIni(text.lines))}

\* The inductive invariant.
FormatsInv == DocumentInv \/ FileInv

\* The two formats are told apart.
LEMMA TextFields ==
  /\ \A doc, rest : /\ Document(doc, rest).format = "ejson"
                    /\ Document(doc, rest).doc = doc /\ Document(doc, rest).rest = rest
  /\ \A lines : KeyText(lines).format = "ini" /\ KeyText(lines).lines = lines
BY DEF Document, KeyText

\* What the client encodes is a document on the way.
LEMMA EncodeSent ==
  ASSUME NEW v \in GoValues, Encode(v)
  PROVE  DocumentInv'
<1>1. text'.format = "ejson" /\ text'.rest = "" /\ text'.doc = Marshal[v]
  BY TextFields DEF Encode
<1>2. SentAs(text'.doc, meant', reached')
  BY <1>1 DEF SentAs, Encode
<1>3. got' = Unread
  BY DEF Encode
<1> QED
  BY <1>1, <1>2, <1>3 DEF DocumentInv

\* The invariant holds initially.
LEMMA FormatsInvInit == Init => FormatsInv
<1> SUFFICES ASSUME Init PROVE FileInv
  BY DEF FormatsInv
<1>1. text.format = "ini" /\ text.lines = <<>> /\ meant = Bad /\ got = Unread
  BY TextFields DEF Init
<1>2. FileMeant(<<>>) = Bad
  <2>1. Headers(<<>>) = {}
    BY DEF Headers
  <2>2. SectionMeant(<<>>) = {}
    BY <2>1 DEF SectionMeant
  <2> QED
    BY <2>2 DEF FileMeant
<1>3. <<>> \in Seq(Lines)
  OBVIOUS
<1> QED
  BY <1>1, <1>2, <1>3 DEF FileInv

\* Every step preserves the invariant; a program sends on a value, because only
\* values are decoded.
LEMMA FormatsInvNext == FormatsInv /\ [Next]_vars => FormatsInv'
<1> SUFFICES ASSUME FormatsInv, [Next]_vars PROVE FormatsInv'
  OBVIOUS
<1>1. CASE \E v \in Values : Blank /\ Encode(v)
  BY <1>1, EncodeSent, FormatsAssumption DEF FormatsInv
<1>2. CASE SendOn
  <2>1. text.format = "ejson" /\ got # Unread /\ got # Bad /\ Encode(got)
    BY <1>2 DEF SendOn
  <2>2. got = Unmarshal(text.doc, text.rest)
    BY <2>1 DEF FormatsInv, DocumentInv, FileInv
  <2>3. text.doc \in Documents /\ got = Revive[text.doc]
    BY <2>1, <2>2 DEF Unmarshal
  <2>4. got \in GoValues
    BY <2>1, <2>3, RevivedIsSendable
  <2> QED
    BY <2>1, <2>4, EncodeSent DEF FormatsInv
<1>3. CASE \E v \in Messages : ServerSends(v)
  <2>1. PICK v \in Messages : ServerSends(v)
    BY <1>3
  <2>2. v \in GoValues
    BY FormatsAssumption
  <2>3. text'.format = "ejson" /\ text'.rest = "" /\ text'.doc = ServerDocument[v]
    BY <2>1, TextFields DEF ServerSends
  <2>4. SentAs(text'.doc, meant', reached')
    BY <2>1, <2>2, <2>3 DEF SentAs, ServerSends
  <2>5. got' = Unread
    BY <2>1 DEF ServerSends
  <2> QED
    BY <2>3, <2>4, <2>5 DEF FormatsInv, DocumentInv
<1>4. CASE \E doc \in Others : SomebodySends(doc)
  <2>1. text'.format = "ejson" /\ meant' = Anything /\ got' = Unread
    <3>1. PICK doc \in Others : SomebodySends(doc)
      BY <1>4
    <3>2. PICK rest \in {"", "]", "x"} : text' = Document(doc, rest)
      BY <3>1 DEF SomebodySends
    <3>3. text'.format = "ejson"
      BY <3>2, TextFields
    <3> QED
      BY <3>1, <3>3 DEF SomebodySends
  <2> QED
    BY <2>1 DEF FormatsInv, DocumentInv
<1>5. CASE \E line \in Lines : AddLine(line)
  <2>1. PICK line \in Lines : AddLine(line)
    BY <1>5
  <2> DEFINE lines == Append(text.lines, line)
  <2>2. text.lines \in Seq(Lines)
    BY <2>1 DEF AddLine, FormatsInv, DocumentInv, FileInv
  <2>3. lines \in Seq(Lines)
    BY <2>2
  <2>4. text' = KeyText(lines) /\ meant' = FileMeant(lines) /\ got' = Unread
    BY <2>1 DEF AddLine
  <2> HIDE DEF lines
  <2>5. text'.format = "ini" /\ text'.lines = lines
    BY <2>4, TextFields
  <2> QED
    BY <2>3, <2>4, <2>5 DEF FormatsInv, FileInv
<1>6. CASE Decode
  <2>1. /\ text.format = "ejson" /\ got' = Unmarshal(text.doc, text.rest)
        /\ text' = text /\ meant' = meant /\ reached' = reached
    BY <1>6 DEF Decode
  <2>2. DocumentInv
    BY <2>1 DEF FormatsInv, FileInv
  <2> QED
    BY <2>1, <2>2 DEF FormatsInv, DocumentInv
<1>7. CASE ReadKey
  <2>1. /\ text.format = "ini" /\ got' = ReadFrom(ParseIni(text.lines))
        /\ text' = text /\ meant' = meant /\ reached' = reached
    BY <1>7 DEF ReadKey, ReadFrom
  <2>2. FileInv
    BY <2>1 DEF FormatsInv, DocumentInv
  <2> QED
    BY <2>1, <2>2 DEF FormatsInv, FileInv
<1>8. CASE UNCHANGED vars
  BY <1>8 DEF FormatsInv, DocumentInv, FileInv, vars
<1> QED
  BY <1>1, <1>2, <1>3, <1>4, <1>5, <1>6, <1>7, <1>8 DEF Next

\* The invariant holds throughout.
THEOREM FormatsInvariant == Spec => []FormatsInv
BY FormatsInvInit, FormatsInvNext, PTL DEF Spec

\* A document that stands for a value is decoded to what was meant if and only if
\* transform has reached all of it.
LEMMA SentIsRead ==
  ASSUME NEW doc, NEW m, NEW is, SentAs(doc, m, is)
  PROVE  IF doc \in Documents THEN Unmarshal(doc, "") = m <=> is ELSE Unmarshal(doc, "") = Bad
<1>1. PICK v \in GoValues : \/ doc = Marshal[v] /\ m = Kept(FALSE)[v] /\ is = Reaches[v]
                            \/ doc = ServerDocument[v] /\ m = Kept(TRUE)[v] /\ is = TRUE
  BY DEF SentAs
<1>2. doc \in Documents => (Revive[doc] = m <=> is)
  BY <1>1, RoundTrip
<1> QED
  BY <1>2 DEF Unmarshal

\* ReadAsMeant: what Unmarshal makes of a document, of this client or of the
\* server, is what was meant, however deep and however often it was sent on, but
\* for values with times or prefixes in typed slices or maps, where it never is.
THEOREM DocumentsReadAsMeant == Spec => []ReadAsMeant
<1>1. FormatsInv => ReadAsMeant
  <2>1. SUFFICES ASSUME FormatsInv, text.format = "ejson", got # Unread, meant # Anything
                 PROVE  IF text.doc \in Documents THEN got = meant <=> reached ELSE got = Bad
    BY DEF ReadAsMeant
  <2>2. DocumentInv
    BY <2>1 DEF FormatsInv, FileInv
  <2>3. text.rest = "" /\ SentAs(text.doc, meant, reached) /\ got = Unmarshal(text.doc, text.rest)
    BY <2>1, <2>2 DEF DocumentInv
  <2>4. IF text.doc \in Documents THEN Unmarshal(text.doc, "") = meant <=> reached
                                  ELSE Unmarshal(text.doc, "") = Bad
    BY <2>3, SentIsRead
  <2>5. got = Unmarshal(text.doc, "")
    BY <2>3
  <2> QED
    BY <2>4, <2>5, Zenon
<1> QED
  BY <1>1, FormatsInvariant, PTL

\* TypedAgrees: UnmarshalJSON of DateTime, Time and Date agree with Unmarshal on
\* every extended value.
THEOREM TypedDecodersAgree == Spec => []TypedAgrees
<1>1. FormatsInv => TypedAgrees
  <2>1. SUFFICES ASSUME FormatsInv, text.format = "ejson", text.rest = "", got # Unread,
                        Extended(text.doc), NEW type \in {"time", "clock", "date"}
                 PROVE  UnmarshalTyped(type, text.doc) = IF got.g = type THEN got ELSE Bad
    BY DEF TypedAgrees
  <2>2. got = Unmarshal(text.doc, "")
    BY <2>1 DEF FormatsInv, FileInv, DocumentInv
  <2>3. CASE text.doc \in Documents
    <3>1. got = Revive[text.doc]
      BY <2>2, <2>3 DEF Unmarshal
    <3> QED
      BY <2>1, <2>3, <3>1, TypedRead
  <2>4. CASE text.doc \notin Documents
    BY <2>2, <2>4 DEF Unmarshal, UnmarshalTyped
  <2> QED
    BY <2>3, <2>4
<1> QED
  BY <1>1, FormatsInvariant, PTL

\* KeyFileAsDocumented: the INI parser gives the pairs of the section its
\* documentation names, and refuses what it should, for files of any length.
THEOREM KeyFilesAsDocumented == Spec => []KeyFileAsDocumented
<1>1. FormatsInv => KeyFileAsDocumented
  <2>1. SUFFICES ASSUME FormatsInv, text.format = "ini", got # Unread PROVE got = AsDocumented(meant)
    BY DEF KeyFileAsDocumented, AsDocumented
  <2>2. /\ text.lines \in Seq(Lines) /\ meant = FileMeant(text.lines)
        /\ got = ReadFrom(ParseIni(text.lines))
    BY <2>1 DEF FormatsInv, FileInv, DocumentInv
  <2> QED
    BY <2>2, FileRead
<1> QED
  BY <1>1, FormatsInvariant, PTL
=============================================================================
