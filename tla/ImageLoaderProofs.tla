--------------------------- MODULE ImageLoaderProofs ---------------------------
(***************************************************************************)
(* The types and the safety of the bitmaps of ImageLoader for any views,   *)
(* keys, files and capacity of the cache, and any number of calls.         *)
(*                                                                         *)
(* The inductive invariant, Sound, has four layers. Base: the types, and   *)
(* that every call leaves room for the two loads it can lead to, so that   *)
(* loads never run out. KeysAreOwn: a key leads to a load of that key.     *)
(* Bitmaps: a load is decoded once, nobody has its bitmap before the main  *)
(* thread does, a bitmap is only shown for its key, and the cache has one  *)
(* of each key. Then the two properties themselves, which need each other: *)
(* a bitmap is recycled when nothing counts it, and it is counted as often *)
(* as it is shown.                                                         *)
(*                                                                         *)
(* On Sound stands a second invariant, Waiting, about who still waits. The *)
(* receivers of a load are tied to the maps that find it and to the tasks  *)
(* and downloads that will end it (Loading), and a view without its image  *)
(* either takes part in a load, is to be shown a bitmap, or its own last   *)
(* task will ask for one (WaitersAreServed).                               *)
(***************************************************************************)
EXTENDS ImageLoader, ListLemmas

-----------------------------------------------------------------------------
(* The types, in groups of variables that change together.                 *)

\* What is said of loads and bitmaps in a task is about ones that exist.
UiTaskOf(S) ==
    [kind : {"decoded"}, load : S, bitmap : S \cup {0}]
        \cup [kind : {"show"}, key : Keys, bitmap : S, views : SUBSET Views]
        \cup [kind : {"file"}, url : Urls, ok : BOOLEAN]

LoaderTaskOf(S) ==
    [kind : {"load"}, view : Views, key : Keys]
        \cup [kind : {"cancel"}, view : Views]
        \cup [kind : {"set"}, load : S, bitmap : S \cup {0}]
        \cup [kind : {"file"}, url : Urls, ok : BOOLEAN]

ViewsTyped ==
    /\ currentKey \in [Views -> Keys \cup {None}]
    /\ currentImage \in [Views -> Created \cup {0}]
    /\ canceledLoading \in [Views -> BOOLEAN]

CacheTyped ==
    /\ lru \in Seq(Created) /\ recycled \subseteq Created
    /\ bitmapUseCounts \in [Keys -> Nat]

MapsTyped ==
    /\ imageLoadingByUrl \in [Urls -> Created \cup {0}]
    /\ imageLoadingByKeys \in [Keys -> Created \cup {0}]
    /\ imageLoadingByTag \in [Views -> Created \cup {0}]

LoadsTyped ==
    /\ key \in [Loads -> Keys \cup {None}] /\ remote \subseteq Created
    /\ receivers \in [Loads -> SUBSET Views]

TasksTyped ==
    /\ uiTasks \in Seq(UiTaskOf(Created)) /\ loaderTasks \in Seq(LoaderTaskOf(Created))

DecoderTyped ==
    /\ decodeTasks \in Seq(Created) /\ decoding \in Created \cup {0}
    /\ isCancelled \subseteq Created

FilesTyped ==
    /\ downloading \subseteq Urls /\ IsFiniteSet(downloading) /\ present \subseteq Urls

HistoryTyped ==
    excused \subseteq Views /\ tainted \subseteq Keys /\ doubled \subseteq Keys

Typed ==
    /\ ViewsTyped /\ CacheTyped /\ MapsTyped /\ LoadsTyped /\ TasksTyped /\ DecoderTyped
    /\ FilesTyped /\ calls \in 0..MaxCalls /\ HistoryTyped

-----------------------------------------------------------------------------
(* The loads.                                                              *)

LoadTasks == [kind : {"load"}, view : Views, key : Keys]
FileTasks == [kind : {"file"}, url : Urls, ok : BOOLEAN]

Count(s, S) == Cardinality({i \in DOMAIN s : s[i] \in S})

\* Loads are numbered as they are created, and each call leaves room for the
\* load it asks for and the one that follows the download.
LoadsAreBounded ==
    /\ Created = 1..Cardinality(Created)
    /\ Cardinality(Created) + 2 * Count(loaderTasks, LoadTasks) + Cardinality(downloading)
           + Count(uiTasks, FileTasks) + Count(loaderTasks, FileTasks) <= 2 * calls

CacheFits == Len(lru) <= Capacity

\* What the types rest on.
Base == Typed /\ LoadsAreBounded /\ CacheFits

\* The map of keys has loads of the key.
KeysAreOwn == \A k \in Keys : imageLoadingByKeys[k] # 0 => key[imageLoadingByKeys[k]] = k

\* A load is decoded once, and if it has a bitmap it is its own ...
DecodedAt(i, c) == uiTasks[i].kind = "decoded" /\ uiTasks[i].load = c

DecodedOnce ==
    /\ IsInjective(decodeTasks) /\ decoding \notin ToSet(decodeTasks)
    /\ \A i \in DOMAIN uiTasks : uiTasks[i].kind = "decoded" =>
           /\ uiTasks[i].load \notin ToSet(decodeTasks) \cup {decoding}
           /\ uiTasks[i].bitmap \in {0, uiTasks[i].load}
    /\ \A i, j \in DOMAIN uiTasks :
           uiTasks[i].kind = "decoded" /\ DecodedAt(j, uiTasks[i].load) => i = j

\* ... and nowhere before the main thread had it.
Undecoded(c) ==
    \/ c \in ToSet(decodeTasks) \/ decoding = c
    \/ \E i \in DOMAIN uiTasks : DecodedAt(i, c)

InUse(b) ==
    \/ b \in ToSet(lru) \/ b \in recycled
    \/ \E v \in Views : currentImage[v] = b
    \/ \E t \in ToSet(uiTasks) : t.kind = "show" /\ t.bitmap = b
    \/ \E t \in ToSet(loaderTasks) : t.kind = "set" /\ t.bitmap = b

BitmapsAreDecoded == \A c \in Created : InUse(c) => ~Undecoded(c)

\* A bitmap is of the key it is shown or handed on for.
BitmapsFit ==
    /\ \A v \in Views : Holds(v) => key[currentImage[v]] = currentKey[v]
    /\ \A t \in ToSet(uiTasks) : t.kind = "show" => key[t.bitmap] = t.key
    /\ \A t \in ToSet(loaderTasks) :
           t.kind = "set" /\ t.bitmap # 0 => key[t.bitmap] = key[t.load]

\* The cache has one bitmap of a key.
CacheIsMap ==
    /\ IsInjective(lru)
    /\ \A a, b \in ToSet(lru) : key[a] = key[b] => a = b

\* What the properties of the bitmaps rest on.
Bitmaps == DecodedOnce /\ BitmapsAreDecoded /\ BitmapsFit /\ CacheIsMap

Sound == Base /\ KeysAreOwn /\ Bitmaps /\ ShownIsAlive /\ CountsAreViews

-----------------------------------------------------------------------------
(* Lists of tasks.                                                         *)

\* A list has finitely many tasks of a kind, and the empty one has none.
LEMMA CountIsFinite ==
    ASSUME NEW A, NEW s \in Seq(A), NEW S
    PROVE  /\ IsFiniteSet({i \in DOMAIN s : s[i] \in S}) /\ Count(s, S) \in Nat
           /\ s = <<>> => Count(s, S) = 0
<1> DEFINE I == {i \in DOMAIN s : s[i] \in S}
<1>1. I \subseteq 1..Len(s) /\ IsFiniteSet(1..Len(s))
  BY FS_Interval
<1>2. IsFiniteSet(I)
  BY <1>1, FS_Subset
<1>3. s = <<>> => I = {}
  OBVIOUS
<1>4. QED
  BY <1>2, <1>3, FS_CardinalityType, FS_EmptySet DEF Count

\* A new task counts if it is of the kind.
LEMMA CountOfAppend ==
    ASSUME NEW A, NEW s \in Seq(A), NEW t \in A, NEW S
    PROVE  /\ Append(s, t) \in Seq(A)
           /\ t \in S => Count(Append(s, t), S) = Count(s, S) + 1
           /\ t \notin S => Count(Append(s, t), S) = Count(s, S)
<1> DEFINE u == Append(s, t)
           I == {i \in DOMAIN s : s[i] \in S}
           J == {i \in DOMAIN u : u[i] \in S}
<1>1. /\ u \in Seq(A) /\ DOMAIN u = 1..(Len(s) + 1) /\ Len(s) \in Nat
      /\ DOMAIN s = 1..Len(s)
      /\ \A i \in 1..Len(s) : u[i] = s[i]
      /\ u[Len(s) + 1] = t
  OBVIOUS
<1> HIDE DEF u
<1>2. \A i \in 1..(Len(s) + 1) : i \in 1..Len(s) \/ i = Len(s) + 1
  BY <1>1
<1>3. /\ t \in S => J = I \cup {Len(s) + 1}
      /\ t \notin S => J = I
  BY <1>1, <1>2
<1>4. Len(s) + 1 \notin I
  BY <1>1
<1>5. IsFiniteSet(I) /\ Cardinality(I) \in Nat
  BY CountIsFinite DEF Count
<1>6. Cardinality(I \cup {Len(s) + 1}) = Cardinality(I) + 1
  <2> HIDE DEF I
  <2>1. QED
    BY <1>4, <1>5, FS_AddElement
<1>7. Count(u, S) = Cardinality(J) /\ Count(s, S) = Cardinality(I)
  BY DEF Count
<1> HIDE DEF I, J
<1>8. t \in S => Count(u, S) = Count(s, S) + 1
  BY <1>3, <1>6, <1>7
<1>9. t \notin S => Count(u, S) = Count(s, S)
  BY <1>3, <1>7
<1>10. QED
  BY <1>1, <1>8, <1>9 DEF u

\* The first task counts if it is of the kind.
LEMMA CountOfTail ==
    ASSUME NEW A, NEW s \in Seq(A), s # <<>>, NEW S
    PROVE  /\ Head(s) \in A /\ Tail(s) \in Seq(A)
           /\ Head(s) \in S => Count(s, S) = Count(Tail(s), S) + 1
           /\ Head(s) \notin S => Count(s, S) = Count(Tail(s), S)
<1> DEFINE u == Tail(s)
           I == {i \in DOMAIN s : s[i] \in S}
           J == {i \in DOMAIN u : u[i] \in S}
           shift == [i \in J |-> i + 1]
<1>1. /\ Head(s) \in A /\ u \in Seq(A) /\ Len(u) = Len(s) - 1
      /\ DOMAIN u = 1..(Len(s) - 1) /\ DOMAIN s = 1..Len(s)
      /\ \A i \in 1..(Len(s) - 1) : u[i] = s[i + 1]
      /\ Len(s) \in Nat \ {0} /\ Head(s) = s[1]
  BY HeadTailProperties, EmptySeq
<1> HIDE DEF u
<1>2. /\ J = {i \in 1..(Len(s) - 1) : s[i + 1] \in S}
      /\ I \ {1} = {i \in 2..Len(s) : s[i] \in S}
      /\ 1 \in I <=> Head(s) \in S
  BY <1>1
<1> HIDE DEF I, J
<1>3. shift \in Bijection(J, I \ {1})
  <2>1. shift \in [J -> I \ {1}]
    BY <1>1, <1>2
  <2>2. \A i, j \in J : shift[i] = shift[j] => i = j
    BY <1>1, <1>2
  <2>3. \A i \in I \ {1} : \E j \in J : shift[j] = i
    <3> SUFFICES ASSUME NEW i \in I \ {1} PROVE \E j \in J : shift[j] = i
      OBVIOUS
    <3>1. i \in 2..Len(s) /\ s[i] \in S
      BY <1>2
    <3>2. i - 1 \in 1..(Len(s) - 1) /\ (i - 1) + 1 = i
      BY <1>1, <3>1
    <3>3. i - 1 \in J
      BY <1>2, <3>1, <3>2
    <3>4. QED
      BY <3>2, <3>3
  <2>4. QED
    BY <2>1, <2>2, <2>3 DEF Bijection, Injection, Surjection, IsInjective
<1>4. IsFiniteSet(I) /\ Cardinality(I) \in Nat /\ IsFiniteSet(J) /\ Cardinality(J) \in Nat
  BY <1>1, CountIsFinite DEF Count, I, J
<1>5. Cardinality(I \ {1}) = IF 1 \in I THEN Cardinality(I) - 1 ELSE Cardinality(I)
  BY <1>4, FS_RemoveElement
<1>6. ExistsBijection(J, I \ {1})
  BY <1>3 DEF ExistsBijection
<1>7. Cardinality(I \ {1}) = Cardinality(J)
  BY <1>4, <1>6, FS_Bijection
<1>8. Count(u, S) = Cardinality(J) /\ Count(s, S) = Cardinality(I)
  BY DEF Count, I, J
<1>9. /\ Head(s) \in S => Count(s, S) = Count(u, S) + 1
      /\ Head(s) \notin S => Count(s, S) = Count(u, S)
  <2>1. CASE 1 \in I
    <3>1. Cardinality(I) = Cardinality(J) + 1
      BY <1>4, <1>5, <1>7, <2>1
    <3>2. QED
      BY <1>2, <1>8, <2>1, <3>1
  <2>2. CASE 1 \notin I
    BY <1>2, <1>5, <1>7, <1>8, <2>2
  <2>3. QED
    BY <2>1, <2>2
<1>10. QED
  BY <1>1, <1>9 DEF u

\* An element of a list is one of its elements' set.
LEMMA InToSet ==
    ASSUME NEW S, NEW s \in Seq(S), NEW x, x \in ToSet(s)
    PROVE  x \in S
BY DEF ToSet

\* A list of elements of a set is one of a larger set.
LEMMA SeqOfMore ==
    ASSUME NEW S, NEW T, S \subseteq T, NEW s \in Seq(S)
    PROVE  s \in Seq(T)
<1>1. s = [i \in 1..Len(s) |-> s[i]] /\ Len(s) \in Nat /\ \A i \in 1..Len(s) : s[i] \in T
  OBVIOUS
<1>2. QED
  BY <1>1

\* What is left of a list is of the same set, and one shorter if it lost one.
LEMMA RemoveFirstFromSeq ==
    ASSUME NEW S, NEW s \in Seq(S), NEW o
    PROVE  /\ RemoveFirst(s, o) \in Seq(S)
           /\ Len(RemoveFirst(s, o)) <= Len(s)
           /\ o \in ToSet(s) => Len(RemoveFirst(s, o)) = Len(s) - 1
<1>1. CASE ~ \E i \in 1..Len(s) : s[i] = o
  BY <1>1 DEF RemoveFirst, ToSet
<1>2. CASE \E i \in 1..Len(s) : s[i] = o
  BY <1>2, RemoveFirstSplits
<1>3. QED
  BY <1>1, <1>2

-----------------------------------------------------------------------------
(* Loads.                                                                  *)

LEMMA LoadsAreNumbers ==
    /\ Created \subseteq Loads /\ 0 \notin Created /\ 0 \notin Loads
    /\ \A c \in Loads : c \in Nat \ {0}
    /\ \A c \in Created : key[c] # None
    /\ MaxCalls \in Nat /\ Capacity \in Nat \ {0} /\ IsFiniteSet(Views)
    /\ UrlOf \in [Keys -> Urls] /\ Local \subseteq Urls /\ None \notin Keys
BY ImageAssumption DEF Created, Loads

\* A load has a key of a file.
LEMMA CreatedHaveKeys ==
    ASSUME Typed, NEW c \in Created
    PROVE  key[c] \in Keys /\ UrlOf[key[c]] \in Urls /\ c \in Loads /\ c # 0
BY LoadsAreNumbers DEF Typed, LoadsTyped

\* Only a load that gets its key is created.
LEMMA SameLoads ==
    ASSUME UNCHANGED key
    PROVE  Created' = Created
BY DEF Created

LEMMA TasksOfMore ==
    ASSUME NEW S, NEW T, S \subseteq T
    PROVE  UiTaskOf(S) \subseteq UiTaskOf(T) /\ LoaderTaskOf(S) \subseteq LoaderTaskOf(T)
BY DEF UiTaskOf, LoaderTaskOf

\* What the bound on loads is made of.
LEMMA CountsAreNumbers ==
    ASSUME Base
    PROVE  /\ IsFiniteSet(Created) /\ Cardinality(Created) \in Nat
           /\ Cardinality(downloading) \in Nat /\ IsFiniteSet(downloading)
           /\ Count(loaderTasks, LoadTasks) \in Nat
           /\ Count(loaderTasks, FileTasks) \in Nat
           /\ Count(uiTasks, FileTasks) \in Nat
           /\ calls \in Nat /\ calls <= MaxCalls
<1>1. Created \subseteq 1..(2 * MaxCalls) /\ 2 * MaxCalls \in Int
  BY ImageAssumption DEF Created, Loads
<1>2. IsFiniteSet(1..(2 * MaxCalls))
  BY <1>1, FS_Interval
<1>3. IsFiniteSet(Created)
  BY <1>1, <1>2, FS_Subset
<1>4. /\ IsFiniteSet(downloading) /\ calls \in 0..MaxCalls
      /\ uiTasks \in Seq(UiTaskOf(Created)) /\ loaderTasks \in Seq(LoaderTaskOf(Created))
  BY DEF Base, Typed, FilesTyped, TasksTyped
<1>5. Count(loaderTasks, LoadTasks) \in Nat /\ Count(loaderTasks, FileTasks) \in Nat
  BY <1>4, CountIsFinite
<1>6. Count(uiTasks, FileTasks) \in Nat
  BY <1>4, CountIsFinite
<1>7. calls \in Nat /\ calls <= MaxCalls
  BY <1>4, ImageAssumption
<1>8. QED
  BY <1>3, <1>4, <1>5, <1>6, <1>7, FS_CardinalityType

\* The first of imageLoadQueue's tasks, by kind.
LEMMA FirstTaskTaken ==
    ASSUME Base, loaderTasks # <<>>
    PROVE  LET t == Head(loaderTasks) IN
           /\ t \in LoaderTaskOf(Created)
           /\ Tail(loaderTasks) \in Seq(LoaderTaskOf(Created))
           /\ t.kind = "load" => t.view \in Views /\ t.key \in Keys
           /\ t.kind = "cancel" => t.view \in Views
           /\ t.kind = "set" => t.load \in Created /\ t.bitmap \in Created \cup {0}
           /\ t.kind = "file" => t.url \in Urls
           /\ Count(Tail(loaderTasks), LoadTasks) \in Nat
           /\ Count(Tail(loaderTasks), FileTasks) \in Nat
           /\ Count(Tail(loaderTasks), LoadTasks) <= Count(loaderTasks, LoadTasks)
           /\ Count(Tail(loaderTasks), FileTasks) <= Count(loaderTasks, FileTasks)
           /\ t.kind = "load" => Count(Tail(loaderTasks), LoadTasks)
                                     = Count(loaderTasks, LoadTasks) - 1
           /\ t.kind = "file" => Count(Tail(loaderTasks), FileTasks)
                                     = Count(loaderTasks, FileTasks) - 1
<1> DEFINE t == Head(loaderTasks)
<1>1. loaderTasks \in Seq(LoaderTaskOf(Created))
  BY DEF Base, Typed, TasksTyped
<1>2. /\ t \in LoaderTaskOf(Created) /\ Tail(loaderTasks) \in Seq(LoaderTaskOf(Created))
      /\ t \in LoadTasks =>
             Count(loaderTasks, LoadTasks) = Count(Tail(loaderTasks), LoadTasks) + 1
      /\ t \notin LoadTasks =>
             Count(loaderTasks, LoadTasks) = Count(Tail(loaderTasks), LoadTasks)
      /\ t \in FileTasks =>
             Count(loaderTasks, FileTasks) = Count(Tail(loaderTasks), FileTasks) + 1
      /\ t \notin FileTasks =>
             Count(loaderTasks, FileTasks) = Count(Tail(loaderTasks), FileTasks)
  BY <1>1, CountOfTail
<1>3. /\ Count(Tail(loaderTasks), LoadTasks) \in Nat
      /\ Count(Tail(loaderTasks), FileTasks) \in Nat
  BY <1>2, CountIsFinite
<1>4. /\ t.kind = "load" => t.view \in Views /\ t.key \in Keys /\ t \in LoadTasks
      /\ t.kind = "cancel" => t.view \in Views
      /\ t.kind = "set" => t.load \in Created /\ t.bitmap \in Created \cup {0}
      /\ t.kind = "file" => t.url \in Urls /\ t \in FileTasks
  <2> HIDE DEF t
  <2>1. QED
    BY <1>2 DEF LoaderTaskOf, LoadTasks, FileTasks
<1>5. QED
  <2> HIDE DEF t
  <2> DEFINE a == Count(loaderTasks, LoadTasks)  b == Count(Tail(loaderTasks), LoadTasks)
             c == Count(loaderTasks, FileTasks)  d == Count(Tail(loaderTasks), FileTasks)
  <2>1. b \in Nat /\ d \in Nat /\ (a = b + 1 \/ a = b) /\ (c = d + 1 \/ c = d)
    BY <1>2, <1>3, Zenon
  <2>2. (t.kind = "load" => a = b + 1) /\ (t.kind = "file" => c = d + 1)
    BY <1>2, <1>4, Zenon
  <2> HIDE DEF a, b, c, d
  <2>3. /\ b <= a /\ d <= c
        /\ t.kind = "load" => b = a - 1
        /\ t.kind = "file" => d = c - 1
    BY <2>1, <2>2
  <2>4. QED
    BY <1>2, <1>3, <1>4, <2>3, Zenon DEF a, b, c, d, t

\* The first of the main thread's tasks, by kind.
LEMMA FirstUiTaken ==
    ASSUME Base, uiTasks # <<>>
    PROVE  LET t == Head(uiTasks) IN
           /\ t \in UiTaskOf(Created)
           /\ Tail(uiTasks) \in Seq(UiTaskOf(Created))
           /\ t.kind = "decoded" => t.load \in Created /\ t.bitmap \in Created \cup {0}
           /\ t.kind = "show" => /\ t.key \in Keys /\ t.bitmap \in Created
                                 /\ t.views \subseteq Views
           /\ t.kind = "file" => t \in FileTasks
           /\ Count(Tail(uiTasks), FileTasks) \in Nat
           /\ Count(Tail(uiTasks), FileTasks) <= Count(uiTasks, FileTasks)
           /\ t.kind = "file" => Count(Tail(uiTasks), FileTasks)
                                     = Count(uiTasks, FileTasks) - 1
<1> DEFINE t == Head(uiTasks)
<1>1. uiTasks \in Seq(UiTaskOf(Created))
  BY DEF Base, Typed, TasksTyped
<1>2. /\ t \in UiTaskOf(Created) /\ Tail(uiTasks) \in Seq(UiTaskOf(Created))
      /\ t \in FileTasks => Count(uiTasks, FileTasks) = Count(Tail(uiTasks), FileTasks) + 1
      /\ t \notin FileTasks => Count(uiTasks, FileTasks) = Count(Tail(uiTasks), FileTasks)
  BY <1>1, CountOfTail
<1>3. Count(Tail(uiTasks), FileTasks) \in Nat
  BY <1>2, CountIsFinite
<1>4. /\ t.kind = "decoded" => t.load \in Created /\ t.bitmap \in Created \cup {0}
      /\ t.kind = "show" => /\ t.key \in Keys /\ t.bitmap \in Created
                            /\ t.views \subseteq Views
      /\ t.kind = "file" => t \in FileTasks
  <2> HIDE DEF t
  <2>1. QED
    BY <1>2 DEF UiTaskOf, FileTasks
<1>5. QED
  <2> HIDE DEF t
  <2> DEFINE c == Count(uiTasks, FileTasks)  d == Count(Tail(uiTasks), FileTasks)
  <2>1. d \in Nat /\ (c = d + 1 \/ c = d) /\ (t.kind = "file" => c = d + 1)
    BY <1>2, <1>3, <1>4, Zenon
  <2> HIDE DEF c, d
  <2>2. d <= c /\ (t.kind = "file" => d = c - 1)
    BY <2>1
  <2>3. QED
    BY <1>2, <1>3, <1>4, <2>2, Zenon DEF c, d, t

-----------------------------------------------------------------------------
(* The operators of the cache.                                             *)

\* What is found in the cache is there, and of the key.
LEMMA CachedIsThere ==
    ASSUME NEW s \in Seq(Created), NEW k
    PROVE  \/ Cached(s, k) = 0 /\ \A b \in ToSet(s) : key[b] # k
           \/ /\ Cached(s, k) \in ToSet(s) /\ Cached(s, k) \in Created
              /\ Cached(s, k) # 0 /\ key[Cached(s, k)] = k
<1>1. CASE \E b \in ToSet(s) : key[b] = k
  <2>1. Cached(s, k) \in ToSet(s) /\ key[Cached(s, k)] = k
    BY <1>1 DEF Cached
  <2>2. Cached(s, k) \in Created
    BY <2>1, InToSet
  <2>3. QED
    BY <2>1, <2>2, LoadsAreNumbers
<1>2. CASE ~ \E b \in ToSet(s) : key[b] = k
  BY <1>2 DEF Cached
<1>3. QED
  BY <1>1, <1>2

\* A use of an entry moves it.
LEMMA TouchTyped ==
    ASSUME NEW s \in Seq(Created), NEW k
    PROVE  Touch(s, k) \in Seq(Created) /\ Len(Touch(s, k)) = Len(s)
<1>1. CASE Cached(s, k) = 0
  BY <1>1 DEF Touch
<1>2. CASE Cached(s, k) # 0
  <2> DEFINE b == Cached(s, k)
             r == RemoveFirst(s, b)
  <2>1. b \in ToSet(s) /\ b \in Created
    BY <1>2, CachedIsThere
  <2>2. r \in Seq(Created) /\ Len(r) = Len(s) - 1
    BY <2>1, RemoveFirstFromSeq
  <2>3. Touch(s, k) = Append(r, b)
    BY <1>2 DEF Touch
  <2> HIDE DEF r, b
  <2>4. Append(r, b) \in Seq(Created) /\ Len(Append(r, b)) = Len(r) + 1 /\ Len(s) \in Nat
    BY <2>1, <2>2
  <2>5. QED
    BY <2>2, <2>3, <2>4
<1>3. QED
  BY <1>1, <1>2

\* So much for the cache that is left when one is put into it.
LEMMA TrimmedTyped ==
    ASSUME NEW s \in Seq(Created), NEW b \in Created, Len(s) <= Capacity
    PROVE  LET t == Trimmed(Append(s, b)) IN t \in Seq(Created) /\ Len(t) <= Capacity
<1> DEFINE p == Append(s, b)
<1>1. p \in Seq(Created) /\ Len(p) = Len(s) + 1 /\ Len(s) \in Nat /\ p # <<>>
  OBVIOUS
<1>2. Capacity \in Nat \ {0}
  BY ImageAssumption
<1> HIDE DEF p
<1>3. Tail(p) \in Seq(Created) /\ Len(Tail(p)) = Len(p) - 1
  BY <1>1, HeadTailProperties
<1>4. Trimmed(p) \in Seq(Created) /\ Len(Trimmed(p)) <= Capacity
  BY <1>1, <1>2, <1>3 DEF Trimmed
<1>5. QED
  BY <1>4 DEF p

-----------------------------------------------------------------------------
(* The views' acts keep the types.                                         *)

\* What is put on imageLoadQueue, if anything.
Queued == \E t \in LoaderTaskOf(Created) : loaderTasks' = Append(loaderTasks, t)

\* What every act of the main thread on a view leaves behind.
ActTyped ==
    /\ ViewsTyped' /\ CacheTyped' /\ CacheFits' /\ HistoryTyped'
    /\ UNCHANGED <<maps, images, uiTasks, decoder, files>>
    /\ calls < MaxCalls /\ calls' = calls + 1
    /\ loaderTasks' = loaderTasks \/ Queued

LEMMA ActKeepsBase ==
    ASSUME Base, ActTyped
    PROVE  Base'
<1>1. Created' = Created
  BY SameLoads DEF ActTyped, images
<1>2. MapsTyped' /\ LoadsTyped' /\ DecoderTyped' /\ FilesTyped'
  BY <1>1 DEF ActTyped, Base, Typed, MapsTyped, LoadsTyped, DecoderTyped, FilesTyped, maps,
              images, decoder, files
<1>3. /\ Count(loaderTasks', LoadTasks) \in Nat /\ Count(loaderTasks', FileTasks) \in Nat
      /\ Count(loaderTasks', LoadTasks) <= Count(loaderTasks, LoadTasks) + 1
      /\ Count(loaderTasks', FileTasks) <= Count(loaderTasks, FileTasks)
                                            + 2 * (Count(loaderTasks, LoadTasks) + 1
                                                     - Count(loaderTasks', LoadTasks))
      /\ loaderTasks' \in Seq(LoaderTaskOf(Created))
  <2>1. /\ loaderTasks \in Seq(LoaderTaskOf(Created))
        /\ Count(loaderTasks, LoadTasks) \in Nat /\ Count(loaderTasks, FileTasks) \in Nat
    BY CountsAreNumbers DEF Base, Typed, TasksTyped
  <2>2. CASE loaderTasks' = loaderTasks
    BY <2>1, <2>2
  <2>3. CASE Queued
    <3>1. PICK t \in LoaderTaskOf(Created) : loaderTasks' = Append(loaderTasks, t)
      BY <2>3 DEF Queued
    <3>2. t \in LoadTasks => t \notin FileTasks
      BY DEF LoadTasks, FileTasks
    <3>3. /\ loaderTasks' \in Seq(LoaderTaskOf(Created))
          /\ t \in LoadTasks => Count(loaderTasks', LoadTasks) = Count(loaderTasks, LoadTasks) + 1
          /\ t \notin LoadTasks => Count(loaderTasks', LoadTasks) = Count(loaderTasks, LoadTasks)
          /\ t \in FileTasks => Count(loaderTasks', FileTasks) = Count(loaderTasks, FileTasks) + 1
          /\ t \notin FileTasks => Count(loaderTasks', FileTasks) = Count(loaderTasks, FileTasks)
      BY <2>1, <3>1, CountOfAppend
    <3> DEFINE a == Count(loaderTasks, LoadTasks)  b == Count(loaderTasks', LoadTasks)
               c == Count(loaderTasks, FileTasks)  d == Count(loaderTasks', FileTasks)
    <3>4. \/ b = a + 1 /\ d = c
          \/ b = a /\ d = c + 1
          \/ b = a /\ d = c
      BY <3>2, <3>3, Zenon
    <3>5. a \in Nat /\ c \in Nat
      BY <2>1
    <3> HIDE DEF a, b, c, d
    <3>6. b \in Nat /\ d \in Nat /\ b <= a + 1 /\ d <= c + 2 * (a + 1 - b)
      BY <3>4, <3>5
    <3>7. QED
      BY <3>3, <3>6, Zenon DEF a, b, c, d
  <2>4. QED
    BY <2>2, <2>3 DEF ActTyped
<1>4. TasksTyped'
  BY <1>1, <1>3 DEF ActTyped, Base, Typed, TasksTyped
<1>5. calls' \in 0..MaxCalls
  BY CountsAreNumbers, ImageAssumption DEF ActTyped
<1>6. LoadsAreBounded'
  <2> DEFINE a == Count(loaderTasks, LoadTasks)  b == Count(loaderTasks', LoadTasks)
             c == Count(loaderTasks, FileTasks)  d == Count(loaderTasks', FileTasks)
             n == Cardinality(Created)  m == Cardinality(downloading)
             u == Count(uiTasks, FileTasks)
  <2>1. /\ a \in Nat /\ b \in Nat /\ c \in Nat /\ d \in Nat /\ n \in Nat /\ m \in Nat
        /\ u \in Nat /\ calls \in Nat
        /\ b <= a + 1 /\ d <= c + 2 * (a + 1 - b)
    BY <1>3, CountsAreNumbers
  <2>2. Created = 1..n /\ n + 2 * a + m + u + c <= 2 * calls
    BY DEF Base, LoadsAreBounded
  <2>3. uiTasks' = uiTasks /\ downloading' = downloading /\ calls' = calls + 1
    BY DEF ActTyped, files
  <2>4. LoadsAreBounded' <=> /\ Created = 1..n
                             /\ n + 2 * b + m + u + d <= 2 * (calls + 1)
    BY <1>1, <2>3 DEF LoadsAreBounded
  <2> HIDE DEF a, b, c, d, n, m, u
  <2>5. n + 2 * b + m + u + d <= 2 * (calls + 1)
    BY <2>1, <2>2
  <2>6. QED
    BY <2>2, <2>4, <2>5
<1>7. QED
  BY <1>2, <1>4, <1>5, <1>6 DEF Base, Typed, ActTyped

\* A view gives up its image.
LEMMA ReleaseTyped ==
    ASSUME Base, NEW v \in Views, Holds(v)
    PROVE  /\ currentKey[v] \in Keys /\ currentImage[v] \in Created
           /\ DecrementUseCount(currentKey[v]) \in [Keys -> Nat]
           /\ Touch(lru, currentKey[v]) \in Seq(Created)
           /\ Len(Touch(lru, currentKey[v])) = Len(lru)
           /\ recycled \cup Released(v) \subseteq Created
<1>1. /\ currentKey[v] \in Keys /\ currentImage[v] \in Created /\ lru \in Seq(Created)
      /\ bitmapUseCounts \in [Keys -> Nat] /\ recycled \subseteq Created
  BY DEF Base, Typed, ViewsTyped, CacheTyped, Holds
<1>2. DecrementUseCount(currentKey[v]) \in [Keys -> Nat]
  BY <1>1 DEF DecrementUseCount
<1>3. QED
  BY <1>1, <1>2, TouchTyped DEF Released

\* A view asks for an image.
LEMMA LoadTyped ==
    ASSUME Base, NEW v \in Views, NEW k \in Keys, NEW s \in Seq(Created),
           NEW counts \in [Keys -> Nat], Load(v, k, s, counts),
           canceledLoading' = canceledLoading, UNCHANGED images
    PROVE  /\ ViewsTyped' /\ lru' \in Seq(Created) /\ Len(lru') = Len(s)
           /\ bitmapUseCounts' \in [Keys -> Nat] /\ Queued
<1>1. Created' = Created
  BY SameLoads DEF images
<1>2. Cached(s, k) \in Created \cup {0}
  BY CachedIsThere
<1>3. ViewsTyped'
  BY <1>1, <1>2 DEF Load, Base, Typed, ViewsTyped
<1>4. lru' \in Seq(Created) /\ Len(lru') = Len(s)
  BY TouchTyped DEF Load
<1>5. bitmapUseCounts' \in [Keys -> Nat]
  BY DEF Load
<1>6. LoadTask(v, k) \in LoaderTaskOf(Created) /\ CancelTask(v) \in LoaderTaskOf(Created)
  BY DEF LoadTask, CancelTask, LoaderTaskOf
<1>7. Queued
  BY <1>6 DEF Load, Queued
<1>8. QED
  BY <1>3, <1>4, <1>5, <1>7

LEMMA SetImageTyped ==
    ASSUME Base, NEW v \in Views, NEW k \in Keys, SetImage(v, k)
    PROVE  ActTyped
<1>1. Created' = Created
  BY SameLoads DEF SetImage, images
<1>2. /\ lru \in Seq(Created) /\ recycled \subseteq Created /\ Len(lru) <= Capacity
      /\ bitmapUseCounts \in [Keys -> Nat]
  BY DEF Base, Typed, CacheTyped, CacheFits
<1>3. HistoryTyped'
  BY DEF SetImage, Base, Typed, HistoryTyped
<1>4. canceledLoading' = canceledLoading /\ UNCHANGED images
  BY DEF SetImage
<1>5. /\ ViewsTyped' /\ lru' \in Seq(Created) /\ Len(lru') = Len(lru)
      /\ bitmapUseCounts' \in [Keys -> Nat] /\ Queued /\ recycled' \subseteq Created
  <2>1. CASE Holds(v)
    <3>1. /\ recycled' = recycled \cup Released(v)
          /\ Load(v, k, Touch(lru, currentKey[v]), DecrementUseCount(currentKey[v]))
      BY <2>1 DEF SetImage
    <3>2. /\ DecrementUseCount(currentKey[v]) \in [Keys -> Nat]
          /\ Touch(lru, currentKey[v]) \in Seq(Created)
          /\ Len(Touch(lru, currentKey[v])) = Len(lru)
          /\ recycled \cup Released(v) \subseteq Created
      BY <2>1, ReleaseTyped
    <3>3. QED
      BY <1>4, <3>1, <3>2, LoadTyped
  <2>2. CASE ~Holds(v)
    <3>1. Load(v, k, lru, bitmapUseCounts) /\ recycled' = recycled
      BY <2>2 DEF SetImage
    <3>2. QED
      BY <1>2, <1>4, <3>1, LoadTyped
  <2>3. QED
    BY <2>1, <2>2
<1>6. CacheTyped' /\ CacheFits'
  BY <1>1, <1>2, <1>5 DEF CacheTyped, CacheFits
<1>7. QED
  BY <1>3, <1>5, <1>6 DEF ActTyped, SetImage, Call

LEMMA SetImageAgainTyped ==
    ASSUME Base, NEW v \in Views, SetImageAgain(v)
    PROVE  ActTyped
<1>1. Created' = Created
  BY SameLoads DEF SetImageAgain, images
<1>2. /\ lru \in Seq(Created) /\ recycled \subseteq Created /\ Len(lru) <= Capacity
      /\ bitmapUseCounts \in [Keys -> Nat] /\ currentKey[v] \in Keys
  BY DEF Base, Typed, CacheTyped, CacheFits, ViewsTyped, SetImageAgain
<1>3. HistoryTyped'
  BY <1>2 DEF SetImageAgain, Base, Typed, HistoryTyped
<1>4. /\ ViewsTyped' /\ lru' \in Seq(Created) /\ Len(lru') = Len(lru)
      /\ bitmapUseCounts' \in [Keys -> Nat] /\ Queued
  BY <1>2, LoadTyped DEF SetImageAgain
<1>5. CacheTyped' /\ CacheFits'
  BY <1>1, <1>2, <1>4 DEF CacheTyped, CacheFits, SetImageAgain
<1>6. QED
  BY <1>3, <1>4, <1>5 DEF ActTyped, SetImageAgain, Call

LEMMA ClearImageTyped ==
    ASSUME Base, NEW v \in Views, NEW detached \in BOOLEAN, ClearImage(v, detached)
    PROVE  ActTyped
<1>1. Created' = Created
  BY SameLoads DEF ClearImage, images
<1>2. ViewsTyped' /\ HistoryTyped'
  BY <1>1 DEF ClearImage, Base, Typed, ViewsTyped, HistoryTyped, history
<1>3. CacheTyped' /\ CacheFits'
  <2>1. CASE Holds(v)
    <3>1. /\ lru' \in Seq(Created) /\ Len(lru') = Len(lru)
          /\ bitmapUseCounts' \in [Keys -> Nat] /\ recycled' \subseteq Created
      BY <2>1, ReleaseTyped DEF ClearImage, Release
    <3>2. QED
      BY <1>1, <3>1 DEF CacheTyped, CacheFits, Base
  <2>2. CASE ~Holds(v)
    BY <1>1, <2>2 DEF ClearImage, Release, cache, Base, Typed, CacheTyped, CacheFits
  <2>3. QED
    BY <2>1, <2>2
<1>4. CancelTask(v) \in LoaderTaskOf(Created)
  BY DEF CancelTask, LoaderTaskOf
<1>5. loaderTasks' = loaderTasks \/ Queued
  BY <1>4 DEF ClearImage, Queued
<1>6. QED
  BY <1>2, <1>3, <1>5 DEF ActTyped, ClearImage, Call

LEMMA CancelLoadImageTyped ==
    ASSUME Base, NEW v \in Views, CancelLoadImage(v)
    PROVE  ActTyped
<1>1. Created' = Created
  BY SameLoads DEF CancelLoadImage, images
<1>2. ViewsTyped' /\ HistoryTyped' /\ CacheTyped' /\ CacheFits'
  BY <1>1 DEF CancelLoadImage, Base, Typed, ViewsTyped, HistoryTyped, CacheTyped, CacheFits,
              cache
<1>3. CancelTask(v) \in LoaderTaskOf(Created)
  BY DEF CancelTask, LoaderTaskOf
<1>4. Queued
  BY <1>3 DEF CancelLoadImage, Queued
<1>5. QED
  BY <1>2, <1>4 DEF ActTyped, CancelLoadImage, Call

LEMMA DrawErrorTyped ==
    ASSUME Base, NEW v \in Views, DrawError(v)
    PROVE  ActTyped
<1> DEFINE k == currentKey[v]
           b == Cached(lru, k)
<1>1. Created' = Created
  BY SameLoads DEF DrawError, images
<1>2. /\ lru \in Seq(Created) /\ recycled \subseteq Created /\ Len(lru) <= Capacity
      /\ bitmapUseCounts \in [Keys -> Nat] /\ k \in Keys
  BY DEF Base, Typed, CacheTyped, CacheFits, ViewsTyped, DrawError, Holds
<1>3. ViewsTyped' /\ HistoryTyped'
  BY <1>1 DEF DrawError, Base, Typed, ViewsTyped, HistoryTyped
<1>4. b \in Created \cup {0}
  BY <1>2, CachedIsThere
<1>5. RemoveFirst(lru, b) \in Seq(Created) /\ Len(RemoveFirst(lru, b)) <= Len(lru)
  BY <1>2, RemoveFirstFromSeq
<1>6. /\ lru' = RemoveFirst(lru, b) /\ recycled' = recycled \cup ({b} \ {0})
      /\ bitmapUseCounts' = [bitmapUseCounts EXCEPT ![k] = 0]
      /\ loaderTasks' = Append(loaderTasks, LoadTask(v, k))
  BY DEF DrawError
<1>7. LoadTask(v, k) \in LoaderTaskOf(Created)
  BY <1>2 DEF LoadTask, LoaderTaskOf
<1> HIDE DEF k, b
<1>8. lru' \in Seq(Created) /\ Len(lru') <= Capacity
  <2>1. Len(lru) \in Nat /\ Len(RemoveFirst(lru, b)) \in Nat /\ Capacity \in Nat
    BY <1>2, <1>5, LoadsAreNumbers
  <2>2. QED
    BY <1>2, <1>5, <1>6, <2>1
<1>9. CacheTyped' /\ CacheFits'
  BY <1>1, <1>2, <1>4, <1>6, <1>8 DEF CacheTyped, CacheFits
<1>10. Queued
  BY <1>6, <1>7 DEF Queued
<1>11. QED
  BY <1>3, <1>9, <1>10 DEF ActTyped, DrawError, Call

LEMMA ClearMemoryTyped ==
    ASSUME Base, ClearMemory
    PROVE  ActTyped
<1>1. Created' = Created
  BY SameLoads DEF ClearMemory, images
<1>2. ViewsTyped' /\ HistoryTyped'
  BY <1>1 DEF ClearMemory, Base, Typed, ViewsTyped, HistoryTyped, views, history
<1>3. lru \in Seq(Created) /\ recycled \subseteq Created
  BY DEF Base, Typed, CacheTyped
<1>4. Unused(ToSet(lru), bitmapUseCounts) \subseteq Created
  BY <1>3, InToSet DEF Unused
<1>5. CacheTyped'
  BY <1>1, <1>3, <1>4 DEF ClearMemory, Base, Typed, CacheTyped
<1>6. CacheFits'
  BY LoadsAreNumbers DEF ClearMemory, CacheFits
<1>7. QED
  BY <1>2, <1>5, <1>6 DEF ActTyped, ClearMemory, Call

-----------------------------------------------------------------------------
(* imageLoadQueue keeps the types.                                         *)

\* A load of which a view is taken out.
LEMMA WithoutTyped ==
    ASSUME Base, NEW c \in Created \cup {0}, NEW v \in Views
    PROVE  /\ Without(c, v) \in [Loads -> SUBSET Views]
           /\ UrlsWithout(c, v) \in [Urls -> Created \cup {0}]
           /\ KeysWithout(c, v) \in [Keys -> Created \cup {0}]
           /\ DecodesWithout(c, v) \in Seq(Created)
           /\ CancelsWith(c, v) \subseteq Created
           /\ DownloadsWithout(c, v) \subseteq Urls
           /\ IsFiniteSet(DownloadsWithout(c, v))
           /\ Cardinality(DownloadsWithout(c, v)) \in Nat
           /\ Cardinality(DownloadsWithout(c, v)) <= Cardinality(downloading)
<1>1. /\ receivers \in [Loads -> SUBSET Views] /\ decodeTasks \in Seq(Created)
      /\ isCancelled \subseteq Created /\ downloading \subseteq Urls
      /\ imageLoadingByUrl \in [Urls -> Created \cup {0}]
      /\ imageLoadingByKeys \in [Keys -> Created \cup {0}]
      /\ IsFiniteSet(downloading) /\ Cardinality(downloading) \in Nat
  BY CountsAreNumbers DEF Base, Typed, LoadsTyped, DecoderTyped, FilesTyped, MapsTyped
<1>2. Without(c, v) \in [Loads -> SUBSET Views]
  BY <1>1 DEF Without
<1>3. /\ UrlsWithout(c, v) \in [Urls -> Created \cup {0}]
      /\ KeysWithout(c, v) \in [Keys -> Created \cup {0}]
  BY <1>1 DEF UrlsWithout, KeysWithout
<1>4. DecodesWithout(c, v) \in Seq(Created)
  BY <1>1, RemoveFirstFromSeq DEF DecodesWithout
<1>5. CancelsWith(c, v) \subseteq Created
  BY <1>1 DEF CancelsWith, Drops
<1>6. DownloadsWithout(c, v) \in SUBSET downloading
  BY DEF DownloadsWithout
<1>7. /\ IsFiniteSet(DownloadsWithout(c, v))
      /\ Cardinality(DownloadsWithout(c, v)) \in Nat
      /\ Cardinality(DownloadsWithout(c, v)) <= Cardinality(downloading)
  BY <1>1, <1>6, FS_Subset, FS_CardinalityType
<1>8. QED
  BY <1>1, <1>2, <1>3, <1>4, <1>5, <1>6, <1>7

\* What a task of the queue that creates no load leaves behind.
TaskTyped ==
    /\ MapsTyped' /\ LoadsTyped' /\ DecoderTyped' /\ FilesTyped' /\ HistoryTyped'
    /\ UNCHANGED <<views, cache, key, calls>>
    /\ loaderTasks # <<>> /\ loaderTasks' = Tail(loaderTasks)
    /\ Cardinality(downloading') \in Nat
    /\ Cardinality(downloading') <= Cardinality(downloading)
    /\ uiTasks' \in Seq(UiTaskOf(Created))
    /\ Count(uiTasks', FileTasks) = Count(uiTasks, FileTasks)

LEMMA TaskKeepsBase ==
    ASSUME Base, TaskTyped
    PROVE  Base'
<1>1. Created' = Created
  BY SameLoads DEF TaskTyped
<1>2. ViewsTyped' /\ CacheTyped' /\ CacheFits'
  BY <1>1 DEF TaskTyped, Base, Typed, ViewsTyped, CacheTyped, CacheFits, views, cache
<1>3. TasksTyped'
  BY <1>1, FirstTaskTaken DEF TaskTyped, TasksTyped
<1>4. calls' \in 0..MaxCalls
  BY DEF TaskTyped, Base, Typed
<1>5. LoadsAreBounded'
  <2> DEFINE a == Count(loaderTasks, LoadTasks)  b == Count(loaderTasks', LoadTasks)
             c == Count(loaderTasks, FileTasks)  d == Count(loaderTasks', FileTasks)
             n == Cardinality(Created)  m == Cardinality(downloading)
             l == Cardinality(downloading')  u == Count(uiTasks, FileTasks)
  <2>1. /\ a \in Nat /\ c \in Nat /\ n \in Nat /\ m \in Nat /\ u \in Nat /\ calls \in Nat
    BY CountsAreNumbers
  <2>2. b \in Nat /\ d \in Nat /\ b <= a /\ d <= c
    BY FirstTaskTaken DEF TaskTyped
  <2>3. Created = 1..n /\ n + 2 * a + m + u + c <= 2 * calls
    BY DEF Base, LoadsAreBounded
  <2>4. /\ l \in Nat /\ l <= m
        /\ LoadsAreBounded' <=> /\ Created = 1..n
                                /\ n + 2 * b + l + u + d <= 2 * calls
    BY <1>1 DEF TaskTyped, LoadsAreBounded
  <2> HIDE DEF a, b, c, d, n, m, l, u
  <2>5. n + 2 * b + l + u + d <= 2 * calls
    BY <2>1, <2>2, <2>3, <2>4
  <2>6. QED
    BY <2>3, <2>4, <2>5
<1>6. QED
  BY <1>2, <1>3, <1>4, <1>5 DEF Base, Typed, TaskTyped

\* What such a task leaves alone.
LEMMA TaskFrame ==
    ASSUME Base
    PROVE  /\ uiTasks \in Seq(UiTaskOf(Created))
           /\ Cardinality(downloading) \in Nat
           /\ Cardinality(downloading) <= Cardinality(downloading)
<1>1. Cardinality(downloading) \in Nat
  BY CountsAreNumbers
<1>2. QED
  BY <1>1 DEF Base, Typed, TasksTyped

LEMMA CancelLoadingTyped ==
    ASSUME Base, CancelLoading
    PROVE  TaskTyped
<1>1. Created' = Created
  BY SameLoads DEF CancelLoading
<1>2. Head(loaderTasks).view \in Views /\ loaderTasks # <<>>
  BY FirstTaskTaken DEF CancelLoading, FirstTask
<1>3. PICK v \in Views : v = Head(loaderTasks).view
  BY <1>2
<1>4. PICK c \in Created \cup {0} : c = imageLoadingByTag[v]
  BY DEF Base, Typed, MapsTyped
<1>5. /\ receivers' = Without(c, v) /\ imageLoadingByUrl' = UrlsWithout(c, v)
      /\ imageLoadingByKeys' = KeysWithout(c, v) /\ decodeTasks' = DecodesWithout(c, v)
      /\ isCancelled' = CancelsWith(c, v) /\ downloading' = DownloadsWithout(c, v)
      /\ imageLoadingByTag' = [imageLoadingByTag EXCEPT ![v] = 0]
      /\ loaderTasks' = Tail(loaderTasks)
      /\ UNCHANGED <<key, remote, uiTasks, decoding, present, excused>> /\ LoaderFrame
  BY <1>3, <1>4 DEF CancelLoading
<1>6. MapsTyped' /\ LoadsTyped' /\ DecoderTyped' /\ FilesTyped' /\ HistoryTyped'
  BY <1>1, <1>5, WithoutTyped DEF Base, Typed, MapsTyped, LoadsTyped, DecoderTyped,
                                  FilesTyped, HistoryTyped, LoaderFrame
<1>7. /\ Cardinality(downloading') \in Nat
      /\ Cardinality(downloading') <= Cardinality(downloading)
  BY <1>5, WithoutTyped
<1>8. QED
  BY <1>2, <1>5, <1>6, <1>7, TaskFrame DEF TaskTyped, LoaderFrame

LEMMA AlreadyAddedTyped ==
    ASSUME Base, AlreadyAdded
    PROVE  TaskTyped
<1>1. Created' = Created
  BY SameLoads DEF AlreadyAdded, images
<1>2. Head(loaderTasks).view \in Views /\ loaderTasks # <<>>
  BY FirstTaskTaken DEF AlreadyAdded, FirstTask
<1>3. MapsTyped' /\ LoadsTyped' /\ DecoderTyped' /\ FilesTyped'
  BY <1>1 DEF AlreadyAdded, Base, Typed, MapsTyped, LoadsTyped, DecoderTyped, FilesTyped,
              maps, images, decoder, files
<1>4. HistoryTyped'
  BY <1>2 DEF AlreadyAdded, Base, Typed, HistoryTyped, LoaderFrame
<1>5. QED
  BY <1>2, <1>3, <1>4, TaskFrame DEF TaskTyped, AlreadyAdded, LoaderFrame, images, files

LEMMA SetImageAndClearTyped ==
    ASSUME Base, loaderTasks # <<>>, NEW c \in Created, NEW b \in Created \cup {0},
           SetImageAndClear(c, b)
    PROVE  TaskTyped
<1>1. Created' = Created
  BY SameLoads DEF SetImageAndClear
<1>2. key[c] \in Keys /\ c \in Loads /\ receivers[c] \in SUBSET Views
  BY CreatedHaveKeys DEF Base, Typed, LoadsTyped
<1>3. MapsTyped' /\ LoadsTyped' /\ DecoderTyped' /\ FilesTyped'
  BY <1>1 DEF SetImageAndClear, Base, Typed, MapsTyped, LoadsTyped, DecoderTyped, FilesTyped,
              decoder, files
<1>4. HistoryTyped'
  BY <1>2 DEF SetImageAndClear, Base, Typed, HistoryTyped, LoaderFrame
<1>5. /\ uiTasks' \in Seq(UiTaskOf(Created))
      /\ Count(uiTasks', FileTasks) = Count(uiTasks, FileTasks)
  <2>1. uiTasks \in Seq(UiTaskOf(Created))
    BY DEF Base, Typed, TasksTyped
  <2>2. CASE b = 0
    BY <2>1, <2>2 DEF SetImageAndClear
  <2>3. CASE b # 0
    <3>1. PICK t : t = ShowTask(key[c], b, receivers[c])
      OBVIOUS
    <3>2. t \in UiTaskOf(Created) /\ t \notin FileTasks
      BY <1>2, <2>3, <3>1 DEF ShowTask, UiTaskOf, FileTasks
    <3>3. uiTasks' = Append(uiTasks, t)
      BY <2>3, <3>1 DEF SetImageAndClear
    <3>4. QED
      BY <2>1, <3>2, <3>3, CountOfAppend
  <2>4. QED
    BY <2>2, <2>3
<1>6. QED
  BY <1>3, <1>4, <1>5, TaskFrame DEF TaskTyped, SetImageAndClear, LoaderFrame, files

LEMMA FileDidFailedLoadTyped ==
    ASSUME Base, FileDidFailedLoad
    PROVE  TaskTyped
<1>1. loaderTasks # <<>> /\ Head(loaderTasks).url \in Urls
  BY FirstTaskTaken DEF FileDidFailedLoad, FirstTask
<1>2. PICK c \in Created \cup {0} : c = imageLoadingByUrl[Head(loaderTasks).url]
  BY <1>1 DEF Base, Typed, MapsTyped
<1>3. CASE c # 0 /\ SetImageAndClear(c, 0)
  BY <1>1, <1>3, SetImageAndClearTyped
<1>4. CASE /\ loaderTasks' = Tail(loaderTasks)
           /\ UNCHANGED <<maps, images, uiTasks, decoder, files, excused>>
           /\ LoaderFrame
  <2>1. Created' = Created
    BY <1>4, SameLoads DEF images
  <2>2. MapsTyped' /\ LoadsTyped' /\ DecoderTyped' /\ FilesTyped' /\ HistoryTyped'
    BY <1>4, <2>1 DEF Base, Typed, MapsTyped, LoadsTyped, DecoderTyped, FilesTyped,
                      HistoryTyped, maps, images, decoder, files, LoaderFrame
  <2>3. QED
    BY <1>1, <1>4, <2>2, TaskFrame DEF TaskTyped, LoaderFrame, images, files
<1>5. QED
  BY <1>2, <1>3, <1>4 DEF FileDidFailedLoad

LEMMA SetDecodedTyped ==
    ASSUME Base, SetDecoded
    PROVE  TaskTyped
<1>1. /\ loaderTasks # <<>> /\ Head(loaderTasks).load \in Created
      /\ Head(loaderTasks).bitmap \in Created \cup {0}
  BY FirstTaskTaken DEF SetDecoded, FirstTask
<1>2. QED
  BY <1>1, SetImageAndClearTyped DEF SetDecoded

\* The next load.
LEMMA NewLoadIsNext ==
    ASSUME Base, 2 * Count(loaderTasks, LoadTasks) + Count(loaderTasks, FileTasks) > 0
    PROVE  /\ NewLoad \in Loads /\ NewLoad \notin Created /\ NewLoad # 0
           /\ key[NewLoad] = None
           /\ Created \cup {NewLoad} = 1..(Cardinality(Created) + 1)
           /\ Cardinality(Created \cup {NewLoad}) = Cardinality(Created) + 1
<1> DEFINE n == Cardinality(Created)  a == Count(loaderTasks, LoadTasks)
           c == Count(loaderTasks, FileTasks)  m == Cardinality(downloading)
           u == Count(uiTasks, FileTasks)
<1>1. /\ n \in Nat /\ a \in Nat /\ c \in Nat /\ m \in Nat /\ u \in Nat /\ calls \in Nat
      /\ calls <= MaxCalls /\ IsFiniteSet(Created)
  BY CountsAreNumbers
<1>2. Created = 1..n /\ n + 2 * a + m + u + c <= 2 * calls /\ NewLoad = n + 1
  BY DEF Base, LoadsAreBounded, NewLoad
<1>3. 2 * a + c > 0 /\ MaxCalls \in Nat
  BY ImageAssumption
<1> HIDE DEF n, a, c, m, u
<1>4. NewLoad \in 1..(2 * MaxCalls) /\ NewLoad \notin 1..n /\ NewLoad # 0
  BY <1>1, <1>2, <1>3
<1>5. 1..n \cup {n + 1} = 1..(n + 1)
  BY <1>1
<1>6. Cardinality(Created \cup {NewLoad}) = n + 1
  BY <1>1, <1>2, <1>4, FS_AddElement DEF n
<1>7. NewLoad \in Loads /\ key[NewLoad] = None
  BY <1>2, <1>4 DEF Loads, Created
<1>8. QED
  BY <1>2, <1>4, <1>5, <1>6, <1>7 DEF n

-----------------------------------------------------------------------------
(* The tasks that create loads.                                            *)

LEMMA CreatedGrows ==
    ASSUME Typed, NEW c \in Loads, NEW k \in Keys, key' = [key EXCEPT ![c] = k]
    PROVE  /\ Created' = Created \cup {c} /\ key' \in [Loads -> Keys \cup {None}]
           /\ key'[c] = k
BY ImageAssumption DEF Created, Typed, LoadsTyped

\* A view takes part in the load c, which is there already, is decoded at once,
\* or is downloaded.
Joins(c, k, old, v) ==
    /\ c \in Created
    /\ \/ c = imageLoadingByKeys[k]
       \/ imageLoadingByKeys[k] = 0 /\ c = imageLoadingByUrl[UrlOf[k]]
    /\ UNCHANGED <<key, remote>>
    /\ imageLoadingByUrl' = UrlsWithout(old, v)
    /\ imageLoadingByKeys' = KeysWithout(old, v)
    /\ decodeTasks' = DecodesWithout(old, v)
    /\ downloading' = DownloadsWithout(old, v)

CreatesDecoded(c, k, old, v) ==
    /\ c = NewLoad /\ c \notin Created
    /\ imageLoadingByKeys[k] = 0 /\ imageLoadingByUrl[UrlOf[k]] = 0
    /\ key' = [key EXCEPT ![c] = k] /\ remote' = remote
    /\ imageLoadingByUrl' = UrlsWithout(old, v)
    /\ imageLoadingByKeys' = [KeysWithout(old, v) EXCEPT ![k] = c]
    /\ decodeTasks' = Append(DecodesWithout(old, v), c)
    /\ downloading' = DownloadsWithout(old, v)

CreatesRemote(c, k, old, v) ==
    /\ c = NewLoad /\ c \notin Created
    /\ imageLoadingByKeys[k] = 0 /\ imageLoadingByUrl[UrlOf[k]] = 0
    /\ key' = [key EXCEPT ![c] = k] /\ remote' = remote \cup {c}
    /\ imageLoadingByUrl' = [UrlsWithout(old, v) EXCEPT ![UrlOf[k]] = c]
    /\ imageLoadingByKeys' = KeysWithout(old, v)
    /\ decodeTasks' = DecodesWithout(old, v)
    /\ downloading' = DownloadsWithout(old, v) \cup {UrlOf[k]}

JoinOrCreateIs(v, k, old, c) ==
    /\ loaderTasks # <<>> /\ Head(loaderTasks).kind = "load"
    /\ Head(loaderTasks).view = v /\ Head(loaderTasks).key = k
    /\ loaderTasks' = Tail(loaderTasks)
    /\ old = imageLoadingByTag[v]
    /\ old = 0 \/ old \notin {imageLoadingByUrl[UrlOf[k]], imageLoadingByKeys[k]}
    /\ receivers' = [Without(old, v) EXCEPT ![c] = @ \cup {v}]
    /\ imageLoadingByTag' = [imageLoadingByTag EXCEPT ![v] = c]
    /\ isCancelled' = CancelsWith(old, v)
    /\ excused' = IF key'[c] # k /\ currentKey[v] = k THEN excused \cup {v} ELSE excused
    /\ UNCHANGED <<views, cache, calls, tainted, doubled, uiTasks, decoding, present>>
    /\ \/ Joins(c, k, old, v)
       \/ CreatesDecoded(c, k, old, v)
       \/ CreatesRemote(c, k, old, v)

LEMMA JoinOrCreateDoes ==
    ASSUME Base, JoinOrCreate
    PROVE  \E v \in Views, k \in Keys, old \in Created \cup {0}, c \in Loads :
               JoinOrCreateIs(v, k, old, c)
<1>1. /\ loaderTasks # <<>> /\ Head(loaderTasks).kind = "load"
      /\ Head(loaderTasks).view \in Views /\ Head(loaderTasks).key \in Keys
  BY FirstTaskTaken DEF JoinOrCreate, FirstTask
<1>2. PICK v \in Views, k \in Keys :
          v = Head(loaderTasks).view /\ k = Head(loaderTasks).key
  BY <1>1
<1>3. PICK old \in Created \cup {0}, byUrl \in Created \cup {0}, byKey \in Created \cup {0} :
          /\ old = imageLoadingByTag[v] /\ byUrl = imageLoadingByUrl[UrlOf[k]]
          /\ byKey = imageLoadingByKeys[k]
  BY ImageAssumption DEF Base, Typed, MapsTyped
<1>4. PICK join : join = IF byKey # 0 THEN byKey ELSE byUrl
  OBVIOUS
<1>5. PICK c : c = IF join # 0 THEN join ELSE NewLoad
  OBVIOUS
<1>6. c \in Loads /\ (join = 0 => c \notin Created)
  <2>1. CASE join # 0
    BY <1>4, <1>5, <2>1, LoadsAreNumbers
  <2>2. CASE join = 0
    <3>1. Count(loaderTasks, LoadTasks) > 0 /\ Count(loaderTasks, FileTasks) \in Nat
      BY <1>1, FirstTaskTaken, CountsAreNumbers
    <3>2. NewLoad \in Loads /\ NewLoad \notin Created
      BY <3>1, NewLoadIsNext, CountsAreNumbers
    <3>3. QED
      BY <1>5, <2>2, <3>2
  <2>3. QED
    BY <2>1, <2>2
<1>7. LoadFor(Head(loaderTasks)) /\ loaderTasks' = Tail(loaderTasks) /\ LoaderFrame
  BY DEF JoinOrCreate
<1>8. /\ old = 0 \/ old \notin {byUrl, byKey}
      /\ receivers' = [Without(old, v) EXCEPT ![c] = @ \cup {v}]
      /\ imageLoadingByTag' = [imageLoadingByTag EXCEPT ![v] = c]
      /\ key' = IF join = 0 THEN [key EXCEPT ![c] = k] ELSE key
      /\ remote' = IF join = 0 /\ UrlOf[k] \notin present THEN remote \cup {c} ELSE remote
      /\ imageLoadingByUrl' = IF join = 0 /\ UrlOf[k] \notin present
                              THEN [UrlsWithout(old, v) EXCEPT ![UrlOf[k]] = c]
                              ELSE UrlsWithout(old, v)
      /\ imageLoadingByKeys' = IF join = 0 /\ UrlOf[k] \in present
                               THEN [KeysWithout(old, v) EXCEPT ![k] = c]
                               ELSE KeysWithout(old, v)
      /\ decodeTasks' = IF join = 0 /\ UrlOf[k] \in present
                        THEN Append(DecodesWithout(old, v), c)
                        ELSE DecodesWithout(old, v)
      /\ isCancelled' = CancelsWith(old, v)
      /\ downloading' = IF join = 0 /\ UrlOf[k] \notin present
                        THEN DownloadsWithout(old, v) \cup {UrlOf[k]}
                        ELSE DownloadsWithout(old, v)
      /\ excused' = IF key'[c] # k /\ currentKey[v] = k THEN excused \cup {v} ELSE excused
      /\ UNCHANGED <<uiTasks, decoding, present>>
  BY <1>2, <1>3, <1>4, <1>5, <1>7, Zenon DEF LoadFor
<1>9. CASE join # 0
  <2>1. Joins(c, k, old, v)
    <3>1. c = byKey \/ (byKey = 0 /\ c = byUrl)
      BY <1>4, <1>5, <1>9
    <3>2. c \in Created
      BY <1>5, <1>4, <1>9
    <3>3. /\ key' = key /\ remote' = remote
          /\ imageLoadingByUrl' = UrlsWithout(old, v)
          /\ imageLoadingByKeys' = KeysWithout(old, v)
          /\ decodeTasks' = DecodesWithout(old, v)
          /\ downloading' = DownloadsWithout(old, v)
      BY <1>8, <1>9
    <3>4. QED
      BY <1>3, <3>1, <3>2, <3>3 DEF Joins
  <2>2. QED
    BY <1>1, <1>2, <1>3, <1>6, <1>7, <1>8, <2>1 DEF JoinOrCreateIs, LoaderFrame
<1>10. CASE join = 0 /\ UrlOf[k] \in present
  <2>1. CreatesDecoded(c, k, old, v)
    BY <1>3, <1>4, <1>5, <1>6, <1>8, <1>10 DEF CreatesDecoded
  <2>2. QED
    BY <1>1, <1>2, <1>3, <1>6, <1>7, <1>8, <2>1 DEF JoinOrCreateIs, LoaderFrame
<1>11. CASE join = 0 /\ UrlOf[k] \notin present
  <2>1. CreatesRemote(c, k, old, v)
    BY <1>3, <1>4, <1>5, <1>6, <1>8, <1>11 DEF CreatesRemote
  <2>2. QED
    BY <1>1, <1>2, <1>3, <1>6, <1>7, <1>8, <2>1 DEF JoinOrCreateIs, LoaderFrame
<1>12. QED
  BY <1>9, <1>10, <1>11

\* A load that is created leaves room for another if a call or a task paid for it.
LEMMA CreationIsPaid ==
    ASSUME Base, loaderTasks # <<>>, loaderTasks' = Tail(loaderTasks), uiTasks' = uiTasks,
           calls' = calls,
           \/ /\ Head(loaderTasks).kind = "load"
              /\ Cardinality(downloading') <= Cardinality(downloading) + 1
           \/ Head(loaderTasks).kind = "file" /\ downloading' = downloading,
           Cardinality(downloading') \in Nat,
           Created' = Created \/ Created' = Created \cup {NewLoad}
    PROVE  LoadsAreBounded'
<1> DEFINE a == Count(loaderTasks, LoadTasks)  b == Count(loaderTasks', LoadTasks)
           c == Count(loaderTasks, FileTasks)  d == Count(loaderTasks', FileTasks)
           n == Cardinality(Created)  l == Cardinality(Created')
           m == Cardinality(downloading)  o == Cardinality(downloading')
           u == Count(uiTasks, FileTasks)
<1>1. /\ a \in Nat /\ c \in Nat /\ n \in Nat /\ m \in Nat /\ u \in Nat /\ calls \in Nat
  BY CountsAreNumbers
<1>2. /\ b \in Nat /\ d \in Nat /\ b <= a /\ d <= c
      /\ Head(loaderTasks).kind = "load" => b = a - 1
      /\ Head(loaderTasks).kind = "file" => d = c - 1
  BY FirstTaskTaken
<1>3. Created = 1..n /\ n + 2 * a + m + u + c <= 2 * calls
  BY DEF Base, LoadsAreBounded
<1>4. LoadsAreBounded' <=> /\ Created' = 1..l
                           /\ l + 2 * b + o + u + d <= 2 * calls
  BY DEF LoadsAreBounded
<1>5. \/ b = a - 1 /\ o <= m + 1
      \/ d = c - 1 /\ o = m
  BY <1>2
<1>6. a \in Nat /\ b \in Nat /\ 2 * a + c > 0
  <2> HIDE DEF a, b, c, d, m, o
  <2>1. QED
    BY <1>1, <1>2, <1>5
<1>7. Created' = 1..l /\ (l = n \/ l = n + 1)
  <2>1. CASE Created' = Created
    BY <1>3, <2>1
  <2>2. CASE Created' = Created \cup {NewLoad}
    BY <1>6, <2>2, NewLoadIsNext
  <2>3. QED
    BY <2>1, <2>2
<1>8. o \in Nat
  OBVIOUS
<1> HIDE DEF a, b, c, d, n, l, m, o, u
<1>9. l + 2 * b + o + u + d <= 2 * calls
  <2>1. CASE b = a - 1 /\ o <= m + 1
    BY <1>1, <1>2, <1>3, <1>7, <1>8, <2>1
  <2>2. CASE d = c - 1 /\ o = m
    BY <1>1, <1>2, <1>3, <1>7, <1>8, <2>2
  <2>3. QED
    BY <1>5, <2>1, <2>2
<1>10. QED
  BY <1>4, <1>7, <1>9

\* What is left alone stays well-typed when a load is created.
LEMMA TypesGrow ==
    ASSUME Base, Created \subseteq Created'
    PROVE  /\ \A s \in Seq(Created) : s \in Seq(Created')
           /\ \A s \in Seq(UiTaskOf(Created)) : s \in Seq(UiTaskOf(Created'))
           /\ \A s \in Seq(LoaderTaskOf(Created)) : s \in Seq(LoaderTaskOf(Created'))
           /\ UNCHANGED <<views, cache>> => ViewsTyped' /\ CacheTyped' /\ CacheFits'
<1>1. PICK S : S = Created
  OBVIOUS
<1>2. PICK T : T = Created'
  OBVIOUS
<1>3. UiTaskOf(S) \subseteq UiTaskOf(T) /\ LoaderTaskOf(S) \subseteq LoaderTaskOf(T)
  BY <1>1, <1>2, TasksOfMore
<1>4. \A s \in Seq(S) : s \in Seq(T)
  BY <1>1, <1>2, SeqOfMore
<1>5. \A s \in Seq(UiTaskOf(S)) : s \in Seq(UiTaskOf(T))
  BY <1>3, SeqOfMore
<1>6. \A s \in Seq(LoaderTaskOf(S)) : s \in Seq(LoaderTaskOf(T))
  BY <1>3, SeqOfMore
<1>7. ASSUME UNCHANGED <<views, cache>>
      PROVE  ViewsTyped' /\ CacheTyped' /\ CacheFits'
  <2>1. lru' \in Seq(T)
    BY <1>1, <1>4, <1>7 DEF Base, Typed, CacheTyped, cache
  <2>2. QED
    BY <1>2, <1>7, <2>1 DEF Base, Typed, ViewsTyped, CacheTyped, CacheFits, views, cache
<1>8. QED
  BY <1>1, <1>2, <1>4, <1>5, <1>6, <1>7

LEMMA JoinOrCreateKeepsBase ==
    ASSUME Base, JoinOrCreate
    PROVE  Base'
<1>1. PICK v \in Views, k \in Keys, old \in Created \cup {0}, c \in Loads :
          JoinOrCreateIs(v, k, old, c)
  BY JoinOrCreateDoes
<1>2. /\ Without(old, v) \in [Loads -> SUBSET Views]
      /\ UrlsWithout(old, v) \in [Urls -> Created \cup {0}]
      /\ KeysWithout(old, v) \in [Keys -> Created \cup {0}]
      /\ DecodesWithout(old, v) \in Seq(Created)
      /\ CancelsWith(old, v) \subseteq Created
      /\ DownloadsWithout(old, v) \subseteq Urls
      /\ IsFiniteSet(DownloadsWithout(old, v))
      /\ Cardinality(DownloadsWithout(old, v)) \in Nat
      /\ Cardinality(DownloadsWithout(old, v)) <= Cardinality(downloading)
      /\ Cardinality(downloading) \in Nat
  BY WithoutTyped, CountsAreNumbers
<1>3. Typed /\ UrlOf[k] \in Urls
  BY ImageAssumption DEF Base
<1>4. /\ c \in Created' /\ Created \subseteq Created'
      /\ Created' = Created \/ Created' = Created \cup {NewLoad}
      /\ key' \in [Loads -> Keys \cup {None}] /\ remote' \subseteq Created'
  <2>1. CASE Joins(c, k, old, v)
    <3>1. Created' = Created
      BY <2>1, SameLoads DEF Joins
    <3>2. QED
      BY <1>3, <2>1, <3>1 DEF Joins, Typed, LoadsTyped
  <2>2. CASE CreatesDecoded(c, k, old, v)
    <3>1. /\ Created' = Created \cup {c} /\ key' \in [Loads -> Keys \cup {None}]
          /\ c = NewLoad /\ remote' = remote
      BY <1>3, <2>2, CreatedGrows DEF CreatesDecoded
    <3>2. QED
      BY <1>3, <3>1 DEF Typed, LoadsTyped
  <2>3. CASE CreatesRemote(c, k, old, v)
    <3>1. /\ Created' = Created \cup {c} /\ key' \in [Loads -> Keys \cup {None}]
          /\ c = NewLoad /\ remote' = remote \cup {c}
      BY <1>3, <2>3, CreatedGrows DEF CreatesRemote
    <3>2. QED
      BY <1>3, <3>1 DEF Typed, LoadsTyped
  <2>4. QED
    BY <1>1, <2>1, <2>2, <2>3 DEF JoinOrCreateIs
<1>5. PICK T : T = Created'
  OBVIOUS
<1>6. /\ DecodesWithout(old, v) \in Seq(T)
      /\ uiTasks' \in Seq(UiTaskOf(T)) /\ loaderTasks' \in Seq(LoaderTaskOf(T))
      /\ ViewsTyped' /\ CacheTyped' /\ CacheFits'
  <2>1. uiTasks' \in Seq(UiTaskOf(Created)) /\ loaderTasks' \in Seq(LoaderTaskOf(Created))
    BY <1>1, FirstTaskTaken DEF JoinOrCreateIs, Base, Typed, TasksTyped
  <2>2. QED
    BY <1>1, <1>2, <1>4, <1>5, <2>1, TypesGrow DEF JoinOrCreateIs
<1>7. /\ imageLoadingByUrl' \in [Urls -> T \cup {0}]
      /\ imageLoadingByKeys' \in [Keys -> T \cup {0}]
      /\ decodeTasks' \in Seq(T)
      /\ downloading' \subseteq Urls /\ IsFiniteSet(downloading')
      /\ Cardinality(downloading') \in Nat
      /\ Cardinality(downloading') <= Cardinality(downloading) + 1
  <2>1. CASE Joins(c, k, old, v)
    BY <1>2, <1>4, <1>5, <1>6, <2>1 DEF Joins
  <2>2. CASE CreatesDecoded(c, k, old, v)
    <3>1. Append(DecodesWithout(old, v), c) \in Seq(T)
      BY <1>4, <1>5, <1>6
    <3>2. QED
      BY <1>2, <1>4, <1>5, <2>2, <3>1 DEF CreatesDecoded
  <2>3. CASE CreatesRemote(c, k, old, v)
    <3>1. PICK D : D = DownloadsWithout(old, v)
      OBVIOUS
    <3>2. /\ IsFiniteSet(D \cup {UrlOf[k]})
          /\ Cardinality(D \cup {UrlOf[k]}) = IF UrlOf[k] \in D THEN Cardinality(D)
                                               ELSE Cardinality(D) + 1
      BY <1>2, <3>1, FS_AddElement
    <3>3. /\ Cardinality(D \cup {UrlOf[k]}) \in Nat
          /\ Cardinality(D \cup {UrlOf[k]}) <= Cardinality(downloading) + 1
      BY <1>2, <3>1, <3>2
    <3>4. QED
      BY <1>2, <1>3, <1>4, <1>5, <1>6, <2>3, <3>1, <3>2, <3>3 DEF CreatesRemote
  <2>4. QED
    BY <1>1, <2>1, <2>2, <2>3 DEF JoinOrCreateIs
<1>8. MapsTyped'
  BY <1>1, <1>4, <1>5, <1>7 DEF JoinOrCreateIs, MapsTyped, Base, Typed
<1>9. LoadsTyped'
  BY <1>1, <1>2, <1>4 DEF JoinOrCreateIs, LoadsTyped
<1>10. DecoderTyped'
  BY <1>1, <1>2, <1>4, <1>5, <1>7 DEF JoinOrCreateIs, DecoderTyped, Base, Typed
<1>11. FilesTyped' /\ calls' \in 0..MaxCalls /\ TasksTyped' /\ HistoryTyped'
  BY <1>1, <1>5, <1>6, <1>7 DEF JoinOrCreateIs, FilesTyped, TasksTyped, HistoryTyped, Base,
                                Typed
<1>12. LoadsAreBounded'
  <2>1. /\ loaderTasks # <<>> /\ loaderTasks' = Tail(loaderTasks) /\ uiTasks' = uiTasks
        /\ calls' = calls /\ Head(loaderTasks).kind = "load"
    BY <1>1 DEF JoinOrCreateIs
  <2>2. QED
    BY <1>4, <1>7, <2>1, CreationIsPaid
<1>13. QED
  BY <1>6, <1>8, <1>9, <1>10, <1>11, <1>12 DEF Base, Typed

\* The end of a download that nobody waits for, and of one whose views go over
\* to the load with the key k.
FileForNobody(u) ==
    /\ loaderTasks # <<>> /\ loaderTasks' = Tail(loaderTasks)
    /\ Head(loaderTasks).kind = "file" /\ Head(loaderTasks).url = u
    /\ imageLoadingByUrl[u] = 0 \/ receivers[imageLoadingByUrl[u]] = {}
    /\ imageLoadingByUrl' = [imageLoadingByUrl EXCEPT ![u] = 0]
    /\ UNCHANGED <<views, cache, calls, history, imageLoadingByKeys, imageLoadingByTag, images,
                   uiTasks, decoder, files>>

FileForViews(u, c, k, to) ==
    /\ loaderTasks # <<>> /\ loaderTasks' = Tail(loaderTasks)
    /\ Head(loaderTasks).kind = "file" /\ Head(loaderTasks).url = u
    /\ c = imageLoadingByUrl[u] /\ receivers[c] # {} /\ k = key[c]
    /\ \/ to = imageLoadingByKeys[k] /\ to \in Created /\ decodeTasks' = decodeTasks
       \/ /\ imageLoadingByKeys[k] = 0 /\ to = NewLoad /\ to \notin Created
          /\ decodeTasks' = Append(decodeTasks, to)
    /\ imageLoadingByUrl' = [imageLoadingByUrl EXCEPT ![u] = 0]
    /\ imageLoadingByKeys' = [imageLoadingByKeys EXCEPT ![k] = to]
    /\ imageLoadingByTag' = [v \in Views |->
            IF v \in receivers[c] THEN to ELSE imageLoadingByTag[v]]
    /\ receivers' = [receivers EXCEPT ![to] = @ \cup receivers[c]]
    /\ key' = [key EXCEPT ![to] = k]
    /\ UNCHANGED <<views, cache, calls, history, remote, uiTasks, decoding, isCancelled, files>>

LEMMA FileDidLoadedDoes ==
    ASSUME Base, FileDidLoaded
    PROVE  \E u \in Urls :
               \/ FileForNobody(u)
               \/ \E c \in Created, k \in Keys, to \in Loads : FileForViews(u, c, k, to)
<1>1. /\ loaderTasks # <<>> /\ Head(loaderTasks).kind = "file"
      /\ Head(loaderTasks).url \in Urls
  BY FirstTaskTaken DEF FileDidLoaded, FirstTask
<1>2. PICK u \in Urls : u = Head(loaderTasks).url
  BY <1>1
<1>3. PICK c \in Created \cup {0} : c = imageLoadingByUrl[u]
  BY DEF Base, Typed, MapsTyped
<1>4. /\ imageLoadingByUrl' = [imageLoadingByUrl EXCEPT ![u] = 0]
      /\ loaderTasks' = Tail(loaderTasks)
      /\ UNCHANGED <<views, cache, calls, history, remote, uiTasks, decoding, isCancelled,
                     files>>
  BY <1>2 DEF FileDidLoaded, LoaderFrame, history
<1>5. CASE c = 0 \/ receivers[c] = {}
  <2>1. UNCHANGED <<imageLoadingByKeys, imageLoadingByTag, key, receivers, decodeTasks>>
    BY <1>2, <1>3, <1>5 DEF FileDidLoaded
  <2>2. FileForNobody(u)
    BY <1>1, <1>2, <1>3, <1>4, <1>5, <2>1 DEF FileForNobody, images, decoder
  <2>3. QED
    BY <2>2
<1>6. CASE ~(c = 0 \/ receivers[c] = {})
  <2>1. PICK k \in Keys : k = key[c]
    BY <1>6, CreatedHaveKeys DEF Base
  <2>2. PICK to : to = IF imageLoadingByKeys[k] # 0 THEN imageLoadingByKeys[k] ELSE NewLoad
    OBVIOUS
  <2>3. /\ imageLoadingByKeys' = [imageLoadingByKeys EXCEPT ![k] = to]
        /\ imageLoadingByTag' = [v \in Views |->
                IF v \in receivers[c] THEN to ELSE imageLoadingByTag[v]]
        /\ receivers' = [receivers EXCEPT ![to] = @ \cup receivers[c]]
        /\ key' = [key EXCEPT ![to] = k]
        /\ decodeTasks' = IF key[to] = None THEN Append(decodeTasks, to) ELSE decodeTasks
    BY <1>2, <1>3, <1>6, <2>1, <2>2 DEF FileDidLoaded
  <2>4. NewLoad \in Loads /\ NewLoad \notin Created /\ key[NewLoad] = None
    <3>1. Count(loaderTasks, FileTasks) > 0 /\ Count(loaderTasks, LoadTasks) \in Nat
      BY <1>1, FirstTaskTaken, CountsAreNumbers
    <3>2. QED
      BY <3>1, NewLoadIsNext, CountsAreNumbers
  <2>5. imageLoadingByKeys[k] \in Created \cup {0}
    BY DEF Base, Typed, MapsTyped
  <2>6. /\ to \in Loads
        /\ \/ to = imageLoadingByKeys[k] /\ to \in Created /\ decodeTasks' = decodeTasks
           \/ /\ imageLoadingByKeys[k] = 0 /\ to = NewLoad /\ to \notin Created
              /\ decodeTasks' = Append(decodeTasks, to)
    <3>1. CASE imageLoadingByKeys[k] # 0
      <4>1. to = imageLoadingByKeys[k] /\ to \in Created
        BY <2>2, <2>5, <3>1
      <4>2. QED
        BY <2>3, <4>1, LoadsAreNumbers
    <3>2. CASE imageLoadingByKeys[k] = 0
      BY <2>2, <2>3, <2>4, <3>2
    <3>3. QED
      BY <3>1, <3>2
  <2>7. FileForViews(u, c, k, to)
    BY <1>1, <1>2, <1>3, <1>4, <1>6, <2>1, <2>3, <2>6 DEF FileForViews
  <2>8. QED
    BY <1>6, <2>6, <2>7
<1>7. QED
  BY <1>5, <1>6

LEMMA FileDidLoadedKeepsBase ==
    ASSUME Base, FileDidLoaded
    PROVE  Base'
<1>1. PICK u \in Urls :
          \/ FileForNobody(u)
          \/ \E c \in Created, k \in Keys, to \in Loads : FileForViews(u, c, k, to)
  BY FileDidLoadedDoes
<1>2. CASE FileForNobody(u)
  <2>1. Created' = Created
    BY <1>2, SameLoads DEF FileForNobody, images
  <2>2. MapsTyped' /\ LoadsTyped' /\ DecoderTyped' /\ FilesTyped' /\ HistoryTyped'
    BY <1>2, <2>1 DEF FileForNobody, Base, Typed, MapsTyped, LoadsTyped, DecoderTyped,
                      FilesTyped, HistoryTyped, images, decoder, files, history
  <2>3. TaskTyped
    BY <1>2, <2>2, TaskFrame DEF TaskTyped, FileForNobody, images, files
  <2>4. QED
    BY <2>3, TaskKeepsBase
<1>3. ASSUME NEW c \in Created, NEW k \in Keys, NEW to \in Loads, FileForViews(u, c, k, to)
      PROVE  Base'
  <2>1. /\ Created' = Created \cup {to} /\ key' \in [Loads -> Keys \cup {None}]
        /\ Created \subseteq Created' /\ to \in Created'
        /\ Created' = Created \/ Created' = Created \cup {NewLoad}
    <3>1. Created' = Created \cup {to} /\ key' \in [Loads -> Keys \cup {None}]
      BY <1>3, CreatedGrows DEF FileForViews, Base
    <3>2. to \in Created \/ to = NewLoad
      BY <1>3 DEF FileForViews
    <3>3. QED
      BY <3>1, <3>2
  <2>2. PICK T : T = Created'
    OBVIOUS
  <2>3. /\ decodeTasks \in Seq(T)
        /\ uiTasks' \in Seq(UiTaskOf(T)) /\ loaderTasks' \in Seq(LoaderTaskOf(T))
        /\ ViewsTyped' /\ CacheTyped' /\ CacheFits'
    <3>1. /\ uiTasks' \in Seq(UiTaskOf(Created)) /\ loaderTasks' \in Seq(LoaderTaskOf(Created))
          /\ decodeTasks \in Seq(Created)
      BY <1>3, FirstTaskTaken DEF FileForViews, Base, Typed, TasksTyped, DecoderTyped
    <3>2. QED
      BY <1>3, <2>1, <2>2, <3>1, TypesGrow DEF FileForViews
  <2>4. decodeTasks' \in Seq(T)
    <3>1. to \in T
      BY <2>1, <2>2
    <3>2. decodeTasks' = decodeTasks \/ decodeTasks' = Append(decodeTasks, to)
      BY <1>3 DEF FileForViews
    <3>3. Append(decodeTasks, to) \in Seq(T)
      BY <2>3, <3>1
    <3>4. QED
      BY <2>3, <3>2, <3>3
  <2>5. MapsTyped'
    BY <1>3, <2>1 DEF FileForViews, MapsTyped, Base, Typed
  <2>6. LoadsTyped'
    BY <1>3, <2>1, LoadsAreNumbers DEF FileForViews, LoadsTyped, Base, Typed
  <2>7. DecoderTyped' /\ FilesTyped' /\ calls' \in 0..MaxCalls /\ TasksTyped' /\ HistoryTyped'
    BY <1>3, <2>1, <2>2, <2>3, <2>4 DEF FileForViews, DecoderTyped, FilesTyped, TasksTyped,
                                        HistoryTyped, Base, Typed, history, files
  <2>8. LoadsAreBounded'
    <3>1. /\ loaderTasks # <<>> /\ loaderTasks' = Tail(loaderTasks) /\ uiTasks' = uiTasks
          /\ calls' = calls /\ Head(loaderTasks).kind = "file" /\ downloading' = downloading
      BY <1>3 DEF FileForViews, files
    <3>2. Cardinality(downloading') \in Nat
      BY <3>1, CountsAreNumbers
    <3>3. QED
      BY <2>1, <3>1, <3>2, CreationIsPaid
  <2>9. QED
    BY <2>3, <2>5, <2>6, <2>7, <2>8 DEF Base, Typed
<1>4. QED
  BY <1>1, <1>2, <1>3

-----------------------------------------------------------------------------
(* The other threads keep the types.                                       *)

LEMMA DecodeKeepsBase ==
    ASSUME Base, Decode
    PROVE  Base'
<1>1. Created' = Created
  BY SameLoads DEF Decode, images
<1>2. decodeTasks \in Seq(Created) /\ decodeTasks # <<>>
  BY DEF Decode, Base, Typed, DecoderTyped
<1>3. Head(decodeTasks) \in Created /\ Tail(decodeTasks) \in Seq(Created)
  BY <1>2, HeadTailProperties
<1>4. DecoderTyped'
  BY <1>1, <1>3 DEF Decode, Base, Typed, DecoderTyped
<1>5. /\ ViewsTyped' /\ CacheTyped' /\ MapsTyped' /\ LoadsTyped' /\ TasksTyped'
      /\ FilesTyped' /\ calls' \in 0..MaxCalls /\ HistoryTyped' /\ CacheFits'
  BY <1>1 DEF Decode, Base, Typed, ViewsTyped, CacheTyped, MapsTyped, LoadsTyped, TasksTyped,
              FilesTyped, HistoryTyped, CacheFits, views, cache, maps, images, files, history
<1>6. LoadsAreBounded'
  BY <1>1 DEF Decode, Base, LoadsAreBounded, files
<1>7. QED
  BY <1>4, <1>5, <1>6 DEF Base, Typed

\* A task for the main thread that is no file's end.
LEMMA EndDecodeKeepsBase ==
    ASSUME Base, NEW ok \in BOOLEAN, EndDecode(ok)
    PROVE  Base'
<1>1. Created' = Created
  BY SameLoads DEF EndDecode, images
<1>2. PICK t : t = DecodedTask(decoding, IF ok THEN decoding ELSE 0)
  OBVIOUS
<1>3. t \in UiTaskOf(Created) /\ t \notin FileTasks
  BY <1>2 DEF EndDecode, Base, Typed, DecoderTyped, DecodedTask, UiTaskOf, FileTasks
<1>4. uiTasks' = Append(uiTasks, t) /\ uiTasks \in Seq(UiTaskOf(Created))
  BY <1>2 DEF EndDecode, Base, Typed, TasksTyped
<1>5. /\ uiTasks' \in Seq(UiTaskOf(Created))
      /\ Count(uiTasks', FileTasks) = Count(uiTasks, FileTasks)
  BY <1>3, <1>4, CountOfAppend
<1>6. DecoderTyped' /\ TasksTyped'
  BY <1>1, <1>5 DEF EndDecode, Base, Typed, DecoderTyped, TasksTyped
<1>7. /\ ViewsTyped' /\ CacheTyped' /\ MapsTyped' /\ LoadsTyped'
      /\ FilesTyped' /\ calls' \in 0..MaxCalls /\ HistoryTyped' /\ CacheFits'
  BY <1>1 DEF EndDecode, Base, Typed, ViewsTyped, CacheTyped, MapsTyped, LoadsTyped,
              FilesTyped, HistoryTyped, CacheFits, views, cache, maps, images, files, history
<1>8. LoadsAreBounded'
  BY <1>1, <1>5 DEF EndDecode, Base, LoadsAreBounded, files
<1>9. QED
  BY <1>6, <1>7, <1>8 DEF Base, Typed

LEMMA EndDownloadKeepsBase ==
    ASSUME Base, NEW u \in Urls, NEW ok \in BOOLEAN, EndDownload(u, ok)
    PROVE  Base'
<1>1. Created' = Created
  BY SameLoads DEF EndDownload, images
<1>2. PICK t : t = FileTask(u, ok)
  OBVIOUS
<1>3. t \in UiTaskOf(Created) /\ t \in FileTasks
  BY <1>2 DEF FileTask, UiTaskOf, FileTasks
<1>4. uiTasks' = Append(uiTasks, t) /\ uiTasks \in Seq(UiTaskOf(Created))
  BY <1>2 DEF EndDownload, Base, Typed, TasksTyped
<1>5. /\ uiTasks' \in Seq(UiTaskOf(Created))
      /\ Count(uiTasks', FileTasks) = Count(uiTasks, FileTasks) + 1
  BY <1>3, <1>4, CountOfAppend
<1>6. /\ IsFiniteSet(downloading') /\ Cardinality(downloading') = Cardinality(downloading) - 1
  BY CountsAreNumbers, FS_RemoveElement DEF EndDownload
<1>7. FilesTyped' /\ TasksTyped'
  BY <1>1, <1>5, <1>6 DEF EndDownload, Base, Typed, FilesTyped, TasksTyped
<1>8. /\ ViewsTyped' /\ CacheTyped' /\ MapsTyped' /\ LoadsTyped' /\ DecoderTyped'
      /\ calls' \in 0..MaxCalls /\ HistoryTyped' /\ CacheFits'
  BY <1>1 DEF EndDownload, Base, Typed, ViewsTyped, CacheTyped, MapsTyped, LoadsTyped,
              DecoderTyped, HistoryTyped, CacheFits, views, cache, maps, images, decoder,
              history
<1>9. LoadsAreBounded'
  <2> DEFINE a == Count(loaderTasks, LoadTasks)  c == Count(loaderTasks, FileTasks)
             n == Cardinality(Created)  m == Cardinality(downloading)
             u1 == Count(uiTasks, FileTasks)
  <2>1. /\ a \in Nat /\ c \in Nat /\ n \in Nat /\ m \in Nat /\ u1 \in Nat /\ calls \in Nat
    BY CountsAreNumbers
  <2>2. Created = 1..n /\ n + 2 * a + m + u1 + c <= 2 * calls
    BY DEF Base, LoadsAreBounded
  <2>3. LoadsAreBounded' <=> /\ Created = 1..n
                             /\ n + 2 * a + (m - 1) + (u1 + 1) + c <= 2 * calls
    BY <1>1, <1>5, <1>6 DEF LoadsAreBounded, EndDownload
  <2> HIDE DEF a, c, n, m, u1
  <2>4. n + 2 * a + (m - 1) + (u1 + 1) + c <= 2 * calls
    BY <2>1, <2>2
  <2>5. QED
    BY <2>2, <2>3, <2>4
<1>10. QED
  BY <1>7, <1>8, <1>9 DEF Base, Typed

LEMMA UiFileTaskKeepsBase ==
    ASSUME Base, UiFileTask
    PROVE  Base'
<1>1. Created' = Created
  BY SameLoads DEF UiFileTask, images
<1>2. uiTasks # <<>> /\ Head(uiTasks).kind = "file"
  BY DEF UiFileTask, FirstUi
<1>3. /\ Head(uiTasks) \in FileTasks
      /\ uiTasks' \in Seq(UiTaskOf(Created)) /\ Count(uiTasks', FileTasks) \in Nat
      /\ Count(uiTasks', FileTasks) = Count(uiTasks, FileTasks) - 1
  BY <1>2, FirstUiTaken DEF UiFileTask
<1>4. PICK t : t = Head(uiTasks)
  OBVIOUS
<1>5. t \in LoaderTaskOf(Created) /\ t \in FileTasks /\ t \notin LoadTasks
  BY <1>3, <1>4 DEF FileTasks, LoaderTaskOf, LoadTasks
<1>6. loaderTasks' = Append(loaderTasks, t) /\ loaderTasks \in Seq(LoaderTaskOf(Created))
  BY <1>4 DEF UiFileTask, Base, Typed, TasksTyped
<1>7. /\ loaderTasks' \in Seq(LoaderTaskOf(Created))
      /\ Count(loaderTasks', FileTasks) = Count(loaderTasks, FileTasks) + 1
      /\ Count(loaderTasks', LoadTasks) = Count(loaderTasks, LoadTasks)
  BY <1>5, <1>6, CountOfAppend
<1>8. TasksTyped'
  BY <1>1, <1>3, <1>7 DEF TasksTyped
<1>9. /\ ViewsTyped' /\ CacheTyped' /\ MapsTyped' /\ LoadsTyped' /\ DecoderTyped' /\ FilesTyped'
      /\ calls' \in 0..MaxCalls /\ HistoryTyped' /\ CacheFits'
  BY <1>1 DEF UiFileTask, Base, Typed, ViewsTyped, CacheTyped, MapsTyped, LoadsTyped,
              DecoderTyped, HistoryTyped, CacheFits, FilesTyped, views, cache, maps, images,
              decoder, history, files
<1>10. LoadsAreBounded'
  <2> DEFINE a == Count(loaderTasks, LoadTasks)  c == Count(loaderTasks, FileTasks)
             n == Cardinality(Created)  m == Cardinality(downloading)
             u == Count(uiTasks, FileTasks)
  <2>1. /\ a \in Nat /\ c \in Nat /\ n \in Nat /\ m \in Nat /\ u \in Nat /\ calls \in Nat
    BY CountsAreNumbers
  <2>2. Created = 1..n /\ n + 2 * a + m + u + c <= 2 * calls
    BY DEF Base, LoadsAreBounded
  <2>3. LoadsAreBounded' <=> /\ Created = 1..n
                             /\ n + 2 * a + m + (u - 1) + (c + 1) <= 2 * calls
    BY <1>1, <1>3, <1>7 DEF LoadsAreBounded, UiFileTask, files
  <2> HIDE DEF a, c, n, m, u
  <2>4. n + 2 * a + m + (u - 1) + (c + 1) <= 2 * calls
    BY <2>1, <2>2
  <2>5. QED
    BY <2>2, <2>3, <2>4
<1>11. QED
  BY <1>8, <1>9, <1>10 DEF Base, Typed

-----------------------------------------------------------------------------
(* Decoded and Show keep the types.                                        *)

\* A task of the main thread that is no file's end.
UiTaken ==
    /\ uiTasks # <<>> /\ Head(uiTasks).kind # "file" /\ uiTasks' = Tail(uiTasks)
    /\ UNCHANGED <<maps, images, decoder, files, calls>>

LEMMA UiTaskKeepsBase ==
    ASSUME Base, UiTaken, ViewsTyped' /\ CacheTyped' /\ CacheFits' /\ HistoryTyped',
           loaderTasks' \in Seq(LoaderTaskOf(Created)),
           Count(loaderTasks', LoadTasks) = Count(loaderTasks, LoadTasks),
           Count(loaderTasks', FileTasks) = Count(loaderTasks, FileTasks)
    PROVE  Base'
<1>1. Created' = Created
  BY SameLoads DEF UiTaken, images
<1>2. /\ uiTasks' \in Seq(UiTaskOf(Created)) /\ Count(uiTasks', FileTasks) \in Nat
      /\ Count(uiTasks', FileTasks) <= Count(uiTasks, FileTasks)
  BY FirstUiTaken DEF UiTaken
<1>3. TasksTyped'
  BY <1>1, <1>2 DEF TasksTyped
<1>4. MapsTyped' /\ LoadsTyped' /\ DecoderTyped' /\ FilesTyped' /\ calls' \in 0..MaxCalls
  BY <1>1 DEF UiTaken, Base, Typed, MapsTyped, LoadsTyped, DecoderTyped, FilesTyped, maps,
              images, decoder, files
<1>5. LoadsAreBounded'
  <2> DEFINE a == Count(loaderTasks, LoadTasks)  c == Count(loaderTasks, FileTasks)
             n == Cardinality(Created)  m == Cardinality(downloading)
             u == Count(uiTasks, FileTasks)  w == Count(uiTasks', FileTasks)
  <2>1. /\ a \in Nat /\ c \in Nat /\ n \in Nat /\ m \in Nat /\ u \in Nat /\ calls \in Nat
        /\ w \in Nat /\ w <= u
    BY <1>2, CountsAreNumbers
  <2>2. Created = 1..n /\ n + 2 * a + m + u + c <= 2 * calls
    BY DEF Base, LoadsAreBounded
  <2>3. LoadsAreBounded' <=> /\ Created = 1..n
                             /\ n + 2 * a + m + w + c <= 2 * calls
    BY <1>1 DEF LoadsAreBounded, UiTaken, files
  <2> HIDE DEF a, c, n, m, u, w
  <2>4. n + 2 * a + m + w + c <= 2 * calls
    BY <2>1, <2>2
  <2>5. QED
    BY <2>2, <2>3, <2>4
<1>6. QED
  BY <1>3, <1>4, <1>5 DEF Base, Typed

\* The end of a decoding, with the operators in the words of the proofs.
DecodedIs(c, b) ==
    /\ uiTasks # <<>> /\ Head(uiTasks).kind = "decoded"
    /\ Head(uiTasks).load = c /\ Head(uiTasks).bitmap = b
    /\ uiTasks' = Tail(uiTasks)
    /\ UNCHANGED <<views, bitmapUseCounts, maps, images, decoder, files, calls, history>>
    /\ \/ /\ b = 0
          /\ UNCHANGED <<lru, recycled>>
          /\ loaderTasks' = Append(loaderTasks, SetTask(c, 0))
       \/ /\ b # 0 /\ Cached(lru, key[c]) # 0
          /\ recycled' = recycled \cup {b}
          /\ lru' = Touch(lru, key[c])
          /\ loaderTasks' = Append(loaderTasks, SetTask(c, Cached(lru, key[c])))
       \/ /\ b # 0 /\ Cached(lru, key[c]) = 0
          /\ lru' = Trimmed(Append(lru, b))
          /\ recycled' = recycled \cup Unused(ToSet(Append(lru, b)) \ ToSet(lru'),
                                              bitmapUseCounts)
          /\ loaderTasks' = Append(loaderTasks, SetTask(c, b))

LEMMA DecodedDoes ==
    ASSUME Base, Decoded
    PROVE  \E c \in Created, b \in Created \cup {0} : DecodedIs(c, b)
<1>1. uiTasks # <<>> /\ Head(uiTasks).kind = "decoded"
  BY DEF Decoded, FirstUi
<1>2. Head(uiTasks).load \in Created /\ Head(uiTasks).bitmap \in Created \cup {0}
  BY <1>1, FirstUiTaken
<1>3. PICK c \in Created, b \in Created \cup {0} :
          c = Head(uiTasks).load /\ b = Head(uiTasks).bitmap
  BY <1>2
<1>4. DecodedIs(c, b)
  BY <1>1, <1>3, Zenon DEF Decoded, DecodedIs, cache
<1>5. QED
  BY <1>4

LEMMA DecodedKeepsBase ==
    ASSUME Base, Decoded
    PROVE  Base'
<1>1. PICK c \in Created, b \in Created \cup {0} : DecodedIs(c, b)
  BY DecodedDoes
<1>2. Created' = Created
  BY <1>1, SameLoads DEF DecodedIs, images
<1>3. /\ lru \in Seq(Created) /\ Len(lru) <= Capacity /\ recycled \subseteq Created
      /\ loaderTasks \in Seq(LoaderTaskOf(Created))
  BY DEF Base, Typed, CacheTyped, CacheFits, TasksTyped
<1>4. Cached(lru, key[c]) \in Created \cup {0}
  BY <1>3, CachedIsThere
<1>5. /\ lru' \in Seq(Created) /\ Len(lru') <= Capacity /\ recycled' \subseteq Created
      /\ \E h \in Created \cup {0} : loaderTasks' = Append(loaderTasks, SetTask(c, h))
  <2>1. CASE b = 0
    BY <1>1, <1>3, <2>1 DEF DecodedIs
  <2>2. CASE b # 0 /\ Cached(lru, key[c]) # 0
    BY <1>1, <1>3, <1>4, <2>2, TouchTyped DEF DecodedIs
  <2>3. CASE b # 0 /\ Cached(lru, key[c]) = 0
    <3>1. b \in Created
      BY <2>3
    <3>2. PICK p : p = Append(lru, b)
      OBVIOUS
    <3>3. p \in Seq(Created) /\ Trimmed(p) \in Seq(Created) /\ Len(Trimmed(p)) <= Capacity
      BY <1>3, <3>1, <3>2, TrimmedTyped
    <3>4. ToSet(p) \subseteq Created
      BY <3>3, InToSet
    <3>5. /\ lru' = Trimmed(p)
          /\ recycled' = recycled \cup Unused(ToSet(p) \ ToSet(lru'), bitmapUseCounts)
          /\ loaderTasks' = Append(loaderTasks, SetTask(c, b))
      BY <1>1, <2>3, <3>2 DEF DecodedIs
    <3>6. recycled' \subseteq Created
      BY <1>3, <3>4, <3>5 DEF Unused
    <3>7. QED
      BY <3>1, <3>3, <3>5, <3>6
  <2>4. QED
    BY <2>1, <2>2, <2>3
<1>6. PICK h \in Created \cup {0} : loaderTasks' = Append(loaderTasks, SetTask(c, h))
  BY <1>5
<1>7. PICK t : t = SetTask(c, h)
  OBVIOUS
<1>8. t \in LoaderTaskOf(Created) /\ t \notin LoadTasks /\ t \notin FileTasks
  BY <1>7 DEF SetTask, LoaderTaskOf, LoadTasks, FileTasks
<1>9. /\ loaderTasks' \in Seq(LoaderTaskOf(Created))
      /\ Count(loaderTasks', LoadTasks) = Count(loaderTasks, LoadTasks)
      /\ Count(loaderTasks', FileTasks) = Count(loaderTasks, FileTasks)
  BY <1>3, <1>6, <1>7, <1>8, CountOfAppend
<1>10. UiTaken
  BY <1>1 DEF DecodedIs, UiTaken
<1>11. CacheTyped' /\ CacheFits'
  BY <1>1, <1>2, <1>5 DEF DecodedIs, Base, Typed, CacheTyped, CacheFits
<1>12. ViewsTyped' /\ HistoryTyped'
  BY <1>1, <1>2 DEF DecodedIs, Base, Typed, ViewsTyped, HistoryTyped, views, history
<1>13. QED
  BY <1>1, <1>9, <1>10, <1>11, <1>12, UiTaskKeepsBase DEF DecodedIs

\* setImageBitmapByKey, for the views vs.
ShowIs(k, b, vs) ==
    /\ uiTasks # <<>> /\ Head(uiTasks).kind = "show"
    /\ Head(uiTasks).key = k /\ Head(uiTasks).bitmap = b
    /\ vs = {v \in Head(uiTasks).views : currentKey[v] = k}
    /\ uiTasks' = Tail(uiTasks)
    /\ currentImage' = [v \in Views |-> IF v \in vs THEN b ELSE currentImage[v]]
    /\ bitmapUseCounts' = [bitmapUseCounts EXCEPT ![k] = @ + Cardinality(vs)]
    /\ tainted' = IF vs # {} /\ b \in recycled THEN tainted \cup {k} ELSE tainted
    /\ doubled' = IF \E v \in vs : currentImage[v] # 0 THEN doubled \cup {k} ELSE doubled
    /\ UNCHANGED <<currentKey, canceledLoading, lru, recycled, maps, images, loaderTasks,
                   decoder, files, calls, excused>>

LEMMA ShowDoes ==
    ASSUME Base, Show
    PROVE  \E k \in Keys, b \in Created, vs \in SUBSET Views : ShowIs(k, b, vs)
<1>1. uiTasks # <<>> /\ Head(uiTasks).kind = "show"
  BY DEF Show, FirstUi
<1>2. /\ Head(uiTasks).key \in Keys /\ Head(uiTasks).bitmap \in Created
      /\ Head(uiTasks).views \subseteq Views
  BY <1>1, FirstUiTaken
<1>3. PICK k \in Keys, b \in Created : k = Head(uiTasks).key /\ b = Head(uiTasks).bitmap
  BY <1>2
<1>4. PICK vs \in SUBSET Views : vs = {v \in Head(uiTasks).views : currentKey[v] = k}
  BY <1>2
<1>5. ShowIs(k, b, vs)
  BY <1>1, <1>3, <1>4, Zenon DEF Show, ShowIs
<1>6. QED
  BY <1>5

LEMMA ShowKeepsBase ==
    ASSUME Base, Show
    PROVE  Base'
<1>1. PICK k \in Keys, b \in Created, vs \in SUBSET Views : ShowIs(k, b, vs)
  BY ShowDoes
<1>2. Created' = Created
  BY <1>1, SameLoads DEF ShowIs, images
<1>3. Cardinality(vs) \in Nat
  BY FS_Subset, FS_CardinalityType, LoadsAreNumbers
<1>4. CacheTyped' /\ CacheFits'
  BY <1>1, <1>2, <1>3 DEF ShowIs, Base, Typed, CacheTyped, CacheFits
<1>5. ViewsTyped'
  BY <1>1, <1>2 DEF ShowIs, Base, Typed, ViewsTyped
<1>6. HistoryTyped'
  BY <1>1 DEF ShowIs, Base, Typed, HistoryTyped
<1>7. UiTaken
  BY <1>1 DEF ShowIs, UiTaken
<1>8. /\ loaderTasks' \in Seq(LoaderTaskOf(Created))
      /\ Count(loaderTasks', LoadTasks) = Count(loaderTasks, LoadTasks)
      /\ Count(loaderTasks', FileTasks) = Count(loaderTasks, FileTasks)
  BY <1>1 DEF ShowIs, Base, Typed, TasksTyped
<1>9. QED
  BY <1>4, <1>5, <1>6, <1>7, <1>8, UiTaskKeepsBase

-----------------------------------------------------------------------------
LEMMA InitIsBase ==
    ASSUME Init
    PROVE  Base
<1>1. Created = {}
  BY DEF Init, Created
<1>2. Typed
  BY <1>1, ImageAssumption, FS_EmptySet
     DEF Init, Typed, ViewsTyped, CacheTyped, MapsTyped, LoadsTyped, TasksTyped,
         DecoderTyped, FilesTyped, HistoryTyped
<1>3. LoadsAreBounded
  <2>1. /\ Count(loaderTasks, LoadTasks) = 0 /\ Count(loaderTasks, FileTasks) = 0
        /\ Count(uiTasks, FileTasks) = 0
    <3>1. uiTasks = <<>> /\ loaderTasks = <<>> /\ <<>> \in Seq({})
      BY DEF Init
    <3>2. QED
      BY <3>1, CountIsFinite
  <2>2. Cardinality(Created) = 0 /\ Cardinality(downloading) = 0
    BY <1>1, FS_EmptySet DEF Init
  <2>3. QED
    BY <1>1, <2>1, <2>2 DEF LoadsAreBounded, Init
<1>4. CacheFits
  BY ImageAssumption DEF Init, CacheFits
<1>5. QED
  BY <1>2, <1>3, <1>4 DEF Base

LEMMA StepKeepsBase ==
    ASSUME Base, [Next]_vars
    PROVE  Base'
<1>1. CASE Users
  <2>1. ActTyped
    <3>1. CASE ClearMemory
      BY <3>1, ClearMemoryTyped
    <3>2. ASSUME NEW v \in Views, NEW k \in Keys, SetImage(v, k)
          PROVE  ActTyped
      BY <3>2, SetImageTyped
    <3>3. ASSUME NEW v \in Views, SetImageAgain(v)
          PROVE  ActTyped
      BY <3>3, SetImageAgainTyped
    <3>4. ASSUME NEW v \in Views, NEW detached \in BOOLEAN, ClearImage(v, detached)
          PROVE  ActTyped
      BY <3>4, ClearImageTyped
    <3>5. ASSUME NEW v \in Views, CancelLoadImage(v)
          PROVE  ActTyped
      BY <3>5, CancelLoadImageTyped
    <3>6. ASSUME NEW v \in Views, DrawError(v)
          PROVE  ActTyped
      BY <3>6, DrawErrorTyped
    <3>7. QED
      BY <1>1, <3>1, <3>2, <3>3, <3>4, <3>5, <3>6 DEF Users
  <2>2. QED
    BY <2>1, ActKeepsBase
<1>2. CASE ImageLoadQueue
  <2>1. CASE CancelLoading
    BY <2>1, CancelLoadingTyped, TaskKeepsBase
  <2>2. CASE AlreadyAdded
    BY <2>2, AlreadyAddedTyped, TaskKeepsBase
  <2>3. CASE JoinOrCreate
    BY <2>3, JoinOrCreateKeepsBase
  <2>4. CASE FileDidLoaded
    BY <2>4, FileDidLoadedKeepsBase
  <2>5. CASE FileDidFailedLoad
    BY <2>5, FileDidFailedLoadTyped, TaskKeepsBase
  <2>6. CASE SetDecoded
    BY <2>6, SetDecodedTyped, TaskKeepsBase
  <2>7. QED
    BY <1>2, <2>1, <2>2, <2>3, <2>4, <2>5, <2>6 DEF ImageLoadQueue
<1>3. CASE CacheOutQueue
  BY <1>3, DecodeKeepsBase, EndDecodeKeepsBase DEF CacheOutQueue
<1>4. CASE Downloads
  BY <1>4, EndDownloadKeepsBase DEF Downloads
<1>5. CASE UiThread
  BY <1>5, UiFileTaskKeepsBase, DecodedKeepsBase, ShowKeepsBase DEF UiThread
<1>6. CASE UNCHANGED vars
  <2>1. Created' = Created
    BY <1>6, SameLoads DEF vars, images
  <2>2. Typed'
    BY <1>6, <2>1 DEF vars, views, cache, maps, images, decoder, files, history, Base, Typed,
       ViewsTyped, CacheTyped, MapsTyped, LoadsTyped, TasksTyped, DecoderTyped, FilesTyped,
       HistoryTyped
  <2>3. LoadsAreBounded' /\ CacheFits'
    BY <1>6, <2>1 DEF vars, cache, files, Base, LoadsAreBounded, CacheFits
  <2>4. QED
    BY <2>2, <2>3 DEF Base
<1>7. QED
  BY <1>1, <1>2, <1>3, <1>4, <1>5, <1>6 DEF Next

LEMMA BaseImpliesTypeOK ==
    ASSUME Base
    PROVE  TypeOK
<1>1. /\ ViewsTyped /\ CacheTyped /\ MapsTyped /\ LoadsTyped /\ TasksTyped /\ DecoderTyped
      /\ FilesTyped /\ calls \in 0..MaxCalls /\ HistoryTyped /\ Len(lru) <= Capacity
  BY DEF Base, Typed, CacheFits
<1>2. Created \subseteq Loads
  BY LoadsAreNumbers
<1>3. PICK S : S = Created
  OBVIOUS
<1>4. /\ UiTaskOf(S) \subseteq UiTask /\ LoaderTaskOf(S) \subseteq LoaderTask
  BY <1>2, <1>3 DEF UiTaskOf, LoaderTaskOf, UiTask, LoaderTask
<1>5. uiTasks \in Seq(UiTask) /\ loaderTasks \in Seq(LoaderTask)
  BY <1>1, <1>3, <1>4, SeqOfMore DEF TasksTyped
<1>6. QED
  BY <1>1, <1>2, <1>5 DEF TypeOK, ViewsTyped, CacheTyped, MapsTyped, LoadsTyped, DecoderTyped,
                          FilesTyped, HistoryTyped

\* The types, and the room for loads, are kept by every step.
THEOREM AlwaysBase == Spec => []Base
<1>1. Init => Base
  BY InitIsBase
<1>2. Base /\ [Next]_vars => Base'
  BY StepKeepsBase
<1>3. QED
  BY <1>1, <1>2, PTL DEF Spec

\* TypeOK always holds: the variables have the types of the code's, and the cache
\* holds no more bitmaps than fit (trimToSize).
THEOREM Typing == Spec => []TypeOK
<1>1. Base => TypeOK
  BY BaseImpliesTypeOK
<1>2. QED
  BY <1>1, AlwaysBase, PTL

-----------------------------------------------------------------------------
(* The keys of loads.                                                      *)

\* A load keeps its key.
KeysStay == \A c \in Created : key'[c] = key[c]

LEMMA KeysOfAStep ==
    ASSUME Base, KeysAreOwn, [Next]_vars
    PROVE  KeysAreOwn' /\ KeysStay /\ Created \subseteq Created'
<1>1. ASSUME key' = key, \A k \in Keys : imageLoadingByKeys'[k] \in {imageLoadingByKeys[k], 0}
      PROVE  KeysAreOwn' /\ KeysStay /\ Created \subseteq Created'
  BY <1>1, SameLoads DEF KeysAreOwn, KeysStay
<1>2. /\ imageLoadingByKeys \in [Keys -> Created \cup {0}] /\ 0 \notin Created
      /\ key \in [Loads -> Keys \cup {None}] /\ Created \subseteq Loads
      /\ loaderTasks # <<>> /\ Head(loaderTasks).kind = "load" =>
            imageLoadingByTag[Head(loaderTasks).view] \in Created \cup {0}
  BY FirstTaskTaken, LoadsAreNumbers DEF Base, Typed, MapsTyped, LoadsTyped
<1>3. \A c, v : \A k \in Keys : KeysWithout(c, v)[k] \in {imageLoadingByKeys[k], 0}
  BY <1>2 DEF KeysWithout
<1>4. CASE Users
  BY <1>1, <1>4 DEF Users, ClearMemory, SetImage, SetImageAgain, ClearImage, CancelLoadImage,
                    DrawError, maps, images
<1>5. CASE ImageLoadQueue
  <2>1. CASE CancelLoading
    BY <1>1, <1>3, <2>1 DEF CancelLoading
  <2>2. CASE AlreadyAdded
    BY <1>1, <2>2 DEF AlreadyAdded, maps, images
  <2>3. CASE JoinOrCreate
    <3>1. PICK v \in Views, k \in Keys, old \in Created \cup {0}, c \in Loads :
              JoinOrCreateIs(v, k, old, c)
      BY <2>3, JoinOrCreateDoes
    <3>2. CASE Joins(c, k, old, v)
      BY <1>1, <1>3, <3>2 DEF Joins
    <3>3. ASSUME key' = [key EXCEPT ![c] = k], c = NewLoad
          PROVE  /\ KeysStay /\ Created \subseteq Created' /\ key'[c] = k
                 /\ \A j \in Keys : imageLoadingByKeys[j] # 0 =>
                        key'[imageLoadingByKeys[j]] = j
      <4>1. Count(loaderTasks, LoadTasks) > 0 /\ Count(loaderTasks, FileTasks) \in Nat
        BY <3>1, FirstTaskTaken, CountsAreNumbers DEF JoinOrCreateIs
      <4>2. c \notin Created
        BY <3>3, <4>1, NewLoadIsNext, CountsAreNumbers
      <4>3. KeysStay
        BY <1>2, <3>3, <4>2 DEF KeysStay
      <4>4. Created \subseteq Created' /\ key'[c] = k
        BY <3>3, CreatedGrows DEF Base
      <4>5. QED
        BY <1>2, <4>3, <4>4 DEF KeysAreOwn, KeysStay
    <3>4. CASE CreatesDecoded(c, k, old, v)
      <4>1. KeysStay /\ Created \subseteq Created'
        BY <3>3, <3>4 DEF CreatesDecoded
      <4>2. KeysAreOwn'
        <5>1. PICK m : m = KeysWithout(old, v)
          OBVIOUS
        <5>2. m \in [Keys -> Created \cup {0}]
          BY <5>1, WithoutTyped
        <5>3. \A j \in Keys : j # k => imageLoadingByKeys'[j] \in {imageLoadingByKeys[j], 0}
          BY <1>3, <3>4, <5>1, <5>2 DEF CreatesDecoded
        <5>4. imageLoadingByKeys'[k] = c
          BY <3>4, <5>1, <5>2 DEF CreatesDecoded
        <5>5. QED
          BY <3>3, <3>4, <5>3, <5>4 DEF CreatesDecoded, KeysAreOwn
      <4>3. QED
        BY <4>1, <4>2
    <3>5. CASE CreatesRemote(c, k, old, v)
      <4>1. KeysStay /\ Created \subseteq Created'
        BY <3>3, <3>5 DEF CreatesRemote
      <4>2. \A j \in Keys : imageLoadingByKeys'[j] \in {imageLoadingByKeys[j], 0}
        BY <1>3, <3>5 DEF CreatesRemote
      <4>3. KeysAreOwn'
        BY <3>3, <3>5, <4>2 DEF CreatesRemote, KeysAreOwn
      <4>4. QED
        BY <4>1, <4>3
    <3>6. QED
      BY <3>1, <3>2, <3>4, <3>5 DEF JoinOrCreateIs
  <2>4. CASE FileDidLoaded
    <3>1. PICK u \in Urls :
              \/ FileForNobody(u)
              \/ \E c \in Created, k \in Keys, to \in Loads : FileForViews(u, c, k, to)
      BY <2>4, FileDidLoadedDoes
    <3>2. CASE FileForNobody(u)
      BY <1>1, <3>2 DEF FileForNobody, images
    <3>3. ASSUME NEW c \in Created, NEW k \in Keys, NEW to \in Loads, FileForViews(u, c, k, to)
          PROVE  KeysAreOwn' /\ KeysStay /\ Created \subseteq Created'
      <4>1. to \notin Created \/ key[to] = k
        BY <3>3, <1>2 DEF FileForViews, KeysAreOwn
      <4>2. key' = [key EXCEPT ![to] = k]
            /\ imageLoadingByKeys' = [imageLoadingByKeys EXCEPT ![k] = to]
        BY <3>3 DEF FileForViews
      <4>3. KeysStay
        BY <1>2, <4>1, <4>2 DEF KeysStay
      <4>4. Created \subseteq Created' /\ key'[to] = k
        BY <4>2, CreatedGrows DEF Base
      <4>5. KeysAreOwn'
        BY <1>2, <4>2, <4>3, <4>4 DEF KeysAreOwn, KeysStay
      <4>6. QED
        BY <4>3, <4>4, <4>5
    <3>4. QED
      BY <3>1, <3>2, <3>3
  <2>5. CASE FileDidFailedLoad
    BY <1>1, <1>2, <2>5 DEF FileDidFailedLoad, SetImageAndClear, maps, images
  <2>6. CASE SetDecoded
    BY <1>1, <1>2, <2>6 DEF SetDecoded, SetImageAndClear
  <2>7. QED
    BY <1>5, <2>1, <2>2, <2>3, <2>4, <2>5, <2>6 DEF ImageLoadQueue
<1>6. CASE CacheOutQueue
  BY <1>1, <1>6 DEF CacheOutQueue, Decode, EndDecode, maps, images
<1>7. CASE Downloads
  BY <1>1, <1>7 DEF Downloads, EndDownload, maps, images
<1>8. CASE UiThread
  BY <1>1, <1>8 DEF UiThread, UiFileTask, Decoded, Show, maps, images
<1>9. CASE UNCHANGED vars
  BY <1>1, <1>9 DEF vars, maps, images
<1>10. QED
  BY <1>4, <1>5, <1>6, <1>7, <1>8, <1>9 DEF Next

-----------------------------------------------------------------------------
(* Bitmaps.                                                                *)

\* The list of tasks after one was put on it or taken from it.
LEMMA TasksAfterAppend ==
    ASSUME NEW A, NEW s \in Seq(A), NEW t \in A
    PROVE  /\ ToSet(Append(s, t)) = ToSet(s) \cup {t}
           /\ \A i \in DOMAIN Append(s, t) :
                  \/ i \in DOMAIN s /\ Append(s, t)[i] = s[i]
                  \/ i = Len(s) + 1 /\ Append(s, t)[i] = t
           /\ Len(s) + 1 \in DOMAIN Append(s, t) /\ Append(s, t)[Len(s) + 1] = t
           /\ \A i \in DOMAIN s : i \in DOMAIN Append(s, t) /\ Append(s, t)[i] = s[i]
<1> DEFINE u == Append(s, t)
<1>1. /\ DOMAIN u = 1..(Len(s) + 1) /\ DOMAIN s = 1..Len(s) /\ Len(s) \in Nat
      /\ \A i \in 1..Len(s) : u[i] = s[i]
      /\ u[Len(s) + 1] = t
  OBVIOUS
<1>2. ToSet(u) = ToSet(s) \cup {t}
  BY ToSetOfAppend
<1> HIDE DEF u
<1>3. \A i \in 1..(Len(s) + 1) : i \in 1..Len(s) \/ i = Len(s) + 1
  BY <1>1
<1>4. /\ \A i \in DOMAIN u : \/ i \in DOMAIN s /\ u[i] = s[i]
                             \/ i = Len(s) + 1 /\ u[i] = t
      /\ Len(s) + 1 \in DOMAIN u /\ u[Len(s) + 1] = t
      /\ \A i \in DOMAIN s : i \in DOMAIN u /\ u[i] = s[i]
  BY <1>1, <1>3
<1>5. QED
  BY <1>2, <1>4 DEF u

LEMMA TasksAfterTail ==
    ASSUME NEW A, NEW s \in Seq(A), s # <<>>
    PROVE  /\ ToSet(s) = {Head(s)} \cup ToSet(Tail(s))
           /\ Head(s) = s[1] /\ 1 \in DOMAIN s
           /\ \A i \in DOMAIN Tail(s) :
                  i + 1 \in DOMAIN s /\ Tail(s)[i] = s[i + 1] /\ i + 1 # 1 /\ i \in Nat
<1>1. /\ Len(Tail(s)) = Len(s) - 1 /\ DOMAIN s = 1..Len(s)
      /\ DOMAIN Tail(s) = 1..(Len(s) - 1)
      /\ \A i \in 1..Len(Tail(s)) : Tail(s)[i] = s[i + 1]
      /\ Len(s) \in Nat \ {0} /\ Head(s) = s[1]
  BY HeadTailProperties, EmptySeq
<1>2. ToSet(s) = {Head(s)} \cup ToSet(Tail(s))
  BY ToSetOfTail
<1>3. QED
  BY <1>1, <1>2

\* A bitmap that is used was created.
LEMMA UsedAreCreated ==
    ASSUME Base, NEW b, InUse(b), b # 0
    PROVE  b \in Created
<1>1. /\ lru \in Seq(Created) /\ recycled \subseteq Created
      /\ currentImage \in [Views -> Created \cup {0}]
      /\ uiTasks \in Seq(UiTaskOf(Created)) /\ loaderTasks \in Seq(LoaderTaskOf(Created))
  BY DEF Base, Typed, CacheTyped, ViewsTyped, TasksTyped
<1>2. CASE b \in ToSet(lru)
  BY <1>1, <1>2, InToSet
<1>3. CASE b \in recycled \/ \E v \in Views : currentImage[v] = b
  BY <1>1, <1>3
<1>4. ASSUME NEW t \in ToSet(uiTasks), t.kind = "show", t.bitmap = b
      PROVE  b \in Created
  <2>1. t \in UiTaskOf(Created)
    BY <1>1, InToSet
  <2>2. QED
    BY <1>4, <2>1 DEF UiTaskOf
<1>5. ASSUME NEW t \in ToSet(loaderTasks), t.kind = "set", t.bitmap = b
      PROVE  b \in Created
  <2>1. t \in LoaderTaskOf(Created)
    BY <1>1, InToSet
  <2>2. QED
    BY <1>5, <2>1 DEF LoaderTaskOf
<1>6. QED
  BY <1>2, <1>3, <1>4, <1>5 DEF InUse

\* A load that is decoded was created.
LEMMA UndecodedAreCreated ==
    ASSUME Base, NEW c, Undecoded(c), c # 0
    PROVE  c \in Created
<1>1. /\ decodeTasks \in Seq(Created) /\ decoding \in Created \cup {0}
      /\ uiTasks \in Seq(UiTaskOf(Created))
  BY DEF Base, Typed, DecoderTyped, TasksTyped
<1>2. ASSUME NEW i \in DOMAIN uiTasks, DecodedAt(i, c)
      PROVE  c \in Created
  <2>1. uiTasks[i] \in UiTaskOf(Created)
    BY <1>1
  <2>2. QED
    BY <1>2, <2>1 DEF UiTaskOf, DecodedAt
<1>3. QED
  BY <1>1, <1>2, InToSet DEF Undecoded

\* Nothing is used anew and nothing is to be decoded but new loads.
LEMMA DecodedStays ==
    ASSUME Base, BitmapsAreDecoded,
           \A c \in Created : InUse(c)' => InUse(c),
           \A c \in Created : Undecoded(c)' => Undecoded(c),
           \A c \in Created' \ Created : ~InUse(c)'
    PROVE  BitmapsAreDecoded'
BY DEF BitmapsAreDecoded

\* DecodedOnce as long as no load is decoded, though there may be new ones.
DecodingStays ==
    /\ DecodedOnce'
    /\ \A c \in Created : Undecoded(c)' => Undecoded(c)

LEMMA DecodeTasksChange ==
    ASSUME Base, DecodedOnce, IsInjective(decodeTasks'), decoding' = decoding,
           uiTasks' = uiTasks,
           \A c \in ToSet(decodeTasks') : c \in ToSet(decodeTasks) \/ c \in Loads \ Created
    PROVE  DecodingStays
<1>1. decoding \in Created \cup {0} /\ uiTasks \in Seq(UiTaskOf(Created)) /\ 0 \notin Loads
  BY LoadsAreNumbers DEF Base, Typed, DecoderTyped, TasksTyped
<1>2. \A i \in DOMAIN uiTasks : uiTasks[i].kind = "decoded" => uiTasks[i].load \in Created
  <2>1. \A i \in DOMAIN uiTasks : uiTasks[i] \in UiTaskOf(Created)
    BY <1>1
  <2>2. QED
    BY <2>1 DEF UiTaskOf
<1>3. decoding' \notin ToSet(decodeTasks')
  BY <1>1 DEF DecodedOnce
<1>4. \A i \in DOMAIN uiTasks : uiTasks[i].kind = "decoded" =>
          uiTasks[i].load \notin ToSet(decodeTasks') \cup {decoding'}
  BY <1>2 DEF DecodedOnce
<1>5. DecodedOnce'
  BY <1>3, <1>4 DEF DecodedOnce, DecodedAt
<1>6. \A c \in Created : Undecoded(c)' => Undecoded(c)
  BY DEF Undecoded, DecodedAt
<1>7. QED
  BY <1>5, <1>6 DEF DecodingStays

LEMMA UiTaskAdded ==
    ASSUME Base, DecodedOnce, UNCHANGED decoder,
           NEW t \in UiTaskOf(Created), t.kind # "decoded", uiTasks' = Append(uiTasks, t)
    PROVE  DecodingStays
<1>1. uiTasks \in Seq(UiTaskOf(Created))
  BY DEF Base, Typed, TasksTyped
<1>2. /\ \A i \in DOMAIN uiTasks' :
             \/ i \in DOMAIN uiTasks /\ uiTasks'[i] = uiTasks[i]
             \/ uiTasks'[i] = t
  BY <1>1, TasksAfterAppend
<1>3. \A i \in DOMAIN uiTasks' : uiTasks'[i].kind = "decoded" =>
          i \in DOMAIN uiTasks /\ uiTasks'[i] = uiTasks[i]
  BY <1>2
<1>4. DecodedOnce'
  BY <1>3 DEF DecodedOnce, DecodedAt, decoder
<1>5. \A c \in Created : Undecoded(c)' => Undecoded(c)
  BY <1>3 DEF Undecoded, DecodedAt, decoder
<1>6. QED
  BY <1>4, <1>5 DEF DecodingStays

LEMMA UiTaskDone ==
    ASSUME Base, DecodedOnce, UNCHANGED decoder, uiTasks # <<>>, uiTasks' = Tail(uiTasks)
    PROVE  /\ DecodingStays
           /\ \A c : Head(uiTasks).kind = "decoded" /\ c = Head(uiTasks).load =>
                  ~Undecoded(c)' /\ Undecoded(c) /\ Head(uiTasks).bitmap \in {0, c}
<1>1. uiTasks \in Seq(UiTaskOf(Created))
  BY DEF Base, Typed, TasksTyped
<1>2. /\ Head(uiTasks) = uiTasks[1] /\ 1 \in DOMAIN uiTasks
      /\ \A i \in DOMAIN uiTasks' :
             i + 1 \in DOMAIN uiTasks /\ uiTasks'[i] = uiTasks[i + 1] /\ i + 1 # 1 /\ i \in Nat
  BY <1>1, TasksAfterTail
<1>3. DecodedOnce'
  <2>1. \A i, j \in DOMAIN uiTasks' :
            /\ uiTasks'[i].kind = "decoded" /\ uiTasks'[j].kind = "decoded"
            /\ uiTasks'[j].load = uiTasks'[i].load
            => i + 1 = j + 1
    BY <1>2 DEF DecodedOnce, DecodedAt
  <2>2. QED
    BY <1>2, <2>1 DEF DecodedOnce, DecodedAt, decoder
<1>4. \A c \in Created : Undecoded(c)' => Undecoded(c)
  BY <1>2 DEF Undecoded, DecodedAt, decoder
<1>5. ASSUME Head(uiTasks).kind = "decoded", NEW c, c = Head(uiTasks).load
      PROVE  ~Undecoded(c)' /\ Undecoded(c) /\ Head(uiTasks).bitmap \in {0, c}
  <2>2. c \notin ToSet(decodeTasks) \cup {decoding} /\ Head(uiTasks).bitmap \in {0, c}
    BY <1>2, <1>5 DEF DecodedOnce
  <2>3. ~ \E i \in DOMAIN uiTasks' : DecodedAt(i, c)'
    BY <1>2, <1>5 DEF DecodedOnce, DecodedAt
  <2>4. DecodedAt(1, c)
    BY <1>2, <1>5 DEF DecodedAt
  <2>5. ~Undecoded(c)' /\ Undecoded(c)
    BY <1>2, <2>2, <2>3, <2>4 DEF Undecoded, decoder
  <2>6. QED
    BY <2>2, <2>5
<1>6. QED
  BY <1>3, <1>4, <1>5 DEF DecodingStays

LEMMA DecodingUnchanged ==
    ASSUME DecodedOnce, UNCHANGED <<decoder, uiTasks>>
    PROVE  DecodingStays
BY DEF DecodedOnce, DecodingStays, Undecoded, DecodedAt, decoder

\* A load whose task may be taken back.
LEMMA FewerDecodeTasks ==
    ASSUME Base, DecodedOnce, NEW c, NEW v
    PROVE  /\ DecodesWithout(c, v) \in Seq(Created)
           /\ IsInjective(DecodesWithout(c, v))
           /\ ToSet(DecodesWithout(c, v)) \subseteq ToSet(decodeTasks)
BY RemoveFirstOfDistinct DEF Base, Typed, DecoderTyped, DecodedOnce, DecodesWithout

\* A new load is decoded for the first time.
LEMMA NewDecodeTask ==
    ASSUME Base, DecodedOnce, decoding' = decoding, uiTasks' = uiTasks,
           NEW s \in Seq(Created), IsInjective(s), ToSet(s) \subseteq ToSet(decodeTasks),
           NEW c \in Loads, c \notin Created, decodeTasks' = Append(s, c)
    PROVE  DecodingStays
<1>1. s \in Seq(Loads)
  BY LoadsAreNumbers, SeqOfMore
<1>2. c \notin ToSet(s)
  BY InToSet
<1>3. IsInjective(Append(s, c)) /\ ToSet(Append(s, c)) = ToSet(s) \cup {c}
  BY <1>1, <1>2, AppendToDistinct, ToSetOfAppend, ContainsToSet
<1>4. QED
  BY <1>3, DecodeTasksChange

LEMMA SetImageAndClearDecodes ==
    ASSUME Base, DecodedOnce, loaderTasks # <<>>, NEW c \in Created,
           NEW b \in Created \cup {0}, SetImageAndClear(c, b)
    PROVE  DecodingStays
<1>1. CASE b = 0
  BY <1>1, DecodingUnchanged DEF SetImageAndClear
<1>2. CASE b # 0
  <2>1. PICK t : t = ShowTask(key[c], b, receivers[c])
    OBVIOUS
  <2>2. key[c] \in Keys /\ receivers[c] \in SUBSET Views
    BY CreatedHaveKeys DEF Base, Typed, LoadsTyped
  <2>3. t \in UiTaskOf(Created) /\ t.kind # "decoded"
    BY <1>2, <2>1, <2>2 DEF ShowTask, UiTaskOf
  <2>4. uiTasks' = Append(uiTasks, t) /\ UNCHANGED decoder
    BY <1>2, <2>1 DEF SetImageAndClear
  <2>5. QED
    BY <2>3, <2>4, UiTaskAdded
<1>3. QED
  BY <1>1, <1>2

LEMMA DecodingOfATask ==
    ASSUME Base, DecodedOnce, ImageLoadQueue
    PROVE  DecodingStays
<1>1. CASE CancelLoading
  <2>1. PICK c, v : decodeTasks' = DecodesWithout(c, v)
    BY <1>1 DEF CancelLoading
  <2>2. decoding' = decoding /\ uiTasks' = uiTasks
    BY <1>1 DEF CancelLoading
  <2>3. QED
    BY <2>1, <2>2, FewerDecodeTasks, DecodeTasksChange
<1>2. CASE AlreadyAdded
  BY <1>2, DecodingUnchanged DEF AlreadyAdded
<1>3. CASE JoinOrCreate
  <2>1. PICK v \in Views, k \in Keys, old \in Created \cup {0}, c \in Loads :
            JoinOrCreateIs(v, k, old, c)
    BY <1>3, JoinOrCreateDoes
  <2>2. decoding' = decoding /\ uiTasks' = uiTasks
    BY <2>1 DEF JoinOrCreateIs
  <2>3. CASE decodeTasks' = DecodesWithout(old, v)
    BY <2>2, <2>3, FewerDecodeTasks, DecodeTasksChange
  <2>4. CASE CreatesDecoded(c, k, old, v)
    <3>1. Count(loaderTasks, LoadTasks) > 0 /\ Count(loaderTasks, FileTasks) \in Nat
      BY <2>1, FirstTaskTaken, CountsAreNumbers DEF JoinOrCreateIs
    <3>2. c \notin Created
      BY <2>4, <3>1, NewLoadIsNext, CountsAreNumbers DEF CreatesDecoded
    <3>3. decodeTasks' = Append(DecodesWithout(old, v), c)
      BY <2>4 DEF CreatesDecoded
    <3>4. QED
      BY <2>2, <3>2, <3>3, FewerDecodeTasks, NewDecodeTask
  <2>5. QED
    BY <2>1, <2>3, <2>4 DEF JoinOrCreateIs, Joins, CreatesRemote
<1>4. CASE FileDidLoaded
  <2>1. PICK u \in Urls :
            \/ FileForNobody(u)
            \/ \E c \in Created, k \in Keys, to \in Loads : FileForViews(u, c, k, to)
    BY <1>4, FileDidLoadedDoes
  <2>2. CASE FileForNobody(u)
    BY <2>2, DecodingUnchanged DEF FileForNobody
  <2>3. ASSUME NEW c \in Created, NEW k \in Keys, NEW to \in Loads, FileForViews(u, c, k, to)
        PROVE  DecodingStays
    <3>1. decoding' = decoding /\ uiTasks' = uiTasks
      BY <2>3 DEF FileForViews
    <3>2. decodeTasks \in Seq(Created) /\ IsInjective(decodeTasks)
      BY DEF Base, Typed, DecoderTyped, DecodedOnce
    <3>3. CASE decodeTasks' = decodeTasks
      BY <3>1, <3>2, <3>3, DecodeTasksChange
    <3>4. CASE decodeTasks' = Append(decodeTasks, to) /\ to \notin Created
      BY <3>1, <3>2, <3>4, NewDecodeTask
    <3>5. QED
      BY <2>3, <3>3, <3>4 DEF FileForViews
  <2>4. QED
    BY <2>1, <2>2, <2>3
<1>5. CASE FileDidFailedLoad
  <2>1. PICK c : c = imageLoadingByUrl[Head(loaderTasks).url]
    OBVIOUS
  <2>2. loaderTasks # <<>> /\ c \in Created \cup {0}
    BY <1>5, <2>1, FirstTaskTaken DEF FileDidFailedLoad, FirstTask, Base, Typed, MapsTyped
  <2>3. CASE c # 0 /\ SetImageAndClear(c, 0)
    BY <2>2, <2>3, SetImageAndClearDecodes
  <2>4. CASE UNCHANGED <<uiTasks, decoder>>
    BY <2>4, DecodingUnchanged
  <2>5. QED
    BY <1>5, <2>1, <2>3, <2>4 DEF FileDidFailedLoad
<1>6. CASE SetDecoded
  <2>1. /\ loaderTasks # <<>> /\ Head(loaderTasks).load \in Created
        /\ Head(loaderTasks).bitmap \in Created \cup {0}
    BY <1>6, FirstTaskTaken DEF SetDecoded, FirstTask
  <2>2. QED
    BY <1>6, <2>1, SetImageAndClearDecodes DEF SetDecoded
<1>7. QED
  BY <1>1, <1>2, <1>3, <1>4, <1>5, <1>6 DEF ImageLoadQueue

\* A task goes from the list into decoding ...
LEMMA DecodeStarts ==
    ASSUME Base, DecodedOnce, Decode
    PROVE  DecodingStays
<1>1. decodeTasks \in Seq(Created) /\ decodeTasks # <<>> /\ IsInjective(decodeTasks)
  BY DEF Decode, Base, Typed, DecoderTyped, DecodedOnce
<1>2. /\ Tail(decodeTasks) \in Seq(Created) /\ IsInjective(Tail(decodeTasks))
      /\ Head(decodeTasks) \in ToSet(decodeTasks)
      /\ ToSet(Tail(decodeTasks)) = ToSet(decodeTasks) \ {Head(decodeTasks)}
  BY <1>1, TailOfDistinct, ToSetOfTail
<1>3. 0 \notin ToSet(decodeTasks)
  BY <1>1, InToSet, LoadsAreNumbers
<1>4. /\ decodeTasks' = Tail(decodeTasks) /\ uiTasks' = uiTasks /\ decoding = 0
      /\ decoding' \in {0, Head(decodeTasks)}
  BY DEF Decode
<1>5. \A i \in DOMAIN uiTasks : uiTasks[i].kind = "decoded" => uiTasks[i].load # 0
  <2>1. \A i \in DOMAIN uiTasks : uiTasks[i] \in UiTaskOf(Created)
    BY DEF Base, Typed, TasksTyped
  <2>2. QED
    BY <2>1, LoadsAreNumbers DEF UiTaskOf
<1>6. decoding' \notin ToSet(decodeTasks')
  BY <1>2, <1>3, <1>4
<1>7. \A i \in DOMAIN uiTasks : uiTasks[i].kind = "decoded" =>
          uiTasks[i].load \notin ToSet(decodeTasks') \cup {decoding'}
  BY <1>2, <1>4, <1>5 DEF DecodedOnce
<1>8. DecodedOnce'
  BY <1>2, <1>4, <1>6, <1>7 DEF DecodedOnce, DecodedAt
<1>9. \A c \in Created : Undecoded(c)' => Undecoded(c)
  BY <1>2, <1>4, LoadsAreNumbers DEF Undecoded, DecodedAt
<1>10. QED
  BY <1>8, <1>9 DEF DecodingStays

\* ... and from there to the main thread, with its own bitmap.
LEMMA DecodeEnds ==
    ASSUME Base, DecodedOnce, NEW ok \in BOOLEAN, EndDecode(ok)
    PROVE  DecodingStays
<1>1. PICK t : t = DecodedTask(decoding, IF ok THEN decoding ELSE 0)
  OBVIOUS
<1>2. /\ decoding \in Created /\ decoding' = 0 /\ decodeTasks' = decodeTasks
      /\ uiTasks' = Append(uiTasks, t) /\ uiTasks \in Seq(UiTaskOf(Created))
  BY <1>1 DEF EndDecode, Base, Typed, DecoderTyped, TasksTyped
<1>3. /\ t \in UiTaskOf(Created) /\ t.kind = "decoded" /\ t.load = decoding
      /\ t.bitmap \in {0, t.load}
  BY <1>1, <1>2 DEF DecodedTask, UiTaskOf
<1>4. \A i \in DOMAIN uiTasks' :
          \/ i \in DOMAIN uiTasks /\ uiTasks'[i] = uiTasks[i]
          \/ i = Len(uiTasks) + 1 /\ uiTasks'[i] = t
  BY <1>2, <1>3, TasksAfterAppend
<1>5. 0 \notin ToSet(decodeTasks) /\ 0 \notin Created
  BY InToSet, LoadsAreNumbers DEF Base, Typed, DecoderTyped
<1>6. \A i \in DOMAIN uiTasks : uiTasks[i].kind = "decoded" =>
          /\ uiTasks[i].load \notin ToSet(decodeTasks) /\ uiTasks[i].load # decoding
          /\ uiTasks[i].bitmap \in {0, uiTasks[i].load} /\ uiTasks[i].load \in Created
  <2>1. \A i \in DOMAIN uiTasks : uiTasks[i] \in UiTaskOf(Created)
    BY <1>2
  <2>2. \A i \in DOMAIN uiTasks : uiTasks[i].kind = "decoded" => uiTasks[i].load \in Created
    BY <2>1 DEF UiTaskOf
  <2>3. QED
    BY <2>2 DEF DecodedOnce
<1>7. \A i \in DOMAIN uiTasks' : uiTasks'[i].kind = "decoded" =>
          /\ uiTasks'[i].load \notin ToSet(decodeTasks') \cup {decoding'}
          /\ uiTasks'[i].bitmap \in {0, uiTasks'[i].load}
  BY <1>2, <1>3, <1>4, <1>5, <1>6 DEF DecodedOnce
<1>8. \A i, j \in DOMAIN uiTasks' :
          /\ uiTasks'[i].kind = "decoded" /\ uiTasks'[j].kind = "decoded"
          /\ uiTasks'[j].load = uiTasks'[i].load
          => i = j
  <2>1. SUFFICES ASSUME NEW i \in DOMAIN uiTasks', NEW j \in DOMAIN uiTasks',
                        uiTasks'[i].kind = "decoded", uiTasks'[j].kind = "decoded",
                        uiTasks'[j].load = uiTasks'[i].load
                 PROVE  i = j
    OBVIOUS
  <2>2. CASE /\ i \in DOMAIN uiTasks /\ uiTasks'[i] = uiTasks[i]
             /\ j \in DOMAIN uiTasks /\ uiTasks'[j] = uiTasks[j]
    BY <2>1, <2>2 DEF DecodedOnce, DecodedAt
  <2>3. CASE i = Len(uiTasks) + 1 /\ uiTasks'[i] = t
    BY <1>3, <1>4, <1>6, <2>1, <2>3
  <2>4. CASE j = Len(uiTasks) + 1 /\ uiTasks'[j] = t
    BY <1>3, <1>4, <1>6, <2>1, <2>4
  <2>5. QED
    BY <1>4, <2>2, <2>3, <2>4
<1>9. DecodedOnce'
  BY <1>2, <1>5, <1>7, <1>8 DEF DecodedOnce, DecodedAt
<1>10. \A c \in Created : Undecoded(c)' => Undecoded(c)
  BY <1>2, <1>3, <1>4, <1>5 DEF Undecoded, DecodedAt
<1>11. QED
  BY <1>9, <1>10 DEF DecodingStays

LEMMA DecodingOfAStep ==
    ASSUME Base, DecodedOnce, [Next]_vars
    PROVE  DecodingStays
<1>1. CASE Users
  BY <1>1, DecodingUnchanged DEF Users, ClearMemory, SetImage, SetImageAgain, ClearImage,
                                 CancelLoadImage, DrawError
<1>2. CASE ImageLoadQueue
  BY <1>2, DecodingOfATask
<1>3. CASE CacheOutQueue
  BY <1>3, DecodeStarts, DecodeEnds DEF CacheOutQueue
<1>4. CASE Downloads
  <2>1. PICK u \in Urls, ok \in BOOLEAN : EndDownload(u, ok)
    BY <1>4 DEF Downloads
  <2>2. PICK t : t = FileTask(u, ok)
    OBVIOUS
  <2>3. t \in UiTaskOf(Created) /\ t.kind # "decoded"
    BY <2>2 DEF FileTask, UiTaskOf
  <2>4. uiTasks' = Append(uiTasks, t) /\ UNCHANGED decoder
    BY <2>1, <2>2 DEF EndDownload
  <2>5. QED
    BY <2>3, <2>4, UiTaskAdded
<1>5. CASE UiThread
  <2>1. uiTasks # <<>> /\ uiTasks' = Tail(uiTasks) /\ UNCHANGED decoder
    BY <1>5 DEF UiThread, UiFileTask, Decoded, Show, FirstUi
  <2>2. QED
    BY <2>1, UiTaskDone
<1>6. CASE UNCHANGED vars
  BY <1>6, DecodingUnchanged DEF vars
<1>7. QED
  BY <1>1, <1>2, <1>3, <1>4, <1>5, <1>6 DEF Next

-----------------------------------------------------------------------------
(* The cache as a map.                                                     *)

LEMMA TouchKeeps ==
    ASSUME NEW s \in Seq(Created), IsInjective(s), NEW k
    PROVE  /\ Touch(s, k) \in Seq(Created) /\ IsInjective(Touch(s, k))
           /\ ToSet(Touch(s, k)) = ToSet(s)
<1>1. CASE Cached(s, k) = 0
  BY <1>1 DEF Touch
<1>2. CASE Cached(s, k) # 0
  <2>1. PICK b : b = Cached(s, k)
    OBVIOUS
  <2>2. PICK r : r = RemoveFirst(s, b)
    OBVIOUS
  <2>3. b \in ToSet(s) /\ b \in Created
    BY <1>2, <2>1, CachedIsThere
  <2>4. r \in Seq(Created) /\ IsInjective(r) /\ ToSet(r) = ToSet(s) \ {b}
    BY <2>2, RemoveFirstOfDistinct
  <2>5. /\ Append(r, b) \in Seq(Created) /\ IsInjective(Append(r, b))
        /\ ToSet(Append(r, b)) = ToSet(r) \cup {b}
    BY <2>3, <2>4, AppendToDistinct, ToSetOfAppend, ContainsToSet
  <2>6. Touch(s, k) = Append(r, b)
    BY <1>2, <2>1, <2>2 DEF Touch
  <2>7. QED
    BY <2>3, <2>4, <2>5, <2>6
<1>3. QED
  BY <1>1, <1>2

LEMMA CachedInSame ==
    ASSUME NEW s, NEW t, ToSet(s) = ToSet(t), NEW k
    PROVE  Cached(s, k) = Cached(t, k)
BY DEF Cached

LEMMA TrimmedKeeps ==
    ASSUME NEW s \in Seq(Created), IsInjective(s), NEW b \in Created, b \notin ToSet(s)
    PROVE  LET p == Append(s, b) IN
           /\ ToSet(p) = ToSet(s) \cup {b}
           /\ IsInjective(Trimmed(p)) /\ ToSet(Trimmed(p)) \subseteq ToSet(p)
<1>1. PICK p : p = Append(s, b)
  OBVIOUS
<1>2. /\ p \in Seq(Created) /\ IsInjective(p) /\ ToSet(p) = ToSet(s) \cup {b}
  BY <1>1, AppendToDistinct, ToSetOfAppend, ContainsToSet
<1>3. p # <<>>
  BY <1>1
<1>4. IsInjective(Tail(p)) /\ ToSet(Tail(p)) \subseteq ToSet(p)
  BY <1>2, <1>3, TailOfDistinct
<1>5. IsInjective(Trimmed(p)) /\ ToSet(Trimmed(p)) \subseteq ToSet(p)
  BY <1>2, <1>4 DEF Trimmed
<1>6. QED
  BY <1>1, <1>2, <1>5

-----------------------------------------------------------------------------
(* The counts of views.                                                    *)

Shown(k) == {v \in Views : currentKey[v] = k /\ currentImage[v] # 0}

CountIsRight(k) ==
    /\ bitmapUseCounts[k] >= Cardinality(Shown(k))
    /\ bitmapUseCounts[k] > Cardinality(Shown(k)) => k \in doubled

LEMMA CountsByKey == CountsAreViews <=> \A k \in Keys \ tainted : CountIsRight(k)
BY DEF CountsAreViews, CountIsRight, Shown

LEMMA ShownIsFinite ==
    ASSUME NEW S \in SUBSET Views
    PROVE  IsFiniteSet(S) /\ Cardinality(S) \in Nat
BY FS_Subset, FS_CardinalityType, ImageAssumption

\* What a step may do with the count and the views of a key.
CountKeeps(k) == bitmapUseCounts'[k] = bitmapUseCounts[k] /\ Shown(k)' = Shown(k)

CountLoses(k, v) ==
    /\ bitmapUseCounts'[k] = IF bitmapUseCounts[k] = 0 THEN 0 ELSE bitmapUseCounts[k] - 1
    /\ v \in Shown(k) /\ Shown(k)' = Shown(k) \ {v}

CountGains(k, v) ==
    /\ bitmapUseCounts'[k] = bitmapUseCounts[k] + 1
    /\ v \in Views /\ Shown(k)' = Shown(k) \cup {v}
    /\ v \in Shown(k) => k \in doubled'

CountForgets(k, v) ==
    /\ bitmapUseCounts'[k] = bitmapUseCounts[k] /\ Shown(k)' = Shown(k) \ {v}
    /\ v \in Shown(k) => k \in doubled'

LEMMA CountStaysRight ==
    ASSUME Base, NEW k \in Keys, CountIsRight(k), doubled \subseteq doubled', NEW v,
           \/ CountKeeps(k) \/ CountLoses(k, v) \/ CountGains(k, v) \/ CountForgets(k, v)
    PROVE  CountIsRight(k)'
<1>1. PICK n : n = bitmapUseCounts[k]
  OBVIOUS
<1>2. PICK m : m = bitmapUseCounts'[k]
  OBVIOUS
<1>3. PICK S : S = Shown(k)
  OBVIOUS
<1>4. PICK T : T = Shown(k)'
  OBVIOUS
<1>5. n \in Nat
  BY <1>1 DEF Base, Typed, CacheTyped
<1>6. S \in SUBSET Views /\ IsFiniteSet(S) /\ Cardinality(S) \in Nat
  BY <1>3, ShownIsFinite DEF Shown
<1>7. n >= Cardinality(S) /\ (n > Cardinality(S) => k \in doubled)
  BY <1>1, <1>3 DEF CountIsRight
<1>8. /\ Cardinality(S \cup {v}) = IF v \in S THEN Cardinality(S) ELSE Cardinality(S) + 1
      /\ Cardinality(S \ {v}) = IF v \in S THEN Cardinality(S) - 1 ELSE Cardinality(S)
  BY <1>6, FS_AddElement, FS_RemoveElement
<1>9. m >= Cardinality(T) /\ (m > Cardinality(T) => k \in doubled')
  <2>1. CASE CountKeeps(k)
    BY <1>1, <1>2, <1>3, <1>4, <1>7, <2>1 DEF CountKeeps
  <2>2. CASE CountLoses(k, v)
    <3>1. /\ m = (IF n = 0 THEN 0 ELSE n - 1)
          /\ Cardinality(T) = Cardinality(S) - 1 /\ Cardinality(T) \in Nat
      <4>1. v \in S /\ T = S \ {v} /\ m = IF n = 0 THEN 0 ELSE n - 1
        BY <1>1, <1>2, <1>3, <1>4, <2>2 DEF CountLoses
      <4>2. Cardinality(T) \in Nat
        BY <1>6, <4>1, ShownIsFinite
      <4>3. QED
        BY <1>8, <4>1, <4>2
    <3>2. n > 0 /\ m = n - 1
      BY <1>5, <1>6, <1>7, <3>1
    <3>3. m >= Cardinality(T) /\ (m > Cardinality(T) => n > Cardinality(S))
      BY <1>5, <1>6, <1>7, <3>1, <3>2
    <3>4. QED
      BY <1>7, <3>3
  <2>3. CASE CountGains(k, v)
    <3>1. m = n + 1 /\ T = S \cup {v} /\ (v \in S => k \in doubled')
      BY <1>1, <1>2, <1>3, <1>4, <2>3 DEF CountGains
    <3>2. CASE v \in S
      <4>1. Cardinality(T) = Cardinality(S)
        BY <1>8, <3>1, <3>2
      <4>2. m >= Cardinality(T)
        BY <1>5, <1>6, <1>7, <3>1, <4>1
      <4>3. QED
        BY <3>1, <3>2, <4>2
    <3>3. CASE v \notin S
      <4>1. Cardinality(T) = Cardinality(S) + 1
        BY <1>8, <3>1, <3>3
      <4>2. m >= Cardinality(T) /\ (m > Cardinality(T) => n > Cardinality(S))
        BY <1>5, <1>6, <1>7, <3>1, <4>1
      <4>3. QED
        BY <1>7, <4>2
    <3>4. QED
      BY <3>2, <3>3
  <2>4. CASE CountForgets(k, v)
    <3>1. m = n /\ T = S \ {v} /\ (v \in S => k \in doubled')
      BY <1>1, <1>2, <1>3, <1>4, <2>4 DEF CountForgets
    <3>2. CASE v \in S
      <4>1. Cardinality(T) = Cardinality(S) - 1
        BY <1>8, <3>1, <3>2
      <4>2. m >= Cardinality(T)
        BY <1>5, <1>6, <1>7, <3>1, <4>1
      <4>3. QED
        BY <3>1, <3>2, <4>2
    <3>3. CASE v \notin S
      <4>1. T = S
        BY <3>1, <3>3
      <4>2. QED
        BY <1>7, <3>1, <4>1
    <3>4. QED
      BY <3>2, <3>3
  <2>5. QED
    BY <2>1, <2>2, <2>3, <2>4
<1>10. QED
  BY <1>2, <1>4, <1>9 DEF CountIsRight

\* What a view releases is not in the cache, and no other view shows it, unless
\* the key is tainted.
LEMMA ReleasedIsUnseen ==
    ASSUME Base, Bitmaps, CountsAreViews, NEW v \in Views, Holds(v), NEW b \in Released(v)
    PROVE  /\ b = currentImage[v] /\ b \notin ToSet(lru)
           /\ \A w \in Views \ {v} : Holds(w) /\ currentImage[w] = b => currentKey[w] \in tainted
<1>1. PICK k \in Keys : k = currentKey[v]
  BY DEF Holds, Base, Typed, ViewsTyped
<1>2. b = currentImage[v] /\ Cached(lru, k) = 0 /\ bitmapUseCounts[k] <= 1
  BY <1>1 DEF Released
<1>3. key[b] = k /\ lru \in Seq(Created) /\ bitmapUseCounts[k] \in Nat
  BY <1>1, <1>2 DEF Bitmaps, BitmapsFit, Base, Typed, CacheTyped
<1>4. b \notin ToSet(lru)
  BY <1>2, <1>3, CachedIsThere
<1>5. ASSUME NEW w \in Views \ {v}, Holds(w), currentImage[w] = b, currentKey[w] \notin tainted
      PROVE  FALSE
  <2>1. currentKey[w] = k
    BY <1>3, <1>5 DEF Bitmaps, BitmapsFit
  <2>2. bitmapUseCounts[k] >= Cardinality(Shown(k))
    BY <1>5, <2>1, CountsByKey DEF CountIsRight
  <2>3. {v, w} \in SUBSET Shown(k) /\ Shown(k) \in SUBSET Views
    BY <1>1, <1>5, <2>1 DEF Shown, Holds
  <2>4. Cardinality({v, w}) = 2
    <3>1. IsFiniteSet({v}) /\ Cardinality({v}) = 1 /\ w \notin {v} /\ {v, w} = {v} \cup {w}
      BY <1>5, FS_Singleton
    <3>2. \A S, x : IsFiniteSet(S) => Cardinality(S \cup {x}) =
                                        IF x \in S THEN Cardinality(S) ELSE Cardinality(S) + 1
      BY FS_AddElement
    <3>3. Cardinality({v} \cup {w}) = Cardinality({v}) + 1
      BY <3>1, <3>2, Zenon
    <3>4. QED
      BY <3>1, <3>3
  <2>5. IsFiniteSet(Shown(k)) /\ Cardinality(Shown(k)) \in Nat
    BY <2>3, ShownIsFinite
  <2>6. 2 <= Cardinality(Shown(k))
    BY <2>3, <2>4, <2>5, FS_Subset
  <2>7. QED
    BY <1>2, <1>3, <2>2, <2>5, <2>6
<1>6. QED
  BY <1>2, <1>4, <1>5

-----------------------------------------------------------------------------
(* The views' acts and the bitmaps.                                        *)

\* Nothing is handed on that was not before.
NothingHanded == \A t \in ToSet(loaderTasks') : t.kind = "set" => t \in ToSet(loaderTasks)

\* Bitmaps come from where they were, and stay with their keys.
ActUses ==
    /\ UNCHANGED <<key, uiTasks>>
    /\ IsInjective(lru') /\ ToSet(lru') \subseteq ToSet(lru)
    /\ \A b \in recycled' : InUse(b)
    /\ \A v \in Views : currentImage'[v] # 0 => InUse(currentImage'[v])
    /\ \A v \in Views : currentKey'[v] # None /\ currentImage'[v] # 0 =>
           key[currentImage'[v]] = currentKey'[v]
    /\ NothingHanded

UseStays == \A b : b # 0 /\ InUse(b)' => InUse(b)

LEMMA ActKeepsFits ==
    ASSUME Bitmaps, ActUses
    PROVE  UseStays /\ CacheIsMap' /\ BitmapsFit'
<1>1. UseStays
  BY DEF ActUses, UseStays, InUse, NothingHanded
<1>2. CacheIsMap'
  BY DEF ActUses, Bitmaps, CacheIsMap
<1>3. BitmapsFit'
  BY DEF ActUses, Bitmaps, BitmapsFit, NothingHanded, Holds
<1>4. QED
  BY <1>1, <1>2, <1>3

LEMMA NothingIsHanded ==
    ASSUME Base, NEW t \in LoaderTaskOf(Created), t.kind # "set",
           loaderTasks' = Append(loaderTasks, t)
    PROVE  NothingHanded
<1>1. loaderTasks \in Seq(LoaderTaskOf(Created))
  BY DEF Base, Typed, TasksTyped
<1>2. ToSet(loaderTasks') = ToSet(loaderTasks) \cup {t}
  BY <1>1, TasksAfterAppend
<1>3. QED
  BY <1>2 DEF NothingHanded

LEMMA AskTasks ==
    ASSUME NEW v \in Views
    PROVE  /\ CancelTask(v) \in LoaderTaskOf(Created) /\ CancelTask(v).kind # "set"
           /\ \A k \in Keys : /\ LoadTask(v, k) \in LoaderTaskOf(Created)
                              /\ LoadTask(v, k).kind # "set"
BY DEF LoadTask, CancelTask, LoaderTaskOf

\* A view asks for k, and gets h from the cache or 0.
Loaded(v, k, h, counts) ==
    /\ h = 0 \/ (h \in ToSet(lru) /\ h \in Created /\ key[h] = k)
    /\ currentKey' = [currentKey EXCEPT ![v] = k]
    /\ currentImage' = [currentImage EXCEPT ![v] = h]
    /\ IsInjective(lru') /\ ToSet(lru') = ToSet(lru)
    /\ bitmapUseCounts' = IF h # 0 THEN [counts EXCEPT ![k] = @ + 1] ELSE counts
    /\ NothingHanded

LEMMA LoadDoes ==
    ASSUME Base, NEW v \in Views, NEW k \in Keys, NEW s \in Seq(Created), IsInjective(s),
           ToSet(s) = ToSet(lru), NEW counts, Load(v, k, s, counts)
    PROVE  \E h : Loaded(v, k, h, counts)
<1>1. PICK h : h = Cached(s, k)
  OBVIOUS
<1>2. h = 0 \/ (h \in ToSet(lru) /\ h \in Created /\ key[h] = k)
  BY <1>1, CachedIsThere
<1>3. IsInjective(lru') /\ ToSet(lru') = ToSet(lru)
  BY TouchKeeps DEF Load
<1>4. /\ currentKey' = [currentKey EXCEPT ![v] = k]
      /\ currentImage' = [currentImage EXCEPT ![v] = h]
      /\ bitmapUseCounts' = IF h # 0 THEN [counts EXCEPT ![k] = @ + 1] ELSE counts
      /\ \/ loaderTasks' = Append(loaderTasks, CancelTask(v))
         \/ loaderTasks' = Append(loaderTasks, LoadTask(v, k))
  BY <1>1 DEF Load
<1>5. NothingHanded
  BY <1>4, AskTasks, NothingIsHanded
<1>6. QED
  BY <1>2, <1>3, <1>4, <1>5 DEF Loaded

\* What every act has to show.
ActIsSound == ActUses /\ ShownIsAlive' /\ CountsAreViews'

LEMMA SoundFacts ==
    ASSUME Sound
    PROVE  /\ Base /\ Bitmaps /\ ShownIsAlive /\ CountsAreViews /\ CacheIsMap /\ BitmapsFit
           /\ currentKey \in [Views -> Keys \cup {None}]
           /\ currentImage \in [Views -> Created \cup {0}]
           /\ lru \in Seq(Created) /\ IsInjective(lru) /\ recycled \subseteq Created
           /\ bitmapUseCounts \in [Keys -> Nat] /\ None \notin Keys
           /\ 0 \notin Created /\ 0 \notin ToSet(lru) /\ ToSet(lru) \subseteq Created
<1>1. lru \in Seq(Created) /\ 0 \notin Created /\ None \notin Keys
  BY LoadsAreNumbers DEF Sound, Base, Typed, CacheTyped
<1>2. ToSet(lru) \subseteq Created
  BY <1>1, InToSet
<1>3. QED
  BY <1>1, <1>2 DEF Sound, Bitmaps, CacheIsMap, Base, Typed, CacheTyped, ViewsTyped

LEMMA SetImageIsSound ==
    ASSUME Sound, NEW v \in Views, NEW k \in Keys, SetImage(v, k)
    PROVE  ActIsSound
<1> USE SoundFacts
<1>1. PICK counts : counts = IF Holds(v) THEN DecrementUseCount(currentKey[v])
                             ELSE bitmapUseCounts
  OBVIOUS
<1>2. counts \in [Keys -> Nat]
  BY <1>1, ReleaseTyped
<1>3. \E h : Loaded(v, k, h, counts)
  <2>1. CASE Holds(v)
    <3>1. PICK s : s = Touch(lru, currentKey[v])
      OBVIOUS
    <3>2. s \in Seq(Created) /\ IsInjective(s) /\ ToSet(s) = ToSet(lru)
      BY <3>1, TouchKeeps
    <3>3. Load(v, k, s, counts)
      BY <1>1, <2>1, <3>1 DEF SetImage
    <3>4. QED
      BY <3>2, <3>3, LoadDoes
  <2>2. CASE ~Holds(v)
    <3>1. Load(v, k, lru, counts)
      BY <1>1, <2>2 DEF SetImage
    <3>2. QED
      BY <3>1, LoadDoes
  <2>3. QED
    BY <2>1, <2>2
<1>4. PICK h : Loaded(v, k, h, counts)
  BY <1>3
<1>5. /\ h = 0 \/ (h \in ToSet(lru) /\ h \in Created /\ key[h] = k)
      /\ currentKey' = [currentKey EXCEPT ![v] = k]
      /\ currentImage' = [currentImage EXCEPT ![v] = h]
      /\ IsInjective(lru') /\ ToSet(lru') = ToSet(lru)
      /\ bitmapUseCounts' = IF h # 0 THEN [counts EXCEPT ![k] = @ + 1] ELSE counts
      /\ NothingHanded
  BY <1>4 DEF Loaded
<1>6. /\ recycled' = recycled \cup (IF Holds(v) THEN Released(v) ELSE {})
      /\ UNCHANGED <<key, uiTasks, tainted, doubled>> /\ currentKey[v] # k
  BY DEF SetImage, images
<1>7. /\ \A w \in Views : w # v => currentKey'[w] = currentKey[w]
                                       /\ currentImage'[w] = currentImage[w]
      /\ currentKey'[v] = k /\ currentImage'[v] = h
  BY <1>5
<1>8. \A b \in recycled' : b \in recycled \/ (Holds(v) /\ b \in Released(v))
  BY <1>6
<1>9. ActUses
  <2>1. \A b \in recycled' : InUse(b)
    BY <1>8 DEF InUse, Released
  <2>2. \A w \in Views : currentImage'[w] # 0 => InUse(currentImage'[w])
    BY <1>5, <1>7 DEF InUse
  <2>3. \A w \in Views : currentKey'[w] # None /\ currentImage'[w] # 0 =>
            key[currentImage'[w]] = currentKey'[w]
    BY <1>5, <1>7 DEF BitmapsFit, Holds
  <2>4. QED
    BY <1>5, <1>6, <2>1, <2>2, <2>3 DEF ActUses
<1>10. ShownIsAlive'
  <2>1. \A b \in ToSet(lru') : b \notin recycled'
    BY <1>5, <1>8, ReleasedIsUnseen DEF ShownIsAlive
  <2>2. ASSUME NEW w \in Views, Holds(w)', currentImage'[w] \in recycled'
        PROVE  currentKey'[w] \in tainted'
    <3>1. w # v
      BY <1>5, <1>7, <2>1, <2>2 DEF Holds
    <3>2. Holds(w) /\ currentImage[w] \in recycled'
      BY <1>7, <2>2, <3>1 DEF Holds
    <3>3. currentKey[w] \in tainted
      BY <1>8, <3>1, <3>2, ReleasedIsUnseen DEF ShownIsAlive
    <3>4. QED
      BY <1>6, <1>7, <3>1, <3>3
  <2>3. QED
    BY <2>1, <2>2 DEF ShownIsAlive
<1>11. CountsAreViews'
  <2>1. ASSUME NEW j \in Keys \ tainted
        PROVE  CountIsRight(j)'
    <3>1. CASE j = k
      <4>1. counts[k] = bitmapUseCounts[k]
        BY <1>1, <1>6 DEF DecrementUseCount
      <4>2. v \notin Shown(k)
        BY <1>6 DEF Shown
      <4>3. CASE h # 0
        <5>1. Shown(k)' = Shown(k) \cup {v}
          BY <1>7, <4>3 DEF Shown
        <5>2. bitmapUseCounts'[k] = bitmapUseCounts[k] + 1
          BY <1>2, <1>5, <4>1, <4>3
        <5>3. CountGains(k, v)
          BY <4>2, <5>1, <5>2 DEF CountGains
        <5>4. QED
          BY <1>6, <2>1, <3>1, <5>3, CountStaysRight, CountsByKey
      <4>4. CASE h = 0
        <5>1. Shown(k)' = Shown(k)
          BY <1>7, <4>2, <4>4 DEF Shown
        <5>2. CountKeeps(k)
          BY <1>5, <4>1, <4>4, <5>1 DEF CountKeeps
        <5>3. QED
          BY <1>6, <2>1, <3>1, <5>2, CountStaysRight, CountsByKey
      <4>5. QED
        BY <4>3, <4>4
    <3>2. CASE j # k
      <4>2. bitmapUseCounts'[j] = counts[j]
        BY <1>2, <1>5, <3>2
      <4>3. Shown(j)' = Shown(j) \ {v}
        BY <1>7, <3>2 DEF Shown
      <4>4. CASE Holds(v) /\ j = currentKey[v]
        <5>1. v \in Shown(j)
          BY <4>4 DEF Shown, Holds
        <5>2. counts[j] = IF bitmapUseCounts[j] = 0 THEN 0 ELSE bitmapUseCounts[j] - 1
          BY <1>1, <4>4 DEF DecrementUseCount
        <5>3. CountLoses(j, v)
          BY <4>2, <4>3, <5>1, <5>2 DEF CountLoses
        <5>4. QED
          BY <1>6, <2>1, <5>3, CountStaysRight, CountsByKey
      <4>5. CASE ~(Holds(v) /\ j = currentKey[v])
        <5>1. counts[j] = bitmapUseCounts[j]
          BY <1>1, <4>5 DEF DecrementUseCount
        <5>2. v \notin Shown(j)
          BY <4>5 DEF Shown, Holds
        <5>3. CountKeeps(j)
          BY <4>2, <4>3, <5>1, <5>2 DEF CountKeeps
        <5>4. QED
          BY <1>6, <2>1, <5>3, CountStaysRight, CountsByKey
      <4>6. QED
        BY <4>4, <4>5
    <3>3. QED
      BY <3>1, <3>2
  <2>2. CountsAreViews' <=> \A j \in Keys \ tainted' : CountIsRight(j)'
    BY DEF CountsAreViews, CountIsRight, Shown
  <2>3. QED
    BY <1>6, <2>1, <2>2
<1>12. QED
  BY <1>9, <1>10, <1>11 DEF ActIsSound

LEMMA SetImageAgainIsSound ==
    ASSUME Sound, NEW v \in Views, SetImageAgain(v)
    PROVE  ActIsSound
<1> USE SoundFacts
<1>1. PICK k \in Keys : k = currentKey[v]
  BY DEF SetImageAgain
<1>2. PICK h : Loaded(v, k, h, bitmapUseCounts)
  BY <1>1, LoadDoes DEF SetImageAgain
<1>3. /\ h = 0 \/ (h \in ToSet(lru) /\ h \in Created /\ key[h] = k)
      /\ currentKey' = [currentKey EXCEPT ![v] = k]
      /\ currentImage' = [currentImage EXCEPT ![v] = h]
      /\ IsInjective(lru') /\ ToSet(lru') = ToSet(lru)
      /\ bitmapUseCounts' = IF h # 0 THEN [bitmapUseCounts EXCEPT ![k] = @ + 1]
                            ELSE bitmapUseCounts
      /\ NothingHanded
  BY <1>2 DEF Loaded
<1>4. /\ UNCHANGED <<key, uiTasks, tainted, recycled>>
      /\ doubled' = IF Holds(v) THEN doubled \cup {k} ELSE doubled
  BY <1>1 DEF SetImageAgain, images
<1>5. /\ \A w \in Views : currentKey'[w] = currentKey[w]
      /\ \A w \in Views : w # v => currentImage'[w] = currentImage[w]
      /\ currentImage'[v] = h
  BY <1>1, <1>3
<1>6. ActUses
  <2>1. \A b \in recycled' : InUse(b)
    BY <1>4 DEF InUse
  <2>2. \A w \in Views : currentImage'[w] # 0 => InUse(currentImage'[w])
    BY <1>3, <1>5 DEF InUse
  <2>3. \A w \in Views : currentKey'[w] # None /\ currentImage'[w] # 0 =>
            key[currentImage'[w]] = currentKey'[w]
    BY <1>1, <1>3, <1>5 DEF BitmapsFit, Holds
  <2>4. QED
    BY <1>3, <1>4, <2>1, <2>2, <2>3 DEF ActUses
<1>7. ShownIsAlive'
  BY <1>3, <1>4, <1>5 DEF ShownIsAlive, Holds
<1>8. CountsAreViews'
  <2>1. ASSUME NEW j \in Keys \ tainted
        PROVE  CountIsRight(j)'
    <3>1. doubled \subseteq doubled' /\ CountIsRight(j)
      BY <1>4, <2>1, CountsByKey
    <3>2. CASE j # k
      <4>1. Shown(j)' = Shown(j) /\ bitmapUseCounts'[j] = bitmapUseCounts[j]
        BY <1>1, <1>3, <1>5, <3>2 DEF Shown
      <4>2. CountKeeps(j)
        BY <4>1 DEF CountKeeps
      <4>3. QED
        BY <3>1, <4>2, CountStaysRight
    <3>3. CASE j = k
      <4>1. v \in Shown(k) => k \in doubled'
        BY <1>1, <1>4 DEF Shown, Holds
      <4>2. CASE h # 0
        <5>1. /\ Shown(k)' = Shown(k) \cup {v}
              /\ bitmapUseCounts'[k] = bitmapUseCounts[k] + 1
          BY <1>1, <1>3, <1>5, <4>2 DEF Shown
        <5>2. CountGains(k, v)
          BY <4>1, <5>1 DEF CountGains
        <5>3. QED
          BY <3>1, <3>3, <5>2, CountStaysRight
      <4>3. CASE h = 0
        <5>1. Shown(k)' = Shown(k) \ {v} /\ bitmapUseCounts'[k] = bitmapUseCounts[k]
          BY <1>1, <1>3, <1>5, <4>3 DEF Shown
        <5>2. CountForgets(k, v)
          BY <4>1, <5>1 DEF CountForgets
        <5>3. QED
          BY <3>1, <3>3, <5>2, CountStaysRight
      <4>4. QED
        BY <4>2, <4>3
    <3>4. QED
      BY <3>2, <3>3
  <2>2. CountsAreViews' <=> \A j \in Keys \ tainted' : CountIsRight(j)'
    BY DEF CountsAreViews, CountIsRight, Shown
  <2>3. QED
    BY <1>4, <2>1, <2>2
<1>9. QED
  BY <1>6, <1>7, <1>8 DEF ActIsSound

LEMMA ClearImageIsSound ==
    ASSUME Sound, NEW v \in Views, NEW detached \in BOOLEAN, ClearImage(v, detached)
    PROVE  ActIsSound
<1> USE SoundFacts
<1>1. /\ UNCHANGED <<key, uiTasks, tainted, doubled>>
      /\ currentKey' = [currentKey EXCEPT ![v] = None]
      /\ currentImage' = [currentImage EXCEPT ![v] = 0]
  BY DEF ClearImage, images, history
<1>2. /\ \A w \in Views : w # v => currentKey'[w] = currentKey[w]
                                       /\ currentImage'[w] = currentImage[w]
      /\ currentKey'[v] = None /\ currentImage'[v] = 0
  BY <1>1
<1>3. /\ IsInjective(lru') /\ ToSet(lru') = ToSet(lru)
      /\ \A b \in recycled' : b \in recycled \/ (Holds(v) /\ b \in Released(v))
  <2>1. CASE Holds(v)
    BY <2>1, TouchKeeps DEF ClearImage, Release
  <2>2. CASE ~Holds(v)
    BY <2>2 DEF ClearImage, Release, cache
  <2>3. QED
    BY <2>1, <2>2
<1>4. NothingHanded
  <2>1. CASE loaderTasks' = loaderTasks
    BY <2>1 DEF NothingHanded
  <2>2. CASE loaderTasks' = Append(loaderTasks, CancelTask(v))
    BY <2>2, AskTasks, NothingIsHanded
  <2>3. QED
    BY <2>1, <2>2 DEF ClearImage
<1>5. ActUses
  <2>1. \A b \in recycled' : InUse(b)
    BY <1>3 DEF InUse, Released
  <2>2. \A w \in Views : currentImage'[w] # 0 => InUse(currentImage'[w])
    BY <1>2 DEF InUse
  <2>3. \A w \in Views : currentKey'[w] # None /\ currentImage'[w] # 0 =>
            key[currentImage'[w]] = currentKey'[w]
    BY <1>2 DEF BitmapsFit, Holds
  <2>4. QED
    BY <1>1, <1>3, <1>4, <2>1, <2>2, <2>3 DEF ActUses
<1>6. ShownIsAlive'
  <2>1. \A b \in ToSet(lru') : b \notin recycled'
    BY <1>3, ReleasedIsUnseen DEF ShownIsAlive
  <2>2. ASSUME NEW w \in Views, Holds(w)', currentImage'[w] \in recycled'
        PROVE  currentKey'[w] \in tainted'
    <3>1. w # v
      BY <1>2, <2>2 DEF Holds
    <3>2. Holds(w) /\ currentImage[w] \in recycled'
      BY <1>2, <2>2, <3>1 DEF Holds
    <3>3. currentKey[w] \in tainted
      BY <1>3, <3>1, <3>2, ReleasedIsUnseen DEF ShownIsAlive
    <3>4. QED
      BY <1>1, <1>2, <3>1, <3>3
  <2>3. QED
    BY <2>1, <2>2 DEF ShownIsAlive
<1>7. CountsAreViews'
  <2>1. ASSUME NEW j \in Keys \ tainted
        PROVE  CountIsRight(j)'
    <3>1. doubled \subseteq doubled' /\ CountIsRight(j)
      BY <1>1, <2>1, CountsByKey
    <3>2. Shown(j)' = Shown(j) \ {v}
      BY <1>2 DEF Shown
    <3>3. CASE Holds(v) /\ j = currentKey[v]
      <4>1. v \in Shown(j)
        BY <3>3 DEF Shown, Holds
      <4>2. bitmapUseCounts'[j] = IF bitmapUseCounts[j] = 0 THEN 0 ELSE bitmapUseCounts[j] - 1
        BY <3>3 DEF ClearImage, Release, DecrementUseCount
      <4>3. CountLoses(j, v)
        BY <3>2, <4>1, <4>2 DEF CountLoses
      <4>4. QED
        BY <3>1, <4>3, CountStaysRight
    <3>4. CASE ~(Holds(v) /\ j = currentKey[v])
      <4>1. v \notin Shown(j)
        BY <3>4 DEF Shown, Holds
      <4>2. bitmapUseCounts'[j] = bitmapUseCounts[j]
        BY <3>4 DEF ClearImage, Release, DecrementUseCount, cache
      <4>3. CountKeeps(j)
        BY <3>2, <4>1, <4>2 DEF CountKeeps
      <4>4. QED
        BY <3>1, <4>3, CountStaysRight
    <3>5. QED
      BY <3>3, <3>4
  <2>2. CountsAreViews' <=> \A j \in Keys \ tainted' : CountIsRight(j)'
    BY DEF CountsAreViews, CountIsRight, Shown
  <2>3. QED
    BY <1>1, <2>1, <2>2
<1>8. QED
  BY <1>5, <1>6, <1>7 DEF ActIsSound

LEMMA CancelLoadImageIsSound ==
    ASSUME Sound, NEW v \in Views, CancelLoadImage(v)
    PROVE  ActIsSound
<1> USE SoundFacts
<1>1. /\ UNCHANGED <<currentKey, currentImage, lru, bitmapUseCounts, recycled, key, uiTasks,
                     tainted, doubled>>
      /\ loaderTasks' = Append(loaderTasks, CancelTask(v))
  BY DEF CancelLoadImage, cache, images
<1>2. NothingHanded
  BY <1>1, AskTasks, NothingIsHanded
<1>3. ActUses
  BY <1>1, <1>2 DEF ActUses, InUse, BitmapsFit, Holds
<1>4. ShownIsAlive' /\ CountsAreViews'
  BY <1>1 DEF ShownIsAlive, Holds, CountsAreViews
<1>5. QED
  BY <1>3, <1>4 DEF ActIsSound

\* The key of an image that cannot be drawn is tainted.
LEMMA DrawErrorIsSound ==
    ASSUME Sound, NEW v \in Views, DrawError(v)
    PROVE  ActIsSound
<1> USE SoundFacts
<1>1. PICK k \in Keys : k = currentKey[v]
  BY DEF DrawError, Holds
<1>2. PICK b : b = Cached(lru, k)
  OBVIOUS
<1>3. /\ lru' = RemoveFirst(lru, b) /\ recycled' = recycled \cup ({b} \ {0})
      /\ bitmapUseCounts' = [bitmapUseCounts EXCEPT ![k] = 0]
      /\ currentImage' = [currentImage EXCEPT ![v] = 0]
      /\ loaderTasks' = Append(loaderTasks, LoadTask(v, k))
      /\ UNCHANGED <<currentKey, key, uiTasks, tainted, doubled>>
      /\ Holds(v) /\ currentImage[v] \in recycled
  BY <1>1, <1>2 DEF DrawError, images
<1>4. k \in tainted
  BY <1>1, <1>3 DEF ShownIsAlive
<1>5. b = 0 \/ (b \in ToSet(lru) /\ key[b] = k)
  BY <1>2, CachedIsThere
<1>6. IsInjective(lru') /\ ToSet(lru') = ToSet(lru) \ {b}
  BY <1>3, RemoveFirstOfDistinct
<1>7. NothingHanded
  BY <1>3, AskTasks, NothingIsHanded
<1>8. \A w \in Views : currentImage'[w] # 0 => currentImage'[w] = currentImage[w]
  BY <1>3
<1>9. ActUses
  <2>1. \A c \in recycled' : InUse(c)
    BY <1>3, <1>5 DEF InUse
  <2>2. \A w \in Views : currentImage'[w] # 0 => InUse(currentImage'[w])
    BY <1>8 DEF InUse
  <2>3. \A w \in Views : currentKey'[w] # None /\ currentImage'[w] # 0 =>
            key[currentImage'[w]] = currentKey'[w]
    BY <1>3, <1>8 DEF BitmapsFit, Holds
  <2>4. QED
    BY <1>3, <1>6, <1>7, <2>1, <2>2, <2>3 DEF ActUses
<1>10. ShownIsAlive'
  <2>1. \A c \in ToSet(lru') : c \notin recycled'
    BY <1>3, <1>6 DEF ShownIsAlive
  <2>2. ASSUME NEW w \in Views, Holds(w)', currentImage'[w] \in recycled'
        PROVE  currentKey'[w] \in tainted'
    <3>1. Holds(w) /\ currentImage[w] \in recycled'
      BY <1>3, <1>8, <2>2 DEF Holds
    <3>2. CASE currentImage[w] \in recycled
      BY <1>3, <3>1, <3>2 DEF ShownIsAlive
    <3>3. CASE currentImage[w] = b
      BY <1>3, <1>4, <1>5, <3>1, <3>3 DEF BitmapsFit, Holds
    <3>4. QED
      BY <1>3, <3>1, <3>2, <3>3
  <2>3. QED
    BY <2>1, <2>2 DEF ShownIsAlive
<1>11. CountsAreViews'
  <2>1. ASSUME NEW j \in Keys \ tainted
        PROVE  CountIsRight(j)'
    <3>1. j # k /\ doubled \subseteq doubled' /\ CountIsRight(j)
      BY <1>3, <1>4, <2>1, CountsByKey
    <3>2. bitmapUseCounts'[j] = bitmapUseCounts[j]
      BY <1>3, <3>1
    <3>3. Shown(j)' = Shown(j)
      BY <1>1, <1>3, <3>1 DEF Shown
    <3>4. CountKeeps(j)
      BY <3>2, <3>3 DEF CountKeeps
    <3>5. QED
      BY <3>1, <3>4, CountStaysRight
  <2>2. CountsAreViews' <=> \A j \in Keys \ tainted' : CountIsRight(j)'
    BY DEF CountsAreViews, CountIsRight, Shown
  <2>3. QED
    BY <1>3, <2>1, <2>2
<1>12. QED
  BY <1>9, <1>10, <1>11 DEF ActIsSound

\* A bitmap without a count is shown by no view, unless its key is tainted.
LEMMA UnusedIsUnseen ==
    ASSUME Sound, NEW S, NEW b \in Unused(S, bitmapUseCounts), NEW w \in Views, Holds(w),
           currentImage[w] = b
    PROVE  currentKey[w] \in tainted
<1>1. SUFFICES ASSUME currentKey[w] \notin tainted PROVE FALSE
  OBVIOUS
<1>2. PICK k \in Keys : k = currentKey[w] /\ k \notin tainted
  BY <1>1, SoundFacts DEF Holds
<1>3. key[b] = k
  BY <1>2, SoundFacts DEF BitmapsFit
<1>4. bitmapUseCounts[k] = 0
  BY <1>3 DEF Unused
<1>5. bitmapUseCounts[k] >= Cardinality(Shown(k))
  BY <1>2, SoundFacts, CountsByKey DEF CountIsRight
<1>6. w \in Shown(k) /\ Shown(k) \in SUBSET Views
  BY <1>2 DEF Shown, Holds
<1>7. Cardinality(Shown(k)) \in Nat /\ Cardinality(Shown(k)) # 0
  BY <1>6, ShownIsFinite, FS_EmptySet
<1>8. QED
  BY <1>4, <1>5, <1>7

LEMMA ClearMemoryIsSound ==
    ASSUME Sound, ClearMemory
    PROVE  ActIsSound
<1> USE SoundFacts
<1>1. /\ UNCHANGED <<currentKey, currentImage, bitmapUseCounts, loaderTasks, key, uiTasks,
                     tainted, doubled>>
      /\ recycled' = recycled \cup Unused(ToSet(lru), bitmapUseCounts) /\ lru' = <<>>
  BY DEF ClearMemory, views, images, history
<1>2. IsInjective(lru') /\ ToSet(lru') = {}
  BY <1>1 DEF IsInjective, ToSet
<1>3. NothingHanded
  BY <1>1 DEF NothingHanded
<1>4. ActUses
  <2>1. \A b \in recycled' : InUse(b)
    BY <1>1 DEF InUse, Unused
  <2>2. QED
    BY <1>1, <1>2, <1>3, <2>1 DEF ActUses, InUse, BitmapsFit, Holds
<1>5. ShownIsAlive'
  <2>1. ASSUME NEW w \in Views, Holds(w)', currentImage'[w] \in recycled'
        PROVE  currentKey'[w] \in tainted'
    <3>1. Holds(w)
      BY <1>1, <2>1 DEF Holds
    <3>2. CASE currentImage[w] \in recycled
      BY <1>1, <3>1, <3>2 DEF ShownIsAlive
    <3>3. CASE currentImage[w] \in Unused(ToSet(lru), bitmapUseCounts)
      BY <1>1, <3>1, <3>3, UnusedIsUnseen
    <3>4. QED
      BY <1>1, <2>1, <3>2, <3>3
  <2>2. QED
    BY <1>2, <2>1 DEF ShownIsAlive
<1>6. CountsAreViews'
  BY <1>1 DEF CountsAreViews
<1>7. QED
  BY <1>4, <1>5, <1>6 DEF ActIsSound

LEMMA UsersAreSound ==
    ASSUME Sound, Users
    PROVE  ActIsSound
BY SetImageIsSound, SetImageAgainIsSound, ClearImageIsSound, CancelLoadImageIsSound,
   DrawErrorIsSound, ClearMemoryIsSound DEF Users

-----------------------------------------------------------------------------
(* The tasks and the bitmaps.                                              *)

\* What a task leaves behind that does not touch the views and the cache: only
\* bitmaps that were in use are handed on, for their keys.
TaskHands ==
    /\ UNCHANGED <<views, cache, tainted, doubled>>
    /\ \A t \in ToSet(uiTasks') : t.kind = "show" =>
           \/ t \in ToSet(uiTasks)
           \/ t.bitmap \in Created /\ InUse(t.bitmap) /\ key[t.bitmap] = t.key
    /\ \A t \in ToSet(loaderTasks') : t.kind = "set" => t \in ToSet(loaderTasks)

LEMMA HandsKeepSound ==
    ASSUME Sound, KeysStay, TaskHands
    PROVE  UseStays /\ CacheIsMap' /\ BitmapsFit' /\ ShownIsAlive' /\ CountsAreViews'
<1> USE SoundFacts
<1>1. UseStays
  BY DEF TaskHands, UseStays, InUse, views, cache
<1>2. CacheIsMap'
  BY DEF TaskHands, CacheIsMap, KeysStay, cache
<1>3. ShownIsAlive' /\ CountsAreViews'
  BY DEF TaskHands, ShownIsAlive, CountsAreViews, Holds, views, cache
<1>4. \A v \in Views : Holds(v)' => key'[currentImage'[v]] = currentKey'[v]
  <2>1. ASSUME NEW v \in Views, Holds(v)'
        PROVE  key'[currentImage'[v]] = currentKey'[v]
    <3>1. Holds(v) /\ currentImage'[v] = currentImage[v] /\ currentKey'[v] = currentKey[v]
      BY <2>1 DEF TaskHands, views, Holds
    <3>2. currentImage[v] \in Created
      BY <3>1 DEF Holds
    <3>3. QED
      BY <3>1, <3>2 DEF BitmapsFit, KeysStay
  <2>2. QED
    BY <2>1
<1>5. \A t \in ToSet(uiTasks') : t.kind = "show" => key'[t.bitmap] = t.key
  <2>1. ASSUME NEW t \in ToSet(uiTasks'), t.kind = "show"
        PROVE  key'[t.bitmap] = t.key
    <3>1. CASE t \in ToSet(uiTasks)
      <4>1. t \in UiTaskOf(Created)
        BY <3>1, InToSet DEF Base, Typed, TasksTyped
      <4>2. t.bitmap \in Created
        BY <2>1, <4>1 DEF UiTaskOf
      <4>3. QED
        BY <2>1, <3>1, <4>2 DEF BitmapsFit, KeysStay
    <3>2. CASE t.bitmap \in Created /\ InUse(t.bitmap) /\ key[t.bitmap] = t.key
      BY <3>2 DEF KeysStay
    <3>3. QED
      BY <2>1, <3>1, <3>2 DEF TaskHands
  <2>2. QED
    BY <2>1
<1>6. \A t \in ToSet(loaderTasks') :
          t.kind = "set" /\ t.bitmap # 0 => key'[t.bitmap] = key'[t.load]
  <2>1. ASSUME NEW t \in ToSet(loaderTasks'), t.kind = "set", t.bitmap # 0
        PROVE  key'[t.bitmap] = key'[t.load]
    <3>1. t \in ToSet(loaderTasks)
      BY <2>1 DEF TaskHands
    <3>2. t \in LoaderTaskOf(Created)
      BY <3>1, InToSet DEF Base, Typed, TasksTyped
    <3>3. t.bitmap \in Created /\ t.load \in Created
      BY <2>1, <3>2 DEF LoaderTaskOf
    <3>4. QED
      BY <2>1, <3>1, <3>3 DEF BitmapsFit, KeysStay
  <2>2. QED
    BY <2>1
<1>7. QED
  BY <1>1, <1>2, <1>3, <1>4, <1>5, <1>6 DEF BitmapsFit

LEMMA SetImageAndClearHands ==
    ASSUME Sound, loaderTasks # <<>>, NEW c \in Created, NEW b \in Created \cup {0},
           b # 0 => InUse(b) /\ key[b] = key[c],
           SetImageAndClear(c, b)
    PROVE  TaskHands
<1>1. uiTasks \in Seq(UiTaskOf(Created)) /\ loaderTasks \in Seq(LoaderTaskOf(Created))
  BY SoundFacts DEF Base, Typed, TasksTyped
<1>2. ToSet(loaderTasks') \subseteq ToSet(loaderTasks)
  BY <1>1, TasksAfterTail DEF SetImageAndClear
<1>3. UNCHANGED <<views, cache, tainted, doubled>>
  BY DEF SetImageAndClear, LoaderFrame
<1>4. CASE b = 0
  BY <1>2, <1>3, <1>4 DEF SetImageAndClear, TaskHands
<1>5. CASE b # 0
  <2>1. PICK t : t = ShowTask(key[c], b, receivers[c])
    OBVIOUS
  <2>2. key[c] \in Keys /\ receivers[c] \in SUBSET Views
    BY SoundFacts, CreatedHaveKeys DEF Base, Typed, LoadsTyped
  <2>3. t \in UiTaskOf(Created) /\ t.bitmap = b /\ t.key = key[c]
    BY <1>5, <2>1, <2>2 DEF ShowTask, UiTaskOf
  <2>4. uiTasks' = Append(uiTasks, t)
    BY <1>5, <2>1 DEF SetImageAndClear
  <2>5. ToSet(uiTasks') = ToSet(uiTasks) \cup {t}
    BY <1>1, <2>3, <2>4, TasksAfterAppend
  <2>6. QED
    BY <1>2, <1>3, <1>5, <2>3, <2>5 DEF TaskHands
<1>6. QED
  BY <1>4, <1>5

LEMMA LoadQueueHands ==
    ASSUME Sound, ImageLoadQueue
    PROVE  TaskHands
<1>1. loaderTasks # <<>>
  BY DEF ImageLoadQueue, CancelLoading, AlreadyAdded, JoinOrCreate, FileDidLoaded,
         FileDidFailedLoad, SetDecoded, FirstTask
<1>2. loaderTasks \in Seq(LoaderTaskOf(Created)) /\ Base
  BY SoundFacts DEF Base, Typed, TasksTyped
<1>3. /\ ToSet(Tail(loaderTasks)) \subseteq ToSet(loaderTasks)
      /\ Head(loaderTasks) \in ToSet(loaderTasks)
  BY <1>1, <1>2, TasksAfterTail
<1>4. ASSUME LoaderFrame, uiTasks' = uiTasks, loaderTasks' = Tail(loaderTasks)
      PROVE  TaskHands
  BY <1>3, <1>4 DEF TaskHands, LoaderFrame
<1>5. CASE CancelLoading
  BY <1>4, <1>5 DEF CancelLoading
<1>6. CASE AlreadyAdded
  BY <1>4, <1>6 DEF AlreadyAdded
<1>7. CASE JoinOrCreate
  BY <1>4, <1>7 DEF JoinOrCreate, LoadFor
<1>8. CASE FileDidLoaded
  BY <1>4, <1>8 DEF FileDidLoaded
<1>9. CASE FileDidFailedLoad
  <2>1. PICK c : c = imageLoadingByUrl[Head(loaderTasks).url]
    OBVIOUS
  <2>2. c \in Created \cup {0}
    BY <1>1, <1>2, <1>9, <2>1, FirstTaskTaken
       DEF FileDidFailedLoad, FirstTask, Base, Typed, MapsTyped
  <2>3. CASE c # 0 /\ SetImageAndClear(c, 0)
    BY <1>1, <2>2, <2>3, SetImageAndClearHands
  <2>4. CASE ~(c # 0 /\ SetImageAndClear(c, 0))
    BY <1>4, <1>9, <2>1, <2>4 DEF FileDidFailedLoad
  <2>5. QED
    BY <2>3, <2>4
<1>10. CASE SetDecoded
  <2>1. PICK t : t = Head(loaderTasks)
    OBVIOUS
  <2>2. /\ t \in ToSet(loaderTasks) /\ t.kind = "set"
        /\ t.load \in Created /\ t.bitmap \in Created \cup {0}
        /\ SetImageAndClear(t.load, t.bitmap)
    BY <1>1, <1>2, <1>3, <1>10, <2>1, FirstTaskTaken DEF SetDecoded, FirstTask
  <2>3. t.bitmap # 0 => InUse(t.bitmap) /\ key[t.bitmap] = key[t.load]
    BY <2>2, SoundFacts DEF InUse, BitmapsFit
  <2>4. QED
    BY <1>1, <2>2, <2>3, SetImageAndClearHands
<1>11. QED
  BY <1>5, <1>6, <1>7, <1>8, <1>9, <1>10 DEF ImageLoadQueue

\* The other steps that pass tasks on.
LEMMA OthersHand ==
    ASSUME Sound, CacheOutQueue \/ Downloads \/ UiFileTask \/ UNCHANGED vars
    PROVE  TaskHands
<1>1. uiTasks \in Seq(UiTaskOf(Created)) /\ loaderTasks \in Seq(LoaderTaskOf(Created))
  BY SoundFacts DEF Base, Typed, TasksTyped
<1>2. ASSUME UNCHANGED <<views, cache, history, loaderTasks>>,
             NEW t \in UiTaskOf(Created), t.kind # "show", uiTasks' = Append(uiTasks, t)
      PROVE  TaskHands
  <2>1. ToSet(uiTasks') = ToSet(uiTasks) \cup {t}
    BY <1>1, <1>2, TasksAfterAppend
  <2>2. QED
    BY <1>2, <2>1 DEF TaskHands, history
<1>3. CASE Decode
  BY <1>3 DEF Decode, TaskHands, history
<1>4. ASSUME NEW ok \in BOOLEAN, EndDecode(ok)
      PROVE  TaskHands
  <2>1. PICK t : t = DecodedTask(decoding, IF ok THEN decoding ELSE 0)
    OBVIOUS
  <2>2. t \in UiTaskOf(Created) /\ t.kind # "show"
    BY <1>4, <2>1, SoundFacts
       DEF EndDecode, Base, Typed, DecoderTyped, DecodedTask, UiTaskOf
  <2>3. uiTasks' = Append(uiTasks, t) /\ UNCHANGED <<views, cache, history, loaderTasks>>
    BY <1>4, <2>1 DEF EndDecode
  <2>4. QED
    BY <1>2, <2>2, <2>3
<1>5. ASSUME NEW u \in Urls, NEW ok \in BOOLEAN, EndDownload(u, ok)
      PROVE  TaskHands
  <2>1. PICK t : t = FileTask(u, ok)
    OBVIOUS
  <2>2. t \in UiTaskOf(Created) /\ t.kind # "show"
    BY <2>1 DEF FileTask, UiTaskOf
  <2>3. uiTasks' = Append(uiTasks, t) /\ UNCHANGED <<views, cache, history, loaderTasks>>
    BY <1>5, <2>1 DEF EndDownload
  <2>4. QED
    BY <1>2, <2>2, <2>3
<1>6. CASE UiFileTask
  <2>1. PICK t : t = Head(uiTasks)
    OBVIOUS
  <2>2. uiTasks # <<>> /\ t.kind = "file" /\ t \in FileTasks
    BY <1>6, <2>1, SoundFacts, FirstUiTaken DEF UiFileTask, FirstUi
  <2>3. t \in LoaderTaskOf(Created)
    BY <2>2 DEF FileTasks, LoaderTaskOf
  <2>4. /\ ToSet(uiTasks') \subseteq ToSet(uiTasks)
        /\ ToSet(loaderTasks') = ToSet(loaderTasks) \cup {t}
    BY <1>1, <1>6, <2>1, <2>2, <2>3, TasksAfterTail, TasksAfterAppend DEF UiFileTask
  <2>5. QED
    BY <1>6, <2>2, <2>4 DEF UiFileTask, TaskHands, history
<1>7. CASE UNCHANGED vars
  BY <1>7 DEF vars, TaskHands, history
<1>8. QED
  BY <1>3, <1>4, <1>5, <1>6, <1>7 DEF CacheOutQueue, Downloads

\* A bitmap that was decoded was nowhere before.
LEMMA DecodedIsSound ==
    ASSUME Sound, DecodingStays, Decoded
    PROVE  BitmapsAreDecoded' /\ CacheIsMap' /\ BitmapsFit' /\ ShownIsAlive' /\ CountsAreViews'
<1> USE SoundFacts
<1>1. PICK c \in Created, b \in Created \cup {0} : DecodedIs(c, b)
  BY DecodedDoes
<1>2. PICK h : h = Cached(lru, key[c])
  OBVIOUS
<1>3. /\ uiTasks # <<>> /\ Head(uiTasks).kind = "decoded"
      /\ Head(uiTasks).load = c /\ Head(uiTasks).bitmap = b /\ uiTasks' = Tail(uiTasks)
      /\ UNCHANGED <<currentKey, currentImage, bitmapUseCounts, key, tainted, doubled>>
      /\ UNCHANGED decoder
  BY <1>1 DEF DecodedIs, views, images, history
<1>4. ~Undecoded(c)' /\ Undecoded(c) /\ b \in {0, c}
  BY <1>3, UiTaskDone DEF Bitmaps
<1>5. ~InUse(c)
  BY <1>4 DEF Bitmaps, BitmapsAreDecoded
<1>6. /\ h = 0 => \A x \in ToSet(lru) : key[x] # key[c]
      /\ h # 0 => h \in ToSet(lru) /\ key[h] = key[c]
  BY <1>2, CachedIsThere
<1>7. \* what becomes of the cache
      /\ IsInjective(lru') /\ ToSet(lru') \subseteq ToSet(lru) \cup {b}
      /\ b \in ToSet(lru') => b # 0 /\ h = 0
      /\ \A x \in recycled' :
             \/ x \in recycled
             \/ x = b /\ b # 0 /\ x \notin ToSet(lru')
             \/ x \in Unused(ToSet(lru), bitmapUseCounts) /\ x \notin ToSet(lru')
      /\ \E r \in Created \cup {0} :
             /\ loaderTasks' = Append(loaderTasks, SetTask(c, r))
             /\ r = 0 \/ (r = b /\ r # 0) \/ (r = h /\ r # 0)
  <2>1. b \notin ToSet(lru)
    BY <1>4, <1>5 DEF InUse
  <2>2. CASE b = 0
    BY <1>1, <2>1, <2>2 DEF DecodedIs
  <2>3. CASE b # 0 /\ h # 0
    <3>1. /\ recycled' = recycled \cup {b} /\ lru' = Touch(lru, key[c])
          /\ loaderTasks' = Append(loaderTasks, SetTask(c, h))
      BY <1>1, <1>2, <2>3 DEF DecodedIs
    <3>2. IsInjective(lru') /\ ToSet(lru') = ToSet(lru)
      BY <3>1, TouchKeeps
    <3>3. QED
      BY <1>6, <2>1, <2>3, <3>1, <3>2
  <2>4. CASE b # 0 /\ h = 0
    <3>1. PICK p : p = Append(lru, b)
      OBVIOUS
    <3>2. /\ lru' = Trimmed(p)
          /\ recycled' = recycled \cup Unused(ToSet(p) \ ToSet(lru'), bitmapUseCounts)
          /\ loaderTasks' = Append(loaderTasks, SetTask(c, b))
      BY <1>1, <1>2, <2>4, <3>1 DEF DecodedIs
    <3>3. b \in Created
      BY <2>4
    <3>4. /\ ToSet(p) = ToSet(lru) \cup {b}
          /\ IsInjective(lru') /\ ToSet(lru') \subseteq ToSet(p)
      BY <2>1, <3>1, <3>2, <3>3, TrimmedKeeps
    <3>5. \A x \in Unused(ToSet(p) \ ToSet(lru'), bitmapUseCounts) :
              /\ x \notin ToSet(lru')
              /\ x = b \/ x \in Unused(ToSet(lru), bitmapUseCounts)
      BY <3>4 DEF Unused
    <3>6. QED
      BY <2>4, <3>2, <3>3, <3>4, <3>5
  <2>5. QED
    BY <2>2, <2>3, <2>4
<1>8. PICK r \in Created \cup {0} :
          /\ loaderTasks' = Append(loaderTasks, SetTask(c, r))
          /\ r = 0 \/ (r = b /\ r # 0) \/ (r = h /\ r # 0)
  BY <1>7
<1>9. PICK t : t = SetTask(c, r)
  OBVIOUS
<1>10. /\ ToSet(uiTasks') \subseteq ToSet(uiTasks)
       /\ ToSet(loaderTasks') = ToSet(loaderTasks) \cup {t}
       /\ t.kind = "set" /\ t.load = c /\ t.bitmap = r
  <2>1. uiTasks \in Seq(UiTaskOf(Created)) /\ loaderTasks \in Seq(LoaderTaskOf(Created))
    BY DEF Base, Typed, TasksTyped
  <2>2. t \in LoaderTaskOf(Created) /\ t.kind = "set" /\ t.load = c /\ t.bitmap = r
    BY <1>9 DEF SetTask, LoaderTaskOf
  <2>3. QED
    BY <1>3, <1>8, <1>9, <2>1, <2>2, TasksAfterTail, TasksAfterAppend
<1>11. \A x : x # 0 /\ InUse(x)' => InUse(x) \/ x = c
  <2>1. SUFFICES ASSUME NEW x, x # 0, InUse(x)', x # c PROVE InUse(x)
    OBVIOUS
  <2>2. CASE x \in ToSet(lru')
    BY <1>4, <1>7, <2>1, <2>2 DEF InUse
  <2>3. CASE x \in recycled'
    BY <1>4, <1>7, <2>1, <2>3 DEF InUse, Unused
  <2>4. CASE \E v \in Views : currentImage'[v] = x
    BY <1>3, <2>4 DEF InUse
  <2>5. CASE \E s \in ToSet(uiTasks') : s.kind = "show" /\ s.bitmap = x
    BY <1>10, <2>5 DEF InUse
  <2>6. CASE \E s \in ToSet(loaderTasks') : s.kind = "set" /\ s.bitmap = x
    BY <1>4, <1>6, <1>8, <1>10, <2>1, <2>6 DEF InUse
  <2>7. QED
    BY <2>1, <2>2, <2>3, <2>4, <2>5, <2>6 DEF InUse
<1>12. BitmapsAreDecoded'
  <2>1. Created' = Created
    BY <1>3, SameLoads
  <2>2. \A x \in Created : InUse(x)' => ~Undecoded(x)'
    BY <1>4, <1>11 DEF DecodingStays, Bitmaps, BitmapsAreDecoded
  <2>3. QED
    BY <2>1, <2>2 DEF BitmapsAreDecoded
<1>13. CacheIsMap'
  BY <1>3, <1>4, <1>6, <1>7 DEF CacheIsMap
<1>14. BitmapsFit'
  <2>1. \A v \in Views : Holds(v)' => key'[currentImage'[v]] = currentKey'[v]
    BY <1>3 DEF BitmapsFit, Holds
  <2>2. \A s \in ToSet(uiTasks') : s.kind = "show" => key'[s.bitmap] = s.key
    BY <1>3, <1>10 DEF BitmapsFit
  <2>3. r # 0 => key[r] = key[c]
    BY <1>4, <1>6, <1>8
  <2>4. \A s \in ToSet(loaderTasks') :
            s.kind = "set" /\ s.bitmap # 0 => key'[s.bitmap] = key'[s.load]
    BY <1>3, <1>10, <2>3 DEF BitmapsFit
  <2>5. QED
    BY <2>1, <2>2, <2>4 DEF BitmapsFit
<1>15. ShownIsAlive'
  <2>1. \A x \in ToSet(lru') : x \notin recycled'
    <3>1. b # 0 => b \notin recycled
      BY <1>4, <1>5 DEF InUse
    <3>2. QED
      BY <1>7, <3>1 DEF ShownIsAlive
  <2>2. ASSUME NEW w \in Views, Holds(w)', currentImage'[w] \in recycled'
        PROVE  currentKey'[w] \in tainted'
    <3>1. Holds(w) /\ currentImage'[w] = currentImage[w] /\ currentKey'[w] = currentKey[w]
      BY <1>3, <2>2 DEF Holds
    <3>2. currentImage[w] # c
      BY <1>5 DEF InUse
    <3>3. \/ currentImage[w] \in recycled
          \/ currentImage[w] \in Unused(ToSet(lru), bitmapUseCounts)
      BY <1>4, <1>7, <2>2, <3>1, <3>2
    <3>4. currentKey[w] \in tainted
      BY <3>1, <3>3, UnusedIsUnseen DEF ShownIsAlive
    <3>5. QED
      BY <1>3, <3>1, <3>4
  <2>3. QED
    BY <2>1, <2>2 DEF ShownIsAlive
<1>16. CountsAreViews'
  BY <1>3 DEF CountsAreViews
<1>17. QED
  BY <1>12, <1>13, <1>14, <1>15, <1>16

\* The views that take an image are counted, once more if they had one.
LEMMA ShowIsSound ==
    ASSUME Sound, Show
    PROVE  UseStays /\ CacheIsMap' /\ BitmapsFit' /\ ShownIsAlive' /\ CountsAreViews'
<1> USE SoundFacts
<1>1. PICK k \in Keys, b \in Created, vs \in SUBSET Views : ShowIs(k, b, vs)
  BY ShowDoes
<1>2. PICK t : t = Head(uiTasks)
  OBVIOUS
<1>3. /\ t \in ToSet(uiTasks) /\ t.kind = "show" /\ t.key = k /\ t.bitmap = b
      /\ ToSet(uiTasks') \subseteq ToSet(uiTasks)
  <2>1. uiTasks \in Seq(UiTaskOf(Created))
    BY DEF Base, Typed, TasksTyped
  <2>2. QED
    BY <1>1, <1>2, <2>1, TasksAfterTail DEF ShowIs
<1>4. /\ currentImage' = [v \in Views |-> IF v \in vs THEN b ELSE currentImage[v]]
      /\ bitmapUseCounts' = [bitmapUseCounts EXCEPT ![k] = @ + Cardinality(vs)]
      /\ tainted' = IF vs # {} /\ b \in recycled THEN tainted \cup {k} ELSE tainted
      /\ doubled' = IF \E v \in vs : currentImage[v] # 0 THEN doubled \cup {k} ELSE doubled
      /\ UNCHANGED <<currentKey, lru, recycled, key, loaderTasks>>
      /\ \A v \in vs : currentKey[v] = k
  BY <1>1 DEF ShowIs, images
<1>5. InUse(b) /\ key[b] = k
  BY <1>3 DEF InUse, BitmapsFit
<1>6. UseStays
  BY <1>3, <1>4, <1>5 DEF UseStays, InUse
<1>7. CacheIsMap'
  BY <1>4 DEF CacheIsMap
<1>8. BitmapsFit'
  BY <1>3, <1>4, <1>5 DEF BitmapsFit, Holds
<1>9. ShownIsAlive'
  BY <1>4 DEF ShownIsAlive, Holds
<1>10. CountsAreViews'
  <2>1. ASSUME NEW j \in Keys \ tainted'
        PROVE  CountIsRight(j)'
    <3>1. j \notin tainted /\ doubled \subseteq doubled'
      BY <1>4
    <3>2. CountIsRight(j)
      BY <3>1, CountsByKey
    <3>3. CASE j # k
      <4>1. Shown(j)' = Shown(j)
        BY <1>4, <3>3 DEF Shown
      <4>2. CountKeeps(j)
        BY <1>4, <3>3, <4>1 DEF CountKeeps
      <4>3. QED
        BY <3>1, <3>2, <4>2, CountStaysRight
    <3>4. CASE j = k
      <4>1. PICK S : S = Shown(k)
        OBVIOUS
      <4>2. S \in SUBSET Views /\ S \cap vs \in SUBSET Views /\ Shown(k)' = S \cup vs
        BY <1>4, <4>1 DEF Shown
      <4>3. /\ IsFiniteSet(S) /\ IsFiniteSet(vs)
            /\ Cardinality(S) \in Nat /\ Cardinality(vs) \in Nat
            /\ Cardinality(S \cap vs) \in Nat /\ IsFiniteSet(S \cap vs)
        BY <4>2, ShownIsFinite
      <4>4. Cardinality(S \cup vs) = Cardinality(S) + Cardinality(vs) - Cardinality(S \cap vs)
        BY <4>3, FS_Union
      <4>5. Cardinality(S \cap vs) # 0 => k \in doubled'
        <5>1. Cardinality(S \cap vs) # 0 => S \cap vs # {}
          BY FS_EmptySet
        <5>2. QED
          BY <1>4, <4>1, <5>1 DEF Shown
      <4>6. PICK n \in Nat : n = bitmapUseCounts[k]
        OBVIOUS
      <4>7. n >= Cardinality(S) /\ (n > Cardinality(S) => k \in doubled)
        BY <3>2, <3>4, <4>1, <4>6 DEF CountIsRight
      <4>8. bitmapUseCounts'[k] = n + Cardinality(vs)
        BY <1>4, <4>6
      <4>9. /\ n + Cardinality(vs) >= Cardinality(S \cup vs)
            /\ n + Cardinality(vs) > Cardinality(S \cup vs) =>
                   n > Cardinality(S) \/ Cardinality(S \cap vs) # 0
        BY <4>3, <4>4, <4>7
      <4>10. QED
        BY <3>1, <3>4, <4>2, <4>5, <4>7, <4>8, <4>9 DEF CountIsRight
    <3>5. QED
      BY <3>3, <3>4
  <2>2. CountsAreViews' <=> \A j \in Keys \ tainted' : CountIsRight(j)'
    BY DEF CountsAreViews, CountIsRight, Shown
  <2>3. QED
    BY <2>1, <2>2
<1>11. QED
  BY <1>6, <1>7, <1>8, <1>9, <1>10

-----------------------------------------------------------------------------
LEMMA InitIsSound ==
    ASSUME Init
    PROVE  Sound
<1>1. Base
  BY InitIsBase
<1>2. /\ uiTasks = <<>> /\ loaderTasks = <<>> /\ lru = <<>> /\ decodeTasks = <<>>
      /\ recycled = {} /\ bitmapUseCounts = [k \in Keys |-> 0]
      /\ imageLoadingByKeys = [k \in Keys |-> 0]
      /\ currentImage = [v \in Views |-> 0] /\ currentKey = [v \in Views |-> None]
  BY DEF Init
<1>3. /\ IsInjective(<<>>) /\ ToSet(<<>>) = {} /\ DOMAIN <<>> = {}
  BY DEF IsInjective, ToSet
<1>4. KeysAreOwn
  BY <1>2 DEF KeysAreOwn
<1>5. DecodedOnce /\ CacheIsMap
  BY <1>2, <1>3 DEF DecodedOnce, CacheIsMap
<1>6. BitmapsAreDecoded /\ BitmapsFit
  <2>1. \A c : ~Undecoded(c) \/ c = 0
    BY <1>2, <1>3 DEF Undecoded, Init
  <2>2. QED
    BY <1>2, <1>3, <2>1, LoadsAreNumbers DEF BitmapsAreDecoded, BitmapsFit, Holds
<1>7. ShownIsAlive
  BY <1>2, <1>3 DEF ShownIsAlive, Holds
<1>8. CountsAreViews
  <2>1. \A k \in Keys : Shown(k) = {}
    BY <1>2 DEF Shown
  <2>2. \A k \in Keys : bitmapUseCounts[k] = 0 /\ Cardinality(Shown(k)) = 0
    BY <1>2, <2>1, FS_EmptySet
  <2>3. QED
    BY <2>2, CountsByKey DEF CountIsRight
<1>9. QED
  BY <1>1, <1>4, <1>5, <1>6, <1>7, <1>8 DEF Sound, Bitmaps

LEMMA StepKeepsSound ==
    ASSUME Sound, [Next]_vars
    PROVE  Sound'
<1>1. Base' /\ KeysAreOwn' /\ KeysStay /\ Created \subseteq Created'
  BY StepKeepsBase, KeysOfAStep DEF Sound
<1>2. DecodingStays
  BY DecodingOfAStep DEF Sound, Bitmaps
<1>3. ASSUME UseStays
      PROVE  BitmapsAreDecoded'
  <2>1. \A c \in Created : InUse(c)' => InUse(c)
    BY <1>3, LoadsAreNumbers DEF UseStays
  <2>2. ASSUME NEW c \in Created' \ Created
        PROVE  ~InUse(c)'
    <3>1. c # 0
      BY LoadsAreNumbers DEF Created
    <3>2. QED
      BY <1>3, <2>2, <3>1, UsedAreCreated DEF UseStays, Sound
  <2>3. QED
    BY <1>2, <2>1, <2>2, DecodedStays DEF DecodingStays, Sound, Bitmaps
<1>4. CASE Users
  <2>1. ActIsSound
    BY <1>4, UsersAreSound
  <2>2. UseStays /\ CacheIsMap' /\ BitmapsFit'
    BY <2>1, ActKeepsFits DEF ActIsSound, Sound
  <2>3. QED
    BY <1>1, <1>2, <1>3, <2>1, <2>2 DEF Sound, Bitmaps, ActIsSound, DecodingStays
<1>5. CASE TaskHands
  BY <1>1, <1>2, <1>3, <1>5, HandsKeepSound DEF Sound, Bitmaps, DecodingStays
<1>6. CASE Decoded
  BY <1>1, <1>2, <1>6, DecodedIsSound DEF Sound, Bitmaps, DecodingStays
<1>7. CASE Show
  BY <1>1, <1>2, <1>3, <1>7, ShowIsSound DEF Sound, Bitmaps, DecodingStays
<1>8. QED
  BY <1>4, <1>5, <1>6, <1>7, LoadQueueHands, OthersHand DEF Next, UiThread

\* Every layer of Sound holds in every reachable state, since each step of the
\* application, of imageLoadQueue, of the decoder and of the main thread keeps it.
THEOREM AlwaysSound == Spec => []Sound
<1>1. Init => Sound
  BY InitIsSound
<1>2. Sound /\ [Next]_vars => Sound'
  BY StepKeepsSound
<1>3. QED
  BY <1>1, <1>2, PTL DEF Spec

\* ShownIsAlive always holds: whatever is in the cache or shown by a view was not
\* recycled (recycleBitmap, entryRemoved), unless the view got a bitmap that was
\* recycled on its way from the cache through imageLoadQueue.
THEOREM NoViewLosesItsBitmap == Spec => []ShownIsAlive
<1>1. Sound => ShownIsAlive
  BY DEF Sound
<1>2. QED
  BY <1>1, AlwaysSound, PTL

\* CountsAreViews always holds: incrementUseCount and decrementUseCount keep the
\* number of views that show a key, or more if a view was counted twice.
THEOREM CountsAreRight == Spec => []CountsAreViews
<1>1. Sound => CountsAreViews
  BY DEF Sound
<1>2. QED
  BY <1>1, AlwaysSound, PTL


-----------------------------------------------------------------------------
(* The loads, the maps and the tasks that end them.                        *)

\* A download is over when the map of files has no name for it.
Live(c) == c \notin remote \/ imageLoadingByUrl[UrlOf[key[c]]] = c

\* A view has the tag of the load that has it as a receiver.
TagsAreReceivers ==
    /\ \A v \in Views, c \in Created :
           imageLoadingByTag[v] = c <=> v \in receivers[c] /\ Live(c)
    /\ \A c \in Loads \ Created : receivers[c] = {}

\* Files name downloads of theirs, and keys name loads that are decoded.
NamesAreOwn ==
    /\ \A u \in Urls : imageLoadingByUrl[u] # 0 =>
           /\ imageLoadingByUrl[u] \in remote
           /\ UrlOf[key[imageLoadingByUrl[u]]] = u
    /\ \A k \in Keys : imageLoadingByKeys[k] \notin remote

\* A load is still decoded, or its end is on its way.
Ending(c) ==
    \/ decoding = c
    \/ \E t \in ToSet(uiTasks) : t.kind = "decoded" /\ t.load = c
    \/ \E t \in ToSet(loaderTasks) : t.kind = "set" /\ t.load = c

Decodes(c) == c \in ToSet(decodeTasks) \/ Ending(c)

DecodedAreLocal == \A c \in Created : Decodes(c) => c \notin remote

\* Nobody waits for a load that was cancelled, or will find it.
CancelledAreLeft ==
    \A c \in isCancelled :
        /\ receivers[c] = {}
        /\ \A u \in Urls : imageLoadingByUrl[u] # c
        /\ \A k \in Keys : imageLoadingByKeys[k] # c

\* What somebody waits for or may find is on its way.
LocalAreDecoded ==
    \A c \in Created \ remote :
        receivers[c] # {} \/ (\E k \in Keys : imageLoadingByKeys[k] = c) => Decodes(c)

FileDue(u) ==
    \/ u \in downloading
    \/ \E t \in ToSet(uiTasks) \cup ToSet(loaderTasks) : t.kind = "file" /\ t.url = u

FilesAreDue == \A u \in Urls : imageLoadingByUrl[u] # 0 => FileDue(u)

Loading ==
    /\ TagsAreReceivers /\ NamesAreOwn /\ DecodedAreLocal /\ CancelledAreLeft
    /\ LocalAreDecoded /\ FilesAreDue

\* What stays when only the tasks move on.
LEMMA TasksKeepLoading ==
    ASSUME Loading, UNCHANGED <<maps, images, isCancelled>>,
           \A c \in Created : Decodes(c)' => Decodes(c),
           \A c \in Created : Decodes(c) => Decodes(c)' \/ c \in isCancelled,
           \A u \in Urls : FileDue(u) => FileDue(u)'
    PROVE  Loading'
<1>1. Created' = Created
  BY SameLoads DEF images
<1>2. UNCHANGED <<imageLoadingByUrl, imageLoadingByKeys, imageLoadingByTag, key, remote,
                  receivers, isCancelled>>
  BY DEF maps, images
<1>3. TagsAreReceivers'
  BY <1>1, <1>2 DEF Loading, TagsAreReceivers, Live
<1>4. NamesAreOwn'
  BY <1>2 DEF Loading, NamesAreOwn
<1>5. DecodedAreLocal'
  BY <1>1, <1>2 DEF Loading, DecodedAreLocal
<1>6. CancelledAreLeft'
  BY <1>2 DEF Loading, CancelledAreLeft
<1>7. LocalAreDecoded'
  BY <1>1, <1>2 DEF Loading, LocalAreDecoded, CancelledAreLeft
<1>8. FilesAreDue'
  BY <1>2 DEF Loading, FilesAreDue
<1>9. QED
  BY <1>3, <1>4, <1>5, <1>6, <1>7, <1>8 DEF Loading

\* Views leave the load old for the load to, which they find or start, or for
\* none; gone, if old is forgotten with that.
Started(to) == to \in Loads /\ to \notin Created

Moves(R, old, to, gone) ==
    /\ R \subseteq Views /\ old \in Created \cup {0} /\ to \in Loads \cup {0}
    /\ to # 0 => to # old
    /\ \A w \in R : imageLoadingByTag[w] = old
    /\ gone => old # 0 /\ receivers[old] \subseteq R
    /\ imageLoadingByTag' = [w \in Views |-> IF w \in R THEN to ELSE imageLoadingByTag[w]]
    /\ \A x \in Loads : x # old => receivers'[x] = receivers[x] \cup IF x = to THEN R ELSE {}
    /\ old # 0 =>
           \/ receivers'[old] = receivers[old] \ R
           \/ old \in remote /\ gone /\ old \notin isCancelled'

LoadsKept(to) ==
    /\ Created' = Created \cup ({to} \ {0})
    /\ \A x \in Created : key'[x] = key[x] /\ (x \in remote' <=> x \in remote)
    /\ to \in Created => \/ \E u \in Urls : imageLoadingByUrl[u] = to
                         \/ \E k \in Keys : imageLoadingByKeys[k] = to

NamesMove(old, to, gone) ==
    /\ \A u \in Urls :
           \/ imageLoadingByUrl'[u] = IF gone /\ imageLoadingByUrl[u] = old THEN 0
                                      ELSE imageLoadingByUrl[u]
           \/ /\ Started(to) /\ to \in remote' /\ u = UrlOf[key'[to]]
              /\ imageLoadingByUrl[u] = 0 /\ imageLoadingByUrl'[u] = to
    /\ Started(to) /\ to \in remote' => imageLoadingByUrl'[UrlOf[key'[to]]] = to
    /\ \A k \in Keys :
           \/ imageLoadingByKeys'[k] \in {imageLoadingByKeys[k], 0}
           \/ to # 0 /\ imageLoadingByKeys'[k] = to /\ to \notin remote'
    /\ gone => \A k \in Keys : imageLoadingByKeys'[k] # old

EndsMove(old, to, gone) ==
    /\ isCancelled' \subseteq isCancelled \cup {x \in {old} : gone}
    /\ \A x \in Created : Decodes(x) => Decodes(x)' \/ (gone /\ x = old)
    /\ \A x \in Created' : Decodes(x)' =>
           Decodes(x) \/ (Started(to) /\ x = to /\ to \notin remote')
    /\ Started(to) /\ to \notin remote' => Decodes(to)'
    /\ \A u \in Urls : FileDue(u) => FileDue(u)' \/ imageLoadingByUrl'[u] = 0
    /\ Started(to) /\ to \in remote' =>
           \A u \in Urls : u = UrlOf[key'[to]] => FileDue(u)'

\* What is decoded was created.
LEMMA DecodersAreCreated ==
    ASSUME Base, NEW c, c # 0, Decodes(c)
    PROVE  c \in Created
<1>1. /\ decodeTasks \in Seq(Created) /\ decoding \in Created \cup {0}
      /\ uiTasks \in Seq(UiTaskOf(Created)) /\ loaderTasks \in Seq(LoaderTaskOf(Created))
  BY DEF Base, Typed, TasksTyped, DecoderTyped
<1>2. CASE c \in ToSet(decodeTasks) \/ decoding = c
  BY <1>1, <1>2, InToSet
<1>3. ASSUME NEW t \in ToSet(uiTasks), t.kind = "decoded", t.load = c
      PROVE  c \in Created
  <2>1. t \in UiTaskOf(Created)
    BY <1>1, InToSet
  <2>2. QED
    BY <1>3, <2>1 DEF UiTaskOf
<1>4. ASSUME NEW t \in ToSet(loaderTasks), t.kind = "set", t.load = c
      PROVE  c \in Created
  <2>1. t \in LoaderTaskOf(Created)
    BY <1>1, InToSet
  <2>2. QED
    BY <1>4, <2>1 DEF LoaderTaskOf
<1>5. QED
  BY <1>2, <1>3, <1>4 DEF Decodes, Ending

LEMMA MovesKeepLoading ==
    ASSUME Base, Base', Loading, NEW R, NEW old, NEW to, NEW gone \in BOOLEAN,
           Moves(R, old, to, gone), LoadsKept(to), NamesMove(old, to, gone),
           EndsMove(old, to, gone)
    PROVE  Loading'
<1>1. /\ Created \subseteq Loads /\ 0 \notin Created /\ 0 \notin Loads
      /\ Created' \subseteq Loads /\ 0 \notin Created'
      /\ imageLoadingByTag \in [Views -> Created \cup {0}]
      /\ imageLoadingByUrl \in [Urls -> Created \cup {0}]
      /\ imageLoadingByKeys \in [Keys -> Created \cup {0}]
      /\ remote \subseteq Created /\ remote' \subseteq Created' /\ isCancelled \subseteq Created
      /\ \A x \in Created : UrlOf[key[x]] \in Urls
      /\ \A x \in Created' : UrlOf[key'[x]] \in Urls
  <2>1. \A x \in Created' : UrlOf[key'[x]] \in Urls
    BY ImageAssumption DEF Created, Base, Typed, LoadsTyped
  <2>2. 0 \notin Created' /\ Created' \subseteq Loads
    BY LoadsAreNumbers DEF Created
  <2>3. QED
    BY <2>1, <2>2, LoadsAreNumbers, CreatedHaveKeys
    DEF Base, Typed, MapsTyped, LoadsTyped, DecoderTyped
<1>2. /\ to # 0 => to \in Created' /\ to # old
      /\ Created' = Created \cup ({to} \ {0})
      /\ \A x \in Created : key'[x] = key[x] /\ (x \in remote' <=> x \in remote)
      /\ Created \subseteq Created'
  BY DEF Moves, LoadsKept
\* Who is found is alive and was not cancelled.
<1>3. to \in Created => Live(to) /\ to \notin isCancelled
  BY <1>1 DEF LoadsKept, Loading, NamesAreOwn, CancelledAreLeft, Live
<1>4. to # 0 => Live(to)'
  <2>1. CASE to \in Created
    <3>1. to \notin remote => to \notin remote'
      BY <1>2, <2>1
    <3>2. to \in remote => imageLoadingByUrl'[UrlOf[key'[to]]] = to
      BY <1>1, <1>2, <1>3, <2>1 DEF Live, NamesMove, Started
    <3>3. QED
      BY <3>1, <3>2 DEF Live
  <2>2. CASE to # 0 /\ to \notin Created
    BY <1>1, <1>2, <2>2 DEF NamesMove, Started, Live
  <2>3. QED
    BY <2>1, <2>2
<1>5. ASSUME NEW x \in Created, x # old, x # to
      PROVE  Live(x)' <=> Live(x)
  <2>1. UrlOf[key'[x]] = UrlOf[key[x]] /\ UrlOf[key[x]] \in Urls
    BY <1>1, <1>2
  <2>2. imageLoadingByUrl'[UrlOf[key[x]]] = x <=> imageLoadingByUrl[UrlOf[key[x]]] = x
    BY <1>1, <1>5, <2>1 DEF NamesMove
  <2>3. QED
    BY <1>2, <2>1, <2>2 DEF Live
<1>6. ASSUME old # 0
      PROVE  /\ gone /\ old \in remote => ~Live(old)'
             /\ ~gone => (Live(old)' <=> Live(old))
  <2>1. UrlOf[key'[old]] = UrlOf[key[old]] /\ UrlOf[key[old]] \in Urls /\ old \in Created
    BY <1>1, <1>2, <1>6 DEF Moves
  <2>2. gone => imageLoadingByUrl'[UrlOf[key[old]]] # old
    BY <1>1, <1>2, <1>6, <2>1 DEF NamesMove
  <2>3. ~gone => (imageLoadingByUrl'[UrlOf[key[old]]] = old
                      <=> imageLoadingByUrl[UrlOf[key[old]]] = old)
    BY <1>1, <1>2, <1>6, <2>1 DEF NamesMove
  <2>4. QED
    BY <1>2, <2>1, <2>2, <2>3 DEF Live
<1>7. TagsAreReceivers'
  <2>1. ASSUME NEW w \in Views, NEW x \in Created'
        PROVE  imageLoadingByTag'[w] = x <=> w \in receivers'[x] /\ Live(x)'
    <3>1. imageLoadingByTag'[w] = IF w \in R THEN to ELSE imageLoadingByTag[w]
      BY DEF Moves
    <3>2. x \in Loads /\ x # 0
      BY <1>1
    <3>3. CASE x = to
      <4>1. receivers'[x] = receivers[x] \cup R
        BY <1>2, <3>2, <3>3 DEF Moves
      <4>2. imageLoadingByTag[w] = x <=> w \in receivers[x]
        BY <1>1, <1>2, <1>3, <3>2, <3>3 DEF Loading, TagsAreReceivers
      <4>3. QED
        BY <1>4, <3>1, <3>2, <3>3, <4>1, <4>2
    <3>4. CASE x # to /\ x # old
      <4>1. receivers'[x] = receivers[x] /\ x \in Created
        BY <1>2, <3>2, <3>4 DEF Moves
      <4>2. imageLoadingByTag[w] = x <=> w \in receivers[x] /\ Live(x)
        BY <4>1 DEF Loading, TagsAreReceivers
      <4>3. w \in R => imageLoadingByTag[w] # x
        BY <3>4 DEF Moves
      <4>4. QED
        BY <1>5, <3>1, <3>4, <4>1, <4>2, <4>3
    <3>5. CASE x # to /\ x = old
      <4>1. old # 0 /\ old \in Created
        BY <1>2, <3>2, <3>5
      <4>2. imageLoadingByTag[w] = old <=> w \in receivers[old] /\ Live(old)
        BY <4>1 DEF Loading, TagsAreReceivers
      <4>3. \/ receivers'[old] = receivers[old] \ R
            \/ gone /\ ~Live(old)'
        BY <1>6, <4>1 DEF Moves
      <4>4. gone => receivers[old] \subseteq R
        BY DEF Moves
      <4>5. ~gone => (Live(old)' <=> Live(old))
        BY <1>6, <4>1
      <4>6. QED
        BY <3>1, <3>5, <4>2, <4>3, <4>4, <4>5, Zenon
    <3>6. QED
      BY <3>3, <3>4, <3>5
  <2>2. ASSUME NEW x \in Loads \ Created'
        PROVE  receivers'[x] = {}
    <3>1. x # to /\ x # old /\ x \notin Created
      BY <1>1, <1>2, <2>2 DEF Moves
    <3>2. QED
      BY <2>2, <3>1 DEF Moves, Loading, TagsAreReceivers
  <2>3. QED
    BY <2>1, <2>2 DEF TagsAreReceivers
<1>8. NamesAreOwn'
  <2>1. ASSUME NEW u \in Urls, imageLoadingByUrl'[u] # 0
        PROVE  imageLoadingByUrl'[u] \in remote' /\ UrlOf[key'[imageLoadingByUrl'[u]]] = u
    <3>1. CASE imageLoadingByUrl'[u] = imageLoadingByUrl[u]
      BY <1>1, <1>2, <2>1, <3>1 DEF Loading, NamesAreOwn
    <3>2. CASE imageLoadingByUrl'[u] # imageLoadingByUrl[u]
      BY <2>1, <3>2 DEF NamesMove
    <3>3. QED
      BY <3>1, <3>2
  <2>2. ASSUME NEW k \in Keys
        PROVE  imageLoadingByKeys'[k] \notin remote'
    BY <1>1, <1>2 DEF NamesMove, Loading, NamesAreOwn
  <2>3. QED
    BY <2>1, <2>2 DEF NamesAreOwn
<1>9. DecodedAreLocal'
  <2>1. ASSUME NEW x \in Created', Decodes(x)'
        PROVE  x \notin remote'
    <3>1. x \in Created \/ (Started(to) /\ x = to)
      BY <1>1, <1>2 DEF Started
    <3>2. (Decodes(x) /\ x \in Created) \/ x \notin remote'
      BY <2>1, <3>1, <1>1, DecodersAreCreated DEF EndsMove
    <3>3. QED
      BY <1>2, <3>2 DEF Loading, DecodedAreLocal
  <2>2. QED
    BY <2>1 DEF DecodedAreLocal
<1>10. CancelledAreLeft'
  <2>1. ASSUME NEW x \in isCancelled'
        PROVE  /\ receivers'[x] = {}
               /\ \A u \in Urls : imageLoadingByUrl'[u] # x
               /\ \A k \in Keys : imageLoadingByKeys'[k] # x
    <3>1. x \in isCancelled \/ (gone /\ x = old)
      BY <2>1 DEF EndsMove
    <3>2. CASE gone /\ x = old
      <4>1. old # 0 /\ old \in Created /\ old # to
        BY <1>2, <3>2 DEF Moves
      <4>2. receivers'[old] = {}
        BY <2>1, <3>2 DEF Moves
      <4>3. \A u \in Urls : imageLoadingByUrl'[u] # old
        BY <3>2, <4>1 DEF NamesMove
      <4>4. QED
        BY <3>2, <4>2, <4>3 DEF NamesMove
    <3>3. CASE x \in isCancelled /\ ~(gone /\ x = old)
      <4>1. /\ x \in Created /\ x # 0 /\ x # to /\ receivers[x] = {}
            /\ \A u \in Urls : imageLoadingByUrl[u] # x
            /\ \A k \in Keys : imageLoadingByKeys[k] # x
        BY <1>1, <1>3, <3>3 DEF Loading, CancelledAreLeft
      <4>2. receivers'[x] = {}
        BY <1>1, <3>3, <4>1 DEF Moves
      <4>3. QED
        BY <4>1, <4>2 DEF NamesMove
    <3>4. QED
      BY <3>1, <3>2, <3>3
  <2>2. QED
    BY <2>1 DEF CancelledAreLeft
<1>11. LocalAreDecoded'
  <2>1. ASSUME NEW x \in Created', x \notin remote',
               receivers'[x] # {} \/ \E k \in Keys : imageLoadingByKeys'[k] = x
        PROVE  Decodes(x)'
    <3>1. CASE x = to /\ x \notin Created
      BY <1>1, <2>1, <3>1 DEF EndsMove, Started
    <3>2. CASE x = to /\ x \in Created
      <4>1. x \notin remote /\ x # old
        BY <1>1, <1>2, <2>1, <3>2
      <4>2. \E k \in Keys : imageLoadingByKeys[k] = x
        BY <1>1, <3>2, <4>1 DEF LoadsKept, Loading, NamesAreOwn
      <4>3. Decodes(x)
        BY <3>2, <4>1, <4>2 DEF Loading, LocalAreDecoded
      <4>4. QED
        BY <3>2, <4>1, <4>3 DEF EndsMove
    <3>3. CASE x # to
      <4>1. x \in Created /\ x \notin remote /\ x # 0 /\ x \in Loads
        BY <1>1, <1>2, <2>1, <3>3
      <4>2. ~(gone /\ x = old)
        <5>1. SUFFICES ASSUME gone, x = old PROVE FALSE
          OBVIOUS
        <5>2. receivers'[old] = {}
          BY <4>1, <5>1 DEF Moves
        <5>3. \A k \in Keys : imageLoadingByKeys'[k] # old
          BY <5>1 DEF NamesMove
        <5>4. QED
          BY <2>1, <5>1, <5>2, <5>3
      <4>3. receivers'[x] \subseteq receivers[x]
        BY <3>3, <4>1, <4>2 DEF Moves
      <4>4. (\E k \in Keys : imageLoadingByKeys'[k] = x) =>
                \E k \in Keys : imageLoadingByKeys[k] = x
        BY <3>3, <4>1 DEF NamesMove
      <4>5. Decodes(x)
        BY <2>1, <4>1, <4>3, <4>4 DEF Loading, LocalAreDecoded
      <4>6. QED
        BY <4>1, <4>2, <4>5 DEF EndsMove
    <3>4. QED
      BY <3>1, <3>2, <3>3
  <2>2. QED
    BY <2>1 DEF LocalAreDecoded
<1>12. FilesAreDue'
  <2>1. ASSUME NEW u \in Urls, imageLoadingByUrl'[u] # 0
        PROVE  FileDue(u)'
    <3>1. CASE imageLoadingByUrl[u] # 0
      BY <2>1, <3>1 DEF Loading, FilesAreDue, EndsMove
    <3>2. CASE imageLoadingByUrl[u] = 0
      BY <2>1, <3>2 DEF NamesMove, EndsMove
    <3>3. QED
      BY <3>1, <3>2
  <2>2. QED
    BY <2>1 DEF FilesAreDue
<1>13. QED
  BY <1>7, <1>8, <1>9, <1>10, <1>11, <1>12 DEF Loading

-----------------------------------------------------------------------------
(* The tasks of imageLoadQueue and the loads.                              *)

\* What a view leaves behind when it leaves its load, if it has one; gone, if
\* the load has no other view.
Leaves(v, old, gone) ==
    /\ gone => old # 0 /\ receivers[old] \subseteq {v}
    /\ \A x \in Loads : Without(old, v)[x] = IF x = old THEN receivers[x] \ {v}
                                             ELSE receivers[x]
    /\ \A u \in Urls : UrlsWithout(old, v)[u] =
           IF gone /\ imageLoadingByUrl[u] = old THEN 0 ELSE imageLoadingByUrl[u]
    /\ \A k \in Keys : /\ KeysWithout(old, v)[k] \in {imageLoadingByKeys[k], 0}
                       /\ gone => KeysWithout(old, v)[k] # old
    /\ \A x : x \in ToSet(decodeTasks) =>
           x \in ToSet(DecodesWithout(old, v)) \/ (gone /\ x = old)
    /\ ToSet(DecodesWithout(old, v)) \subseteq ToSet(decodeTasks)
    /\ CancelsWith(old, v) \subseteq isCancelled \cup {x \in {old} : gone}
    /\ \A u : u \in downloading =>
           u \in DownloadsWithout(old, v) \/ (gone /\ imageLoadingByUrl[u] = old)

LEMMA LeavingFacts ==
    ASSUME Base, DecodedOnce, KeysAreOwn, Loading, NEW v \in Views, NEW old,
           old = imageLoadingByTag[v]
    PROVE  /\ old \in Created \cup {0}
           /\ \E gone \in BOOLEAN : gone = Drops(old, v) /\ Leaves(v, old, gone)
<1>1. /\ imageLoadingByUrl \in [Urls -> Created \cup {0}] /\ 0 \notin Created
      /\ imageLoadingByKeys \in [Keys -> Created \cup {0}]
      /\ imageLoadingByTag \in [Views -> Created \cup {0}]
      /\ receivers \in [Loads -> SUBSET Views] /\ Created \subseteq Loads /\ 0 \notin Loads
      /\ decodeTasks \in Seq(Created) /\ IsInjective(decodeTasks) /\ downloading \subseteq Urls
  BY LoadsAreNumbers
  DEF Base, Typed, MapsTyped, LoadsTyped, DecoderTyped, FilesTyped, DecodedOnce
<1>2. old \in Created \cup {0} /\ Drops(old, v) \in BOOLEAN
  BY <1>1 DEF Drops
<1>3. Drops(old, v) => old # 0 /\ receivers[old] \subseteq {v}
  BY DEF Drops
<1>4. \A x \in Loads : Without(old, v)[x] = IF x = old THEN receivers[x] \ {v} ELSE receivers[x]
  BY <1>1, <1>2 DEF Without
<1>5. old # 0 => /\ key[old] \in Keys /\ UrlOf[key[old]] \in Urls
                 /\ old \in remote => imageLoadingByUrl[UrlOf[key[old]]] = old
  BY <1>2, CreatedHaveKeys DEF Base, Loading, TagsAreReceivers, Live
\* A download that has a tag is the one of its file.
<1>6. \A u \in Urls : old # 0 /\ imageLoadingByUrl[u] = old <=>
          old # 0 /\ old \in remote /\ u = UrlOf[key[old]]
  BY <1>5 DEF Loading, NamesAreOwn
<1>7. \A u \in Urls : UrlsWithout(old, v)[u] =
          IF Drops(old, v) /\ imageLoadingByUrl[u] = old THEN 0 ELSE imageLoadingByUrl[u]
  BY <1>1, <1>3, <1>6 DEF UrlsWithout
<1>8. \A k \in Keys : /\ KeysWithout(old, v)[k] \in {imageLoadingByKeys[k], 0}
                      /\ Drops(old, v) => KeysWithout(old, v)[k] # old
  BY <1>1, <1>3, <1>5 DEF KeysWithout, KeysAreOwn
<1>9. /\ \A x : x \in ToSet(decodeTasks) =>
             x \in ToSet(DecodesWithout(old, v)) \/ (Drops(old, v) /\ x = old)
      /\ ToSet(DecodesWithout(old, v)) \subseteq ToSet(decodeTasks)
  <2>1. ToSet(RemoveFirst(decodeTasks, old)) = ToSet(decodeTasks) \ {old}
    BY <1>1, RemoveFirstOfDistinct
  <2>2. QED
    BY <2>1 DEF DecodesWithout
<1>10. CancelsWith(old, v) \subseteq isCancelled \cup {x \in {old} : Drops(old, v)}
  BY DEF CancelsWith
<1>11. \A u : u \in downloading => \/ u \in DownloadsWithout(old, v)
                                   \/ Drops(old, v) /\ imageLoadingByUrl[u] = old
  BY <1>1, <1>3, <1>6 DEF DownloadsWithout
<1>12. PICK gone \in BOOLEAN : gone = Drops(old, v)
  BY <1>2
<1>13. Leaves(v, old, gone)
  BY <1>3, <1>4, <1>7, <1>8, <1>9, <1>10, <1>11, <1>12 DEF Leaves
<1>14. QED
  BY <1>2, <1>12, <1>13

\* What a task that is not the end of a load leaves of the ends.
LEMMA EndsAfterTask ==
    ASSUME Base, loaderTasks # <<>>, loaderTasks' = Tail(loaderTasks), uiTasks' = uiTasks,
           decoding' = decoding, Head(loaderTasks).kind # "set"
    PROVE  /\ \A x : Ending(x)' <=> Ending(x)
           /\ \A u : FileDue(u) => \/ FileDue(u)' \/ u \in downloading
                                   \/ /\ Head(loaderTasks).kind = "file"
                                      /\ Head(loaderTasks).url = u
           /\ \A u : u \in downloading' => FileDue(u)'
           /\ \A u : FileDue(u)' => u \in downloading' \/ FileDue(u)
<1>1. ToSet(loaderTasks) = {Head(loaderTasks)} \cup ToSet(loaderTasks')
  BY TasksAfterTail DEF Base, Typed, TasksTyped
<1>2. \A x : Ending(x)' <=> Ending(x)
  BY <1>1 DEF Ending
<1>3. QED
  BY <1>1, <1>2 DEF FileDue

LEMMA CancelLoadingKeeps ==
    ASSUME Base, Base', DecodedOnce, KeysAreOwn, Loading, CancelLoading
    PROVE  Loading'
<1>1. PICK v, old :
          v \in Views /\ v = Head(loaderTasks).view /\ old = imageLoadingByTag[v]
  BY FirstTaskTaken DEF CancelLoading, FirstTask
<1>2. /\ receivers' = Without(old, v)
      /\ imageLoadingByTag' = [imageLoadingByTag EXCEPT ![v] = 0]
      /\ imageLoadingByUrl' = UrlsWithout(old, v)
      /\ imageLoadingByKeys' = KeysWithout(old, v)
      /\ decodeTasks' = DecodesWithout(old, v)
      /\ isCancelled' = CancelsWith(old, v)
      /\ downloading' = DownloadsWithout(old, v)
      /\ loaderTasks # <<>> /\ Head(loaderTasks).kind = "cancel"
      /\ loaderTasks' = Tail(loaderTasks)
      /\ UNCHANGED <<key, remote, uiTasks, decoding>>
  BY <1>1 DEF CancelLoading, FirstTask
<1>3. PICK gone \in BOOLEAN : Leaves(v, old, gone)
  BY <1>1, LeavingFacts
<1>4. Moves({v}, old, 0, gone)
  <2>1. imageLoadingByTag' = [w \in Views |-> IF w \in {v} THEN 0 ELSE imageLoadingByTag[w]]
    BY <1>2 DEF Base, Typed, MapsTyped
  <2>2. 0 \notin Loads /\ Created \subseteq Loads
    BY LoadsAreNumbers
  <2>3. /\ old \in Created \cup {0} /\ (gone => old # 0 /\ receivers[old] \subseteq {v})
        /\ \A x \in Loads : receivers'[x] = IF x = old THEN receivers[x] \ {v} ELSE receivers[x]
    BY <1>1, <1>2, <1>3, LeavingFacts DEF Leaves
  <2>4. \A x \in Loads : x # old => receivers'[x] = receivers[x] \cup IF x = 0 THEN {v} ELSE {}
    BY <2>2, <2>3
  <2>5. old # 0 => receivers'[old] = receivers[old] \ {v}
    BY <2>2, <2>3
  <2>6. QED
    BY <1>1, <2>1, <2>3, <2>4, <2>5 DEF Moves
<1>5. LoadsKept(0)
  BY <1>2, SameLoads, LoadsAreNumbers DEF LoadsKept
<1>6. NamesMove(old, 0, gone)
  BY <1>2, <1>3, LoadsAreNumbers DEF NamesMove, Started, Leaves
<1>7. EndsMove(old, 0, gone)
  <2>1. \A x : Decodes(x) => Decodes(x)' \/ (gone /\ x = old)
    BY <1>2, <1>3, EndsAfterTask DEF Decodes, Leaves
  <2>2. \A x : Decodes(x)' => Decodes(x)
    BY <1>2, <1>3, EndsAfterTask DEF Decodes, Leaves
  <2>3. isCancelled' \subseteq isCancelled \cup {x \in {old} : gone}
    BY <1>2, <1>3 DEF Leaves
  <2>4. ASSUME NEW u \in Urls, FileDue(u)
        PROVE  FileDue(u)' \/ imageLoadingByUrl'[u] = 0
    BY <1>2, <1>3, <2>4, EndsAfterTask DEF Leaves
  <2>5. 0 \notin Loads
    BY LoadsAreNumbers
  <2>6. QED
    BY <2>1, <2>2, <2>3, <2>4, <2>5 DEF EndsMove, Started
<1>8. QED
  BY <1>3, <1>4, <1>5, <1>6, <1>7, MovesKeepLoading

LEMMA JoinOrCreateKeeps ==
    ASSUME Base, Base', DecodedOnce, KeysAreOwn, Loading, NEW v \in Views, NEW k \in Keys,
           NEW old \in Created \cup {0}, NEW c \in Loads, JoinOrCreateIs(v, k, old, c)
    PROVE  Loading'
<1>1. /\ old = imageLoadingByTag[v]
      /\ old = 0 \/ old \notin {imageLoadingByUrl[UrlOf[k]], imageLoadingByKeys[k]}
      /\ receivers' = [Without(old, v) EXCEPT ![c] = @ \cup {v}]
      /\ imageLoadingByTag' = [imageLoadingByTag EXCEPT ![v] = c]
      /\ isCancelled' = CancelsWith(old, v)
      /\ loaderTasks # <<>> /\ Head(loaderTasks).kind = "load"
      /\ loaderTasks' = Tail(loaderTasks) /\ uiTasks' = uiTasks /\ decoding' = decoding
  BY DEF JoinOrCreateIs
<1>2. /\ 0 \notin Loads /\ 0 \notin Created /\ Created \subseteq Loads /\ UrlOf[k] \in Urls
      /\ key \in [Loads -> Keys \cup {None}] /\ None \notin Keys
      /\ remote \subseteq Created
  BY LoadsAreNumbers, ImageAssumption DEF Base, Typed, LoadsTyped
<1>3. /\ Without(old, v) \in [Loads -> SUBSET Views]
      /\ UrlsWithout(old, v) \in [Urls -> Created \cup {0}]
      /\ KeysWithout(old, v) \in [Keys -> Created \cup {0}]
      /\ DecodesWithout(old, v) \in Seq(Created)
  BY WithoutTyped
<1>4. PICK gone \in BOOLEAN : Leaves(v, old, gone)
  BY <1>1, LeavingFacts
<1>5. isCancelled' \subseteq isCancelled \cup {x \in {old} : gone}
  BY <1>1, <1>4 DEF Leaves
<1>6. /\ \A x : Ending(x)' <=> Ending(x)
      /\ \A u : FileDue(u) => FileDue(u)' \/ u \in downloading
      /\ \A u : u \in downloading' => FileDue(u)'
  BY <1>1, EndsAfterTask
<1>7. c # old /\ (c \in Created <=> ~Started(c))
      /\ (c \in Created => Joins(c, k, old, v))
      /\ (Started(c) => CreatesDecoded(c, k, old, v) \/ CreatesRemote(c, k, old, v))
  BY <1>1, <1>2 DEF JoinOrCreateIs, Joins, CreatesDecoded, CreatesRemote, Started
<1>8. Moves({v}, old, c, gone)
  <2>1. imageLoadingByTag' = [w \in Views |-> IF w \in {v} THEN c ELSE imageLoadingByTag[w]]
    BY <1>1 DEF Base, Typed, MapsTyped
  <2>2. \A x \in Loads : receivers'[x] = IF x = c THEN Without(old, v)[x] \cup {v}
                                         ELSE Without(old, v)[x]
    BY <1>1, <1>3
  <2>3. \A x \in Loads : x # old => receivers'[x] = receivers[x] \cup IF x = c THEN {v} ELSE {}
    BY <1>4, <1>5, <2>2 DEF Leaves
  <2>4. old # 0 => receivers'[old] = receivers[old] \ {v}
    BY <1>2, <1>4, <1>5, <1>7, <2>2 DEF Leaves
  <2>5. QED
    BY <1>1, <1>4, <1>5, <1>7, <2>1, <2>3, <2>4 DEF Moves, Leaves
<1>9. LoadsKept(c)
  <2>1. CASE c \in Created
    <3>1. key' = key /\ remote' = remote /\ Created' = Created
      BY <1>7, <2>1, SameLoads DEF Joins
    <3>2. imageLoadingByKeys[k] = c \/ imageLoadingByUrl[UrlOf[k]] = c
      BY <1>7, <2>1 DEF Joins
    <3>3. QED
      BY <1>2, <2>1, <3>1, <3>2 DEF LoadsKept
  <2>2. CASE Started(c)
    <3>1. /\ key' = [key EXCEPT ![c] = k] /\ c \notin Created
          /\ remote' = remote \/ remote' = remote \cup {c}
      BY <1>7, <2>2 DEF CreatesDecoded, CreatesRemote
    <3>2. Created' = Created \cup {c}
      BY <3>1, CreatedGrows DEF Base
    <3>3. QED
      BY <1>2, <3>1, <3>2 DEF LoadsKept
  <2>3. QED
    BY <1>7, <2>1, <2>2
<1>10. NamesMove(old, c, gone) /\ EndsMove(old, c, gone)
  <2>1. CASE c \in Created
    <3>1. /\ imageLoadingByUrl' = UrlsWithout(old, v) /\ imageLoadingByKeys' = KeysWithout(old, v)
          /\ decodeTasks' = DecodesWithout(old, v) /\ downloading' = DownloadsWithout(old, v)
      BY <1>7, <2>1 DEF Joins
    <3>2. NamesMove(old, c, gone)
      BY <1>4, <1>5, <1>7, <2>1, <3>1 DEF NamesMove, Leaves
    <3>3. EndsMove(old, c, gone)
      <4>1. /\ \A x : Decodes(x) => Decodes(x)' \/ (gone /\ x = old)
            /\ \A x : Decodes(x)' => Decodes(x)
        BY <1>4, <1>5, <1>6, <3>1 DEF Decodes, Leaves
      <4>2. \A u \in Urls : FileDue(u) => FileDue(u)' \/ imageLoadingByUrl'[u] = 0
        BY <1>4, <1>5, <1>6, <3>1 DEF Leaves
      <4>3. QED
        BY <1>4, <1>5, <1>7, <2>1, <4>1, <4>2 DEF EndsMove, Leaves
    <3>4. QED
      BY <3>2, <3>3
  <2>2. CASE CreatesDecoded(c, k, old, v)
    <3>1. /\ imageLoadingByUrl' = UrlsWithout(old, v)
          /\ imageLoadingByKeys' = [KeysWithout(old, v) EXCEPT ![k] = c]
          /\ decodeTasks' = Append(DecodesWithout(old, v), c)
          /\ downloading' = DownloadsWithout(old, v)
          /\ remote' = remote /\ c \notin Created /\ c \notin remote'
      BY <1>2, <2>2 DEF CreatesDecoded
    <3>2. NamesMove(old, c, gone)
      <4>1. \A j \in Keys : imageLoadingByKeys'[j] = IF j = k THEN c ELSE KeysWithout(old, v)[j]
        BY <1>3, <3>1
      <4>2. QED
        BY <1>2, <1>4, <1>5, <1>7, <3>1, <4>1 DEF NamesMove, Leaves
    <3>3. EndsMove(old, c, gone)
      <4>1. ToSet(decodeTasks') = ToSet(DecodesWithout(old, v)) \cup {c}
        <5>1. DecodesWithout(old, v) \in Seq(Loads)
          BY <1>2, <1>3, SeqOfMore
        <5>2. QED
          BY <3>1, <5>1, ToSetOfAppend
      <4>2. /\ \A x : Decodes(x) => Decodes(x)' \/ (gone /\ x = old)
            /\ \A x : Decodes(x)' => Decodes(x) \/ x = c
            /\ Decodes(c)'
        BY <1>4, <1>5, <1>6, <4>1 DEF Decodes, Leaves
      <4>3. \A u \in Urls : FileDue(u) => FileDue(u)' \/ imageLoadingByUrl'[u] = 0
        BY <1>4, <1>5, <1>6, <3>1 DEF Leaves
      <4>4. QED
        BY <1>4, <1>5, <1>7, <3>1, <4>2, <4>3 DEF EndsMove, Leaves
    <3>4. QED
      BY <3>2, <3>3
  <2>3. CASE CreatesRemote(c, k, old, v)
    <3>1. /\ imageLoadingByUrl' = [UrlsWithout(old, v) EXCEPT ![UrlOf[k]] = c]
          /\ imageLoadingByKeys' = KeysWithout(old, v)
          /\ decodeTasks' = DecodesWithout(old, v)
          /\ downloading' = DownloadsWithout(old, v) \cup {UrlOf[k]}
          /\ c \notin Created /\ c \in remote' /\ imageLoadingByUrl[UrlOf[k]] = 0
          /\ key'[c] = k
      BY <1>2, <2>3 DEF CreatesRemote
    <3>2. \A u \in Urls : imageLoadingByUrl'[u] = IF u = UrlOf[k] THEN c
                                                  ELSE UrlsWithout(old, v)[u]
      BY <1>3, <3>1
    <3>3. NamesMove(old, c, gone)
      BY <1>2, <1>4, <1>5, <1>7, <3>1, <3>2 DEF NamesMove, Leaves
    <3>4. EndsMove(old, c, gone)
      <4>1. /\ \A x : Decodes(x) => Decodes(x)' \/ (gone /\ x = old)
            /\ \A x : Decodes(x)' => Decodes(x)
        BY <1>4, <1>5, <1>6, <3>1 DEF Decodes, Leaves
      <4>2. \A u \in Urls : FileDue(u) => FileDue(u)' \/ imageLoadingByUrl'[u] = 0
        BY <1>4, <1>5, <1>6, <3>1, <3>2 DEF Leaves
      <4>3. \A u \in Urls : u = UrlOf[key'[c]] => FileDue(u)'
        BY <1>6, <3>1
      <4>4. QED
        BY <1>4, <1>5, <3>1, <4>1, <4>2, <4>3 DEF EndsMove, Leaves
    <3>5. QED
      BY <3>3, <3>4
  <2>4. QED
    BY <1>7, <2>1, <2>2, <2>3
<1>11. QED
  BY <1>4, <1>8, <1>9, <1>10, MovesKeepLoading

LEMMA FileForNobodyKeeps ==
    ASSUME Base, Base', Loading, NEW u \in Urls, FileForNobody(u)
    PROVE  Loading'
<1>1. PICK old : old = imageLoadingByUrl[u]
  OBVIOUS
<1> DEFINE gone == old # 0
<1>2. /\ imageLoadingByUrl \in [Urls -> Created \cup {0}]
      /\ imageLoadingByKeys \in [Keys -> Created \cup {0}]
      /\ imageLoadingByTag \in [Views -> Created \cup {0}]
      /\ receivers \in [Loads -> SUBSET Views]
      /\ 0 \notin Loads /\ Created \subseteq Loads /\ old \in Created \cup {0}
  BY <1>1, LoadsAreNumbers DEF Base, Typed, MapsTyped, LoadsTyped
<1>3. /\ loaderTasks # <<>> /\ loaderTasks' = Tail(loaderTasks)
      /\ Head(loaderTasks).kind = "file" /\ Head(loaderTasks).url = u
      /\ old # 0 => receivers[old] = {}
      /\ imageLoadingByUrl' = [imageLoadingByUrl EXCEPT ![u] = 0]
      /\ UNCHANGED <<imageLoadingByKeys, imageLoadingByTag, key, remote, receivers, uiTasks,
                     decodeTasks, decoding, isCancelled, downloading>>
  BY <1>1 DEF FileForNobody, images, decoder, files
<1>4. Moves({}, old, 0, gone)
  BY <1>1, <1>2, <1>3 DEF Moves
<1>5. LoadsKept(0)
  BY <1>2, <1>3, SameLoads DEF LoadsKept
<1>6. NamesMove(old, 0, gone)
  <2>1. \A x \in Urls : imageLoadingByUrl[x] = old /\ old # 0 <=> x = u /\ old # 0
    BY <1>1 DEF Loading, NamesAreOwn
  <2>2. old # 0 => \A k \in Keys : imageLoadingByKeys[k] # old
    BY <1>1 DEF Loading, NamesAreOwn
  <2>3. QED
    BY <1>1, <1>2, <1>3, <2>1, <2>2 DEF NamesMove, Started
<1>7. EndsMove(old, 0, gone)
  <2>1. \A x : Decodes(x) <=> Decodes(x)'
    BY <1>3, EndsAfterTask DEF Decodes
  <2>2. \A x \in Urls : FileDue(x) => FileDue(x)' \/ imageLoadingByUrl'[x] = 0
    BY <1>2, <1>3, EndsAfterTask
  <2>3. QED
    BY <1>2, <1>3, <2>1, <2>2 DEF EndsMove, Started
<1>8. QED
  BY <1>4, <1>5, <1>6, <1>7, MovesKeepLoading

LEMMA FileForViewsKeeps ==
    ASSUME Base, Base', KeysAreOwn, Loading, NEW u \in Urls, NEW c \in Created,
           NEW k \in Keys, NEW to \in Loads, FileForViews(u, c, k, to)
    PROVE  Loading'
<1>1. /\ imageLoadingByUrl \in [Urls -> Created \cup {0}]
      /\ imageLoadingByKeys \in [Keys -> Created \cup {0}]
      /\ receivers \in [Loads -> SUBSET Views]
      /\ key \in [Loads -> Keys \cup {None}] /\ remote \subseteq Created
      /\ 0 \notin Loads /\ Created \subseteq Loads /\ decodeTasks \in Seq(Created)
  BY LoadsAreNumbers DEF Base, Typed, MapsTyped, LoadsTyped, DecoderTyped
<1>2. /\ loaderTasks # <<>> /\ loaderTasks' = Tail(loaderTasks)
      /\ Head(loaderTasks).kind = "file" /\ Head(loaderTasks).url = u
      /\ c = imageLoadingByUrl[u] /\ k = key[c]
      /\ \/ to = imageLoadingByKeys[k] /\ to \in Created /\ decodeTasks' = decodeTasks
         \/ to \notin Created /\ decodeTasks' = Append(decodeTasks, to)
      /\ imageLoadingByUrl' = [imageLoadingByUrl EXCEPT ![u] = 0]
      /\ imageLoadingByKeys' = [imageLoadingByKeys EXCEPT ![k] = to]
      /\ imageLoadingByTag' = [v \in Views |->
              IF v \in receivers[c] THEN to ELSE imageLoadingByTag[v]]
      /\ receivers' = [receivers EXCEPT ![to] = @ \cup receivers[c]]
      /\ key' = [key EXCEPT ![to] = k]
      /\ UNCHANGED <<remote, uiTasks, decoding, isCancelled, downloading>>
  BY DEF FileForViews, files
<1>3. /\ c \in remote /\ UrlOf[key[c]] = u /\ Live(c) /\ c \notin isCancelled
      /\ to \notin remote /\ to # c
  BY <1>1, <1>2 DEF Loading, NamesAreOwn, Live, CancelledAreLeft
<1>4. Moves(receivers[c], c, to, TRUE)
  <2>1. \A w \in receivers[c] : imageLoadingByTag[w] = c
    BY <1>1, <1>3 DEF Loading, TagsAreReceivers
  <2>2. \A x \in Loads : x # c =>
            receivers'[x] = receivers[x] \cup IF x = to THEN receivers[c] ELSE {}
    BY <1>1, <1>2
  <2>3. receivers[c] \subseteq Views
    BY <1>1
  <2>4. \/ receivers'[c] = receivers[c] \ receivers[c]
        \/ c \in remote /\ TRUE /\ c \notin isCancelled'
    BY <1>2, <1>3
  <2>5. PICK R : R = receivers[c]
    OBVIOUS
  <2>6. Moves(R, c, to, TRUE)
    BY <1>1, <1>2, <1>3, <2>1, <2>2, <2>3, <2>4, <2>5 DEF Moves
  <2>7. QED
    BY <2>5, <2>6
<1>5. LoadsKept(to)
  <2>1. Created' = Created \cup {to}
    BY <1>2, CreatedGrows DEF Base
  <2>2. to \in Created => key[to] = k /\ imageLoadingByKeys[k] = to
    BY <1>1, <1>2 DEF KeysAreOwn
  <2>3. \A x \in Created : key'[x] = key[x]
    BY <1>1, <1>2, <2>2
  <2>4. QED
    BY <1>1, <1>2, <2>1, <2>2, <2>3 DEF LoadsKept
<1>6. NamesMove(c, to, TRUE)
  <2>1. \A x \in Urls : imageLoadingByUrl'[x] = IF imageLoadingByUrl[x] = c THEN 0
                                                ELSE imageLoadingByUrl[x]
    BY <1>1, <1>2, <1>3 DEF Loading, NamesAreOwn
  <2>2. \A j \in Keys : imageLoadingByKeys'[j] \in {imageLoadingByKeys[j], to}
    BY <1>1, <1>2
  <2>3. \A j \in Keys : imageLoadingByKeys[j] # c
    BY <1>3 DEF Loading, NamesAreOwn
  <2>4. QED
    BY <1>1, <1>2, <1>3, <2>1, <2>2, <2>3 DEF NamesMove
<1>7. EndsMove(c, to, TRUE)
  <2>1. \/ to \in Created /\ ToSet(decodeTasks') = ToSet(decodeTasks)
        \/ to \notin Created /\ ToSet(decodeTasks') = ToSet(decodeTasks) \cup {to}
    <3>1. decodeTasks \in Seq(Loads)
      BY <1>1, SeqOfMore
    <3>2. ToSet(Append(decodeTasks, to)) = ToSet(decodeTasks) \cup {to}
      BY <3>1, ToSetOfAppend
    <3>3. QED
      BY <1>2, <3>2
  <2>2. \A x : Ending(x)' <=> Ending(x)
    BY <1>2, EndsAfterTask
  <2>3. /\ \A x : Decodes(x) => Decodes(x)'
        /\ \A x : Decodes(x)' => Decodes(x) \/ (x = to /\ to \notin Created)
        /\ to \notin Created => Decodes(to)'
    BY <2>1, <2>2 DEF Decodes
  <2>4. \A x \in Urls : FileDue(x) => FileDue(x)' \/ imageLoadingByUrl'[x] = 0
    BY <1>1, <1>2, EndsAfterTask
  <2>5. QED
    BY <1>2, <1>3, <2>3, <2>4 DEF EndsMove, Started
<1>8. QED
  BY <1>4, <1>5, <1>6, <1>7, MovesKeepLoading

LEMMA SetImageAndClearKeeps ==
    ASSUME Base, Base', KeysAreOwn, Loading, NEW c \in Created, NEW b \in Created \cup {0},
           SetImageAndClear(c, b), loaderTasks # <<>>, Live(c),
           \/ Head(loaderTasks).kind = "set" /\ Head(loaderTasks).load = c
           \/ /\ Head(loaderTasks).kind = "file"
              /\ \A u \in Urls : Head(loaderTasks).url = u => imageLoadingByUrl[u] = c
    PROVE  Loading'
<1>1. /\ imageLoadingByUrl \in [Urls -> Created \cup {0}]
      /\ imageLoadingByKeys \in [Keys -> Created \cup {0}]
      /\ receivers \in [Loads -> SUBSET Views] /\ 0 \notin Loads /\ Created \subseteq Loads
      /\ key[c] \in Keys /\ UrlOf[key[c]] \in Urls /\ c # 0
      /\ uiTasks \in Seq(UiTaskOf(Created))
      /\ loaderTasks \in Seq(LoaderTaskOf(Created))
  BY LoadsAreNumbers, CreatedHaveKeys DEF Base, Typed, MapsTyped, LoadsTyped, TasksTyped
<1>2. /\ imageLoadingByTag' = [v \in Views |->
              IF v \in receivers[c] THEN 0 ELSE imageLoadingByTag[v]]
      /\ receivers' = [receivers EXCEPT ![c] = {}]
      /\ imageLoadingByUrl' = IF c \in remote
                              THEN [imageLoadingByUrl EXCEPT ![UrlOf[key[c]]] = 0]
                              ELSE imageLoadingByUrl
      /\ imageLoadingByKeys' = [imageLoadingByKeys EXCEPT ![key[c]] = 0]
      /\ loaderTasks' = Tail(loaderTasks)
      /\ UNCHANGED <<key, remote, decodeTasks, decoding, isCancelled, downloading>>
  BY DEF SetImageAndClear, decoder, files
<1>3. Moves(receivers[c], c, 0, TRUE)
  <2>1. \A w \in receivers[c] : imageLoadingByTag[w] = c
    BY <1>1 DEF Loading, TagsAreReceivers
  <2>2. \A x \in Loads : receivers'[x] = IF x = c THEN {} ELSE receivers[x]
    BY <1>1, <1>2
  <2>3. receivers[c] \subseteq Views
    BY <1>1
  <2>4. QED
    BY <1>1, <1>2, <2>1, <2>2, <2>3 DEF Moves
<1>4. LoadsKept(0)
  BY <1>1, <1>2, SameLoads DEF LoadsKept
<1>5. \A x \in Urls : imageLoadingByUrl'[x] = IF imageLoadingByUrl[x] = c THEN 0
                                              ELSE imageLoadingByUrl[x]
  BY <1>1, <1>2 DEF Loading, NamesAreOwn, Live
<1>6. NamesMove(c, 0, TRUE)
  <2>1. \A j \in Keys : imageLoadingByKeys'[j] = IF j = key[c] THEN 0 ELSE imageLoadingByKeys[j]
    BY <1>1, <1>2
  <2>2. QED
    BY <1>1, <1>5, <2>1 DEF NamesMove, Started, KeysAreOwn
<1>7. EndsMove(c, 0, TRUE)
  <2>1. ToSet(loaderTasks) = {Head(loaderTasks)} \cup ToSet(loaderTasks')
    BY <1>1, <1>2, TasksAfterTail
  <2>2. \/ uiTasks' = uiTasks
        \/ \E t : t.kind = "show" /\ ToSet(uiTasks') = ToSet(uiTasks) \cup {t}
    <3>1. CASE b = 0
      BY <3>1 DEF SetImageAndClear
    <3>2. CASE b # 0
      <4>1. PICK t : t = ShowTask(key[c], b, receivers[c])
        OBVIOUS
      <4>2. t.kind = "show" /\ t \in UiTaskOf(Created)
        BY <1>1, <3>2, <4>1 DEF ShowTask, UiTaskOf
      <4>3. uiTasks' = Append(uiTasks, t)
        BY <3>2, <4>1 DEF SetImageAndClear
      <4>4. ToSet(uiTasks') = ToSet(uiTasks) \cup {t}
        BY <1>1, <4>2, <4>3, TasksAfterAppend
      <4>5. QED
        BY <4>2, <4>4
    <3>3. QED
      BY <3>1, <3>2
  <2>3. \A t : t \in ToSet(uiTasks') /\ t \notin ToSet(uiTasks) => t.kind = "show"
    BY <2>2
  <2>4. ToSet(uiTasks) \subseteq ToSet(uiTasks')
    BY <2>2
  <2>5. /\ \A x : Decodes(x) => Decodes(x)' \/ x = c
        /\ \A x : Decodes(x)' => Decodes(x)
    BY <1>2, <2>1, <2>3, <2>4 DEF Decodes, Ending
  <2>6. ASSUME NEW x \in Urls, FileDue(x)
        PROVE  FileDue(x)' \/ imageLoadingByUrl'[x] = 0
    <3>1. \/ FileDue(x)'
          \/ Head(loaderTasks).kind = "file" /\ Head(loaderTasks).url = x
      BY <1>2, <2>1, <2>4, <2>6 DEF FileDue
    <3>2. QED
      BY <1>5, <3>1
  <2>7. QED
    BY <1>1, <1>2, <2>5, <2>6 DEF EndsMove, Started
<1>8. QED
  BY <1>3, <1>4, <1>6, <1>7, MovesKeepLoading

LEMMA LoadingOfATask ==
    ASSUME Base, Base', DecodedOnce, KeysAreOwn, Loading, ImageLoadQueue
    PROVE  Loading'
<1>1. CASE CancelLoading
  BY <1>1, CancelLoadingKeeps
<1>2. CASE AlreadyAdded
  <2>1. /\ loaderTasks # <<>> /\ loaderTasks' = Tail(loaderTasks)
        /\ Head(loaderTasks).kind = "load"
        /\ UNCHANGED <<maps, images, uiTasks, decoder, files>>
    BY <1>2 DEF AlreadyAdded, FirstTask
  <2>2. /\ \A x : Ending(x)' <=> Ending(x)
        /\ \A u : FileDue(u) => FileDue(u)' \/ u \in downloading
        /\ \A u : u \in downloading => FileDue(u)'
    BY <2>1, EndsAfterTask DEF decoder, files
  <2>3. QED
    BY <2>1, <2>2, TasksKeepLoading DEF Decodes, decoder
<1>3. CASE JoinOrCreate
  BY <1>3, JoinOrCreateDoes, JoinOrCreateKeeps
<1>4. CASE FileDidLoaded
  BY <1>4, FileDidLoadedDoes, FileForNobodyKeeps, FileForViewsKeeps
<1>5. CASE FileDidFailedLoad
  <2>1. PICK u \in Urls : u = Head(loaderTasks).url
    BY <1>5, FirstTaskTaken DEF FileDidFailedLoad, FirstTask
  <2>2. PICK c : c = imageLoadingByUrl[u]
    OBVIOUS
  <2>3. loaderTasks # <<>> /\ Head(loaderTasks).kind = "file"
    BY <1>5 DEF FileDidFailedLoad, FirstTask
  <2>4. CASE c # 0
    <3>1. SetImageAndClear(c, 0) /\ c \in Created /\ Live(c)
      BY <1>5, <2>1, <2>2, <2>4 DEF FileDidFailedLoad, Base, Typed, MapsTyped, Loading,
                                    NamesAreOwn, Live
    <3>2. QED
      BY <2>1, <2>2, <2>3, <3>1, SetImageAndClearKeeps
  <2>5. CASE c = 0
    <3>1. /\ loaderTasks' = Tail(loaderTasks)
          /\ UNCHANGED <<maps, images, uiTasks, decoder, files, excused>> /\ LoaderFrame
      BY <1>5, <2>1, <2>2, <2>5 DEF FileDidFailedLoad
    <3>2. imageLoadingByUrl' = [imageLoadingByUrl EXCEPT ![u] = 0]
      BY <2>2, <2>5, <3>1 DEF Base, Typed, MapsTyped, maps
    <3>3. FileForNobody(u)
      BY <2>1, <2>2, <2>3, <2>5, <3>1, <3>2
      DEF FileForNobody, LoaderFrame, maps, history
    <3>4. QED
      BY <3>3, FileForNobodyKeeps
  <2>6. QED
    BY <2>4, <2>5
<1>6. CASE SetDecoded
  <2>1. PICK c \in Created, b \in Created \cup {0} :
            c = Head(loaderTasks).load /\ b = Head(loaderTasks).bitmap
    BY <1>6, FirstTaskTaken DEF SetDecoded, FirstTask
  <2>2. /\ SetImageAndClear(c, b) /\ loaderTasks # <<>>
        /\ Head(loaderTasks).kind = "set" /\ Head(loaderTasks).load = c
    BY <1>6, <2>1 DEF SetDecoded, FirstTask
  <2>3. Head(loaderTasks) \in ToSet(loaderTasks)
    BY <2>2, TasksAfterTail DEF Base, Typed, TasksTyped
  <2>4. Live(c)
    BY <2>2, <2>3 DEF Loading, DecodedAreLocal, Decodes, Ending, Live
  <2>5. QED
    BY <2>2, <2>4, SetImageAndClearKeeps
<1>7. QED
  BY <1>1, <1>2, <1>3, <1>4, <1>5, <1>6 DEF ImageLoadQueue

-----------------------------------------------------------------------------
(* The other tasks and the loads.                                          *)

LEMMA DecodeKeepsLoading ==
    ASSUME Base, Loading, Decode
    PROVE  Loading'
<1>1. decodeTasks \in Seq(Created) /\ 0 \notin Created
  BY LoadsAreNumbers DEF Base, Typed, DecoderTyped
<1>2. /\ decoding = 0 /\ decodeTasks # <<>> /\ decodeTasks' = Tail(decodeTasks)
      /\ decoding' = IF Head(decodeTasks) \in isCancelled THEN 0 ELSE Head(decodeTasks)
      /\ UNCHANGED <<maps, images, isCancelled, uiTasks, loaderTasks, files>>
  BY DEF Decode
<1>3. ToSet(decodeTasks) = {Head(decodeTasks)} \cup ToSet(Tail(decodeTasks))
  BY <1>1, <1>2, ToSetOfTail
<1>4. \A c \in Created : Decodes(c)' => Decodes(c)
  BY <1>1, <1>2, <1>3 DEF Decodes, Ending
<1>5. \A c \in Created : Decodes(c) => Decodes(c)' \/ c \in isCancelled
  BY <1>1, <1>2, <1>3 DEF Decodes, Ending
<1>6. \A u \in Urls : FileDue(u) => FileDue(u)'
  BY <1>2 DEF FileDue, files
<1>7. QED
  BY <1>2, <1>4, <1>5, <1>6, TasksKeepLoading

LEMMA EndDecodeKeepsLoading ==
    ASSUME Base, Base', Loading, NEW ok \in BOOLEAN, EndDecode(ok)
    PROVE  Loading'
<1>1. PICK t : t = DecodedTask(decoding, IF ok THEN decoding ELSE 0)
  OBVIOUS
<1>2. /\ decoding # 0 /\ decoding' = 0 /\ uiTasks' = Append(uiTasks, t)
      /\ UNCHANGED <<maps, images, isCancelled, decodeTasks, loaderTasks, files>>
  BY <1>1 DEF EndDecode
<1>3. t \in UiTaskOf(Created) /\ t.kind = "decoded" /\ t.load = decoding
  BY <1>1, <1>2 DEF Base, Typed, DecoderTyped, UiTaskOf, DecodedTask
<1>4. ToSet(uiTasks') = ToSet(uiTasks) \cup {t} /\ 0 \notin Created
  BY <1>2, <1>3, TasksAfterAppend, LoadsAreNumbers DEF Base, Typed, TasksTyped
<1>5. \A c \in Created : Decodes(c)' <=> Decodes(c)
  BY <1>2, <1>3, <1>4 DEF Decodes, Ending
<1>6. \A u \in Urls : FileDue(u) => FileDue(u)'
  BY <1>2, <1>4 DEF FileDue, files
<1>7. QED
  BY <1>2, <1>5, <1>6, TasksKeepLoading

LEMMA EndDownloadKeepsLoading ==
    ASSUME Base, Loading, NEW u \in Urls, NEW ok \in BOOLEAN, EndDownload(u, ok)
    PROVE  Loading'
<1>1. PICK t : t = FileTask(u, ok)
  OBVIOUS
<1>2. /\ downloading' = downloading \ {u} /\ uiTasks' = Append(uiTasks, t)
      /\ UNCHANGED <<maps, images, decoder, loaderTasks>>
  BY <1>1 DEF EndDownload
<1>3. t \in UiTaskOf(Created) /\ t.kind = "file" /\ t.url = u
  BY <1>1 DEF UiTaskOf, FileTask
<1>4. ToSet(uiTasks') = ToSet(uiTasks) \cup {t}
  BY <1>2, <1>3, TasksAfterAppend DEF Base, Typed, TasksTyped
<1>5. \A c : Decodes(c)' <=> Decodes(c)
  BY <1>2, <1>3, <1>4 DEF Decodes, Ending, decoder
<1>6. \A x \in Urls : FileDue(x) => FileDue(x)'
  BY <1>2, <1>3, <1>4 DEF FileDue
<1>7. QED
  BY <1>2, <1>5, <1>6, TasksKeepLoading DEF decoder

\* The main thread's tasks: the end of a file or of a decoding is handed on.
LEMMA UiThreadKeepsLoading ==
    ASSUME Base, Loading, UiThread
    PROVE  Loading'
<1>1. /\ uiTasks # <<>> /\ uiTasks' = Tail(uiTasks)
      /\ UNCHANGED <<maps, images, decoder, files>>
  BY DEF UiThread, UiFileTask, Decoded, Show, FirstUi
<1>2. PICK h : h = Head(uiTasks)
  OBVIOUS
<1>3. h \in UiTaskOf(Created) /\ ToSet(uiTasks) = {h} \cup ToSet(uiTasks')
  BY <1>1, <1>2, FirstUiTaken, TasksAfterTail DEF Base, Typed, TasksTyped
<1>4. \/ h.kind = "show" /\ loaderTasks' = loaderTasks
      \/ \E t \in LoaderTaskOf(Created) :
             /\ loaderTasks' = Append(loaderTasks, t)
             /\ \/ h.kind = "file" /\ t = h
                \/ h.kind = "decoded" /\ t.kind = "set" /\ t.load = h.load
  <2>1. CASE Show
    BY <1>2, <2>1 DEF Show, FirstUi
  <2>2. CASE UiFileTask
    <3>1. h \in FileTasks /\ h.kind = "file"
      BY <1>1, <1>2, <2>2, FirstUiTaken DEF UiFileTask, FirstUi
    <3>2. h \in LoaderTaskOf(Created)
      BY <3>1 DEF FileTasks, LoaderTaskOf
    <3>3. QED
      BY <1>2, <2>2, <3>1, <3>2 DEF UiFileTask
  <2>3. CASE Decoded
    <3>1. PICK c \in Created, b \in Created \cup {0} : DecodedIs(c, b)
      BY <2>3, DecodedDoes
    <3>2. Cached(lru, key[c]) \in Created \cup {0}
      BY CachedIsThere DEF Base, Typed, CacheTyped
    <3>3. PICK a \in Created \cup {0} : loaderTasks' = Append(loaderTasks, SetTask(c, a))
      BY <3>1, <3>2 DEF DecodedIs
    <3>4. SetTask(c, a) \in LoaderTaskOf(Created)
      BY DEF SetTask, LoaderTaskOf
    <3>5. h.kind = "decoded" /\ h.load = c
      BY <1>2, <3>1 DEF DecodedIs
    <3>6. QED
      BY <3>3, <3>4, <3>5 DEF SetTask
  <2>4. QED
    BY <2>1, <2>2, <2>3 DEF UiThread
<1>5. \/ h.kind = "show" /\ ToSet(loaderTasks') = ToSet(loaderTasks)
      \/ \E t : /\ ToSet(loaderTasks') = ToSet(loaderTasks) \cup {t}
                /\ \/ h.kind = "file" /\ t = h
                   \/ h.kind = "decoded" /\ t.kind = "set" /\ t.load = h.load
  <2>1. loaderTasks \in Seq(LoaderTaskOf(Created))
    BY DEF Base, Typed, TasksTyped
  <2>2. \A t \in LoaderTaskOf(Created) :
            ToSet(Append(loaderTasks, t)) = ToSet(loaderTasks) \cup {t}
    BY <2>1, TasksAfterAppend
  <2>3. CASE h.kind = "show" /\ loaderTasks' = loaderTasks
    BY <2>3
  <2>4. ASSUME NEW t \in LoaderTaskOf(Created), loaderTasks' = Append(loaderTasks, t),
               \/ h.kind = "file" /\ t = h
               \/ h.kind = "decoded" /\ t.kind = "set" /\ t.load = h.load
        PROVE  ToSet(loaderTasks') = ToSet(loaderTasks) \cup {t}
    BY <2>2, <2>4
  <2>5. QED
    BY <1>4, <2>3, <2>4
<1>6. \A c : Decodes(c)' <=> Decodes(c)
  BY <1>1, <1>3, <1>5 DEF Decodes, Ending, decoder
<1>7. \A u : FileDue(u) => FileDue(u)'
  BY <1>1, <1>3, <1>5 DEF FileDue, files
<1>8. QED
  BY <1>1, <1>6, <1>7, TasksKeepLoading DEF decoder

-----------------------------------------------------------------------------
(* The views that wait.                                                    *)

\* The tasks of a view: it asks for a key, or for no image any more.
About(t, v) == t.kind \in {"load", "cancel"} /\ t.view = v

\* The last task of v asks for k,
LastAsks(v, k) ==
    \E i \in DOMAIN loaderTasks :
        /\ loaderTasks[i] = LoadTask(v, k)
        /\ \A j \in DOMAIN loaderTasks : About(loaderTasks[j], v) => j <= i

\* or v will be shown a bitmap of k,
WillBeShown(v, k) ==
    \E t \in ToSet(uiTasks) : t.kind = "show" /\ t.key = k /\ v \in t.views

\* or it has no task and is in a load of k.
IsIn(v, k) == imageLoadingByTag[v] # 0 /\ key[imageLoadingByTag[v]] = k

TakesPart(v, k) == (\A t \in ToSet(loaderTasks) : ~About(t, v)) /\ IsIn(v, k)

Waits(v) == currentKey[v] # None /\ currentImage[v] = 0 /\ v \notin excused

Served(v, k) == LastAsks(v, k) \/ WillBeShown(v, k) \/ TakesPart(v, k)

WaitersAreServed == \A v \in Views : Waits(v) => Served(v, currentKey[v])

\* What the queue says of a view when a task is put on it ...
LEMMA TaskPut ==
    ASSUME NEW S, loaderTasks \in Seq(S), NEW t \in S, loaderTasks' = Append(loaderTasks, t),
           NEW v, NEW k
    PROVE  /\ t = LoadTask(v, k) => LastAsks(v, k)'
           /\ ~About(t, v) /\ LastAsks(v, k) => LastAsks(v, k)'
           /\ ~About(t, v) /\ (\A x \in ToSet(loaderTasks) : ~About(x, v)) =>
                  \A x \in ToSet(loaderTasks') : ~About(x, v)
<1>1. /\ Len(loaderTasks) \in Nat /\ DOMAIN loaderTasks = 1..Len(loaderTasks)
      /\ DOMAIN loaderTasks' = 1..(Len(loaderTasks) + 1)
      /\ \A i \in 1..Len(loaderTasks) : loaderTasks'[i] = loaderTasks[i]
      /\ loaderTasks'[Len(loaderTasks) + 1] = t
  OBVIOUS
<1>2. \A i \in DOMAIN loaderTasks' : i \in DOMAIN loaderTasks \/ i = Len(loaderTasks) + 1
  BY <1>1
<1>3. \A i \in DOMAIN loaderTasks' : i <= Len(loaderTasks) + 1
  BY <1>1
<1>4. Len(loaderTasks) + 1 \in DOMAIN loaderTasks' /\ DOMAIN loaderTasks \subseteq DOMAIN loaderTasks'
  BY <1>1
<1>5. t = LoadTask(v, k) => LastAsks(v, k)'
  BY <1>1, <1>3, <1>4 DEF LastAsks
<1>6. ~About(t, v) /\ LastAsks(v, k) => LastAsks(v, k)'
  <2>1. SUFFICES ASSUME ~About(t, v), LastAsks(v, k) PROVE LastAsks(v, k)'
    OBVIOUS
  <2>2. PICK i \in DOMAIN loaderTasks :
            /\ loaderTasks[i] = LoadTask(v, k)
            /\ \A j \in DOMAIN loaderTasks : About(loaderTasks[j], v) => j <= i
    BY <2>1 DEF LastAsks
  <2>3. i \in DOMAIN loaderTasks' /\ loaderTasks'[i] = LoadTask(v, k)
    BY <1>1, <1>4, <2>2
  <2>4. ASSUME NEW j \in DOMAIN loaderTasks', About(loaderTasks'[j], v)
        PROVE  j <= i
    <3>1. j \in DOMAIN loaderTasks /\ loaderTasks'[j] = loaderTasks[j]
      BY <1>1, <1>2, <2>1, <2>4
    <3>2. QED
      BY <2>2, <2>4, <3>1
  <2>5. QED
    BY <2>3, <2>4 DEF LastAsks
<1>7. ToSet(loaderTasks') = ToSet(loaderTasks) \cup {t}
  BY ToSetOfAppend
<1>8. QED
  BY <1>5, <1>6, <1>7

\* ... and when its first task was done.
LEMMA TaskDone ==
    ASSUME NEW S, loaderTasks \in Seq(S), loaderTasks # <<>>,
           loaderTasks' = Tail(loaderTasks), NEW v, NEW k
    PROVE  /\ LastAsks(v, k) =>
                  \/ LastAsks(v, k)'
                  \/ /\ Head(loaderTasks) = LoadTask(v, k)
                     /\ \A x \in ToSet(loaderTasks') : ~About(x, v)
           /\ ToSet(loaderTasks') \subseteq ToSet(loaderTasks)
           /\ Head(loaderTasks) \in ToSet(loaderTasks)
<1>1. /\ Len(loaderTasks) \in Nat \ {0} /\ DOMAIN loaderTasks = 1..Len(loaderTasks)
      /\ DOMAIN loaderTasks' = 1..(Len(loaderTasks) - 1)
      /\ \A i \in DOMAIN loaderTasks' : loaderTasks'[i] = loaderTasks[i + 1]
      /\ Head(loaderTasks) = loaderTasks[1]
  <2>1. Tail(loaderTasks) \in Seq(S) /\ Len(Tail(loaderTasks)) = Len(loaderTasks) - 1
    BY HeadTailProperties, EmptySeq
  <2>2. QED
    BY <2>1, HeadTailProperties, EmptySeq
<1>2. ToSet(loaderTasks) = {Head(loaderTasks)} \cup ToSet(loaderTasks')
  BY TasksAfterTail
<1>3. ASSUME LastAsks(v, k)
      PROVE  \/ LastAsks(v, k)'
             \/ /\ Head(loaderTasks) = LoadTask(v, k)
                /\ \A x \in ToSet(loaderTasks') : ~About(x, v)
  <2>1. PICK i \in DOMAIN loaderTasks :
            /\ loaderTasks[i] = LoadTask(v, k)
            /\ \A j \in DOMAIN loaderTasks : About(loaderTasks[j], v) => j <= i
    BY <1>3 DEF LastAsks
  <2>2. CASE i = 1
    <3>1. \A j \in DOMAIN loaderTasks' : ~About(loaderTasks'[j], v)
      <4>1. \A j \in DOMAIN loaderTasks' : j + 1 \in DOMAIN loaderTasks /\ ~(j + 1 <= 1)
        BY <1>1
      <4>2. QED
        BY <1>1, <2>1, <2>2, <4>1
    <3>2. \A x \in ToSet(loaderTasks') : ~About(x, v)
      BY <3>1 DEF ToSet
    <3>3. QED
      BY <1>1, <2>1, <2>2, <3>2
  <2>3. CASE i # 1
    <3>1. PICK h : h = i - 1
      OBVIOUS
    <3>2. h \in DOMAIN loaderTasks' /\ i = h + 1 /\ h \in Nat
      BY <1>1, <2>3, <3>1
    <3>3. \A j \in DOMAIN loaderTasks' : j + 1 \in DOMAIN loaderTasks /\ (j + 1 <= i => j <= h)
      BY <1>1, <3>2
    <3>4. \A j \in DOMAIN loaderTasks' : About(loaderTasks'[j], v) => j <= h
      BY <1>1, <2>1, <3>3
    <3>5. LastAsks(v, k)'
      BY <1>1, <2>1, <3>2, <3>4 DEF LastAsks
    <3>6. QED
      BY <3>5
  <2>4. QED
    BY <2>2, <2>3
<1>4. QED
  BY <1>2, <1>3

\* An act of the user on v.  If v waits for an image now, it has just asked.
Acts(v) ==
    /\ UNCHANGED <<maps, images, uiTasks, decoder, files>>
    /\ \/ loaderTasks' = loaderTasks
       \/ \E t \in LoaderTaskOf(Created) :
              About(t, v) /\ loaderTasks' = Append(loaderTasks, t)
    /\ \A w \in Views \ {v} :
           /\ currentKey'[w] = currentKey[w] /\ currentImage'[w] = currentImage[w]
           /\ w \in excused' <=> w \in excused
    /\ Waits(v)' => loaderTasks' = Append(loaderTasks, LoadTask(v, currentKey'[v]))

LEMMA LoadAsks ==
    ASSUME Base, NEW v \in Views, NEW k \in Keys, NEW s \in Seq(Created), NEW counts,
           Load(v, k, s, counts)
    PROVE  /\ \A w \in Views \ {v} : /\ currentKey'[w] = currentKey[w]
                                     /\ currentImage'[w] = currentImage[w]
           /\ currentKey'[v] = k
           /\ \E t \in LoaderTaskOf(Created) :
                  About(t, v) /\ loaderTasks' = Append(loaderTasks, t)
           /\ currentImage'[v] # 0 \/ loaderTasks' = Append(loaderTasks, LoadTask(v, k))
<1>1. /\ currentKey \in [Views -> Keys \cup {None}]
      /\ currentImage \in [Views -> Created \cup {0}]
  BY DEF Base, Typed, ViewsTyped
<1>2. /\ currentKey' = [currentKey EXCEPT ![v] = k]
      /\ currentImage' = [currentImage EXCEPT ![v] = Cached(s, k)]
  BY DEF Load
<1>3. \/ Cached(s, k) # 0 /\ loaderTasks' = Append(loaderTasks, CancelTask(v))
      \/ Cached(s, k) = 0 /\ loaderTasks' = Append(loaderTasks, LoadTask(v, k))
  BY DEF Load
<1>4. /\ CancelTask(v) \in LoaderTaskOf(Created) /\ About(CancelTask(v), v)
      /\ LoadTask(v, k) \in LoaderTaskOf(Created) /\ About(LoadTask(v, k), v)
  BY DEF CancelTask, LoadTask, LoaderTaskOf, About
<1>5. QED
  BY <1>1, <1>2, <1>3, <1>4

LEMMA UsersAct ==
    ASSUME Base, Users
    PROVE  (\E v \in Views : Acts(v)) \/ (ClearMemory /\ UNCHANGED <<currentKey, currentImage>>)
<1>1. /\ currentKey \in [Views -> Keys \cup {None}]
      /\ currentImage \in [Views -> Created \cup {0}]
      /\ canceledLoading \in [Views -> BOOLEAN] /\ lru \in Seq(Created) /\ None \notin Keys
  BY ImageAssumption DEF Base, Typed, ViewsTyped, CacheTyped
<1>2. \A v \in Views : /\ CancelTask(v) \in LoaderTaskOf(Created) /\ About(CancelTask(v), v)
                       /\ \A k \in Keys : /\ LoadTask(v, k) \in LoaderTaskOf(Created)
                                          /\ About(LoadTask(v, k), v)
  BY DEF CancelTask, LoadTask, LoaderTaskOf, About
<1>3. ASSUME NEW v \in Views, NEW k \in Keys, SetImage(v, k)
      PROVE  Acts(v)
  <2>1. PICK s, counts : s \in Seq(Created) /\ Load(v, k, s, counts)
    BY <1>1, <1>3, TouchTyped DEF SetImage
  <2>2. UNCHANGED <<maps, images, uiTasks, decoder, files>> /\ excused' = excused \ {v}
    BY <1>3 DEF SetImage
  <2>3. QED
    BY <2>1, <2>2, LoadAsks DEF Acts, Waits
<1>4. ASSUME NEW v \in Views, SetImageAgain(v)
      PROVE  Acts(v)
  <2>1. PICK k \in Keys : k = currentKey[v]
    BY <1>1, <1>4 DEF SetImageAgain
  <2>2. Load(v, k, lru, bitmapUseCounts)
    BY <1>4, <2>1 DEF SetImageAgain
  <2>3. UNCHANGED <<maps, images, uiTasks, decoder, files>> /\ excused' = excused \ {v}
    BY <1>4 DEF SetImageAgain
  <2>4. QED
    BY <1>1, <2>2, <2>3, LoadAsks DEF Acts, Waits
<1>5. ASSUME NEW v \in Views, NEW detached \in BOOLEAN, ClearImage(v, detached)
      PROVE  Acts(v)
  <2>1. /\ currentKey' = [currentKey EXCEPT ![v] = None]
        /\ currentImage' = [currentImage EXCEPT ![v] = 0]
        /\ loaderTasks' = loaderTasks \/ loaderTasks' = Append(loaderTasks, CancelTask(v))
        /\ UNCHANGED <<maps, images, uiTasks, decoder, files, excused>>
    BY <1>5 DEF ClearImage, history
  <2>2. QED
    BY <1>1, <1>2, <2>1 DEF Acts, Waits
<1>6. ASSUME NEW v \in Views, CancelLoadImage(v)
      PROVE  Acts(v)
  BY <1>1, <1>2, <1>6 DEF CancelLoadImage, Acts, Waits
<1>7. ASSUME NEW v \in Views, DrawError(v)
      PROVE  Acts(v)
  <2>1. currentKey[v] \in Keys
    BY <1>1, <1>7 DEF DrawError, Holds
  <2>2. /\ currentImage' = [currentImage EXCEPT ![v] = 0] /\ currentKey' = currentKey
        /\ loaderTasks' = Append(loaderTasks, LoadTask(v, currentKey[v]))
        /\ excused' = excused \ {v}
        /\ UNCHANGED <<maps, images, uiTasks, decoder, files>>
    BY <1>7 DEF DrawError
  <2>3. QED
    BY <1>1, <1>2, <2>1, <2>2 DEF Acts, Waits
<1>8. QED
  BY <1>3, <1>4, <1>5, <1>6, <1>7 DEF Users, ClearMemory, views

LEMMA ActsKeepLoading ==
    ASSUME Base, Loading, NEW v \in Views, Acts(v)
    PROVE  Loading'
<1>1. loaderTasks \in Seq(LoaderTaskOf(Created))
  BY DEF Base, Typed, TasksTyped
<1>2. \/ loaderTasks' = loaderTasks
      \/ \E t : About(t, v) /\ ToSet(loaderTasks') = ToSet(loaderTasks) \cup {t}
  <2>1. CASE loaderTasks' = loaderTasks
    BY <2>1
  <2>2. ASSUME NEW t \in LoaderTaskOf(Created), About(t, v),
               loaderTasks' = Append(loaderTasks, t)
        PROVE  About(t, v) /\ ToSet(loaderTasks') = ToSet(loaderTasks) \cup {t}
    BY <1>1, <2>2, TasksAfterAppend
  <2>3. QED
    BY <2>1, <2>2 DEF Acts
<1>3. \A c : Decodes(c)' <=> Decodes(c)
  <2>1. UNCHANGED <<decodeTasks, decoding, uiTasks>>
    BY DEF Acts, decoder
  <2>2. ASSUME NEW t, t.kind = "set"
        PROVE  t \in ToSet(loaderTasks') <=> t \in ToSet(loaderTasks)
    BY <1>2, <2>2 DEF About
  <2>3. QED
    BY <2>1, <2>2 DEF Decodes, Ending
<1>4. \A u : FileDue(u) => FileDue(u)'
  BY <1>2 DEF Acts, FileDue, files
<1>5. QED
  BY <1>3, <1>4, TasksKeepLoading DEF Acts, decoder

LEMMA ActsServe ==
    ASSUME Base, WaitersAreServed, NEW v \in Views, Acts(v)
    PROVE  WaitersAreServed'
<1>1. loaderTasks \in Seq(LoaderTaskOf(Created))
  BY DEF Base, Typed, TasksTyped
<1>2. ASSUME NEW w \in Views, Waits(w)'
      PROVE  Served(w, currentKey[w])'
  <2>1. PICK k : k = currentKey'[w]
    OBVIOUS
  <2>2. CASE w = v
    <3>1. PICK t \in LoaderTaskOf(Created) :
              loaderTasks' = Append(loaderTasks, t) /\ t = LoadTask(v, k)
      <4>1. loaderTasks' = Append(loaderTasks, LoadTask(v, k))
        BY <1>2, <2>1, <2>2 DEF Acts
      <4>2. PICK t \in LoaderTaskOf(Created) : loaderTasks' = Append(loaderTasks, t)
        <5>1. loaderTasks' # loaderTasks
          BY <1>1, <4>1
        <5>2. QED
          BY <5>1 DEF Acts
      <4>3. t = LoadTask(v, k)
        <5>1. loaderTasks'[Len(loaderTasks) + 1] = t
          BY <1>1, <4>2
        <5>2. loaderTasks'[Len(loaderTasks) + 1] = LoadTask(v, k)
          BY <1>1, <4>1
        <5>3. QED
          BY <5>1, <5>2
      <4>4. QED
        BY <4>2, <4>3
    <3>2. LastAsks(v, k)'
      BY <1>1, <3>1, TaskPut
    <3>3. QED
      BY <2>1, <2>2, <3>2 DEF Served
  <2>3. CASE w # v
    <3>1. Waits(w) /\ k = currentKey[w]
      BY <1>2, <2>1, <2>3 DEF Acts, Waits
    <3>2. Served(w, k)
      BY <3>1 DEF WaitersAreServed
    <3>3. WillBeShown(w, k) => WillBeShown(w, k)'
      BY DEF Acts, WillBeShown
    <3>4. IsIn(w, k) => IsIn(w, k)'
      BY DEF Acts, IsIn, maps, images
    <3>5. /\ LastAsks(w, k) => LastAsks(w, k)'
          /\ TakesPart(w, k) => TakesPart(w, k)'
      <4>1. CASE loaderTasks' = loaderTasks
        BY <3>4, <4>1 DEF LastAsks, TakesPart
      <4>2. ASSUME NEW t \in LoaderTaskOf(Created), About(t, v),
                   loaderTasks' = Append(loaderTasks, t)
            PROVE  /\ LastAsks(w, k) => LastAsks(w, k)'
                   /\ TakesPart(w, k) => TakesPart(w, k)'
        <5>1. ~About(t, w)
          BY <2>3, <4>2 DEF About
        <5>2. QED
          BY <1>1, <3>4, <4>2, <5>1, TaskPut DEF TakesPart
      <4>3. QED
        BY <4>1, <4>2 DEF Acts
    <3>6. Served(w, k)'
      BY <3>2, <3>3, <3>5 DEF Served
    <3>7. QED
      BY <2>1, <3>6 DEF Served
  <2>4. QED
    BY <2>2, <2>3
<1>3. QED
  BY <1>2 DEF WaitersAreServed

-----------------------------------------------------------------------------
(* The tasks of imageLoadQueue and the views that wait.                    *)

\* What such a task has to show: if it is the one that asks for v, v is in a
\* load then, and if v was in one, it is in another or gets the bitmap.
TaskServes ==
    /\ loaderTasks # <<>> /\ loaderTasks' = Tail(loaderTasks)
    /\ UNCHANGED <<currentKey, currentImage>> /\ excused \subseteq excused'
    /\ ToSet(uiTasks) \subseteq ToSet(uiTasks')
    /\ \A v \in Views, k \in Keys :
           Waits(v)' /\ k = currentKey[v] /\ Head(loaderTasks) = LoadTask(v, k) => IsIn(v, k)'
    /\ \A v \in Views, k \in Keys :
           Waits(v)' /\ k = currentKey[v] /\ ~About(Head(loaderTasks), v) /\ IsIn(v, k) =>
               IsIn(v, k)' \/ WillBeShown(v, k)'

LEMMA TasksServe ==
    ASSUME Base, WaitersAreServed, TaskServes
    PROVE  WaitersAreServed'
<1>1. loaderTasks \in Seq(LoaderTaskOf(Created)) /\ currentKey \in [Views -> Keys \cup {None}]
  BY DEF Base, Typed, TasksTyped, ViewsTyped
<1>2. ASSUME NEW v \in Views, Waits(v)'
      PROVE  Served(v, currentKey[v])'
  <2>1. PICK k \in Keys : k = currentKey[v]
    BY <1>1, <1>2 DEF Waits, TaskServes
  <2>2. Waits(v) /\ k = currentKey'[v]
    BY <1>2, <2>1 DEF Waits, TaskServes
  <2>3. Served(v, k)
    BY <2>1, <2>2 DEF WaitersAreServed
  <2>4. WillBeShown(v, k) => WillBeShown(v, k)'
    BY DEF TaskServes, WillBeShown
  <2>5. LastAsks(v, k) => LastAsks(v, k)' \/ TakesPart(v, k)'
    <3>1. LastAsks(v, k) => \/ LastAsks(v, k)'
                            \/ /\ Head(loaderTasks) = LoadTask(v, k)
                               /\ \A x \in ToSet(loaderTasks') : ~About(x, v)
      BY <1>1, TaskDone DEF TaskServes
    <3>2. Head(loaderTasks) = LoadTask(v, k) => IsIn(v, k)'
      BY <1>2, <2>1 DEF TaskServes
    <3>3. QED
      BY <3>1, <3>2 DEF TakesPart
  <2>6. TakesPart(v, k) => TakesPart(v, k)' \/ WillBeShown(v, k)'
    <3>1. /\ ToSet(loaderTasks') \subseteq ToSet(loaderTasks)
          /\ Head(loaderTasks) \in ToSet(loaderTasks)
      BY <1>1, TaskDone DEF TaskServes
    <3>2. ~About(Head(loaderTasks), v) /\ IsIn(v, k) => IsIn(v, k)' \/ WillBeShown(v, k)'
      BY <1>2, <2>1 DEF TaskServes
    <3>3. QED
      BY <3>1, <3>2 DEF TakesPart
  <2>7. Served(v, k)'
    BY <2>3, <2>4, <2>5, <2>6 DEF Served
  <2>8. QED
    BY <2>2, <2>7 DEF Served
<1>3. QED
  BY <1>2 DEF WaitersAreServed

LEMMA CancelLoadingServes ==
    ASSUME Base, CancelLoading
    PROVE  TaskServes
<1>1. PICK h : h = Head(loaderTasks)
  OBVIOUS
<1>2. /\ loaderTasks # <<>> /\ loaderTasks' = Tail(loaderTasks) /\ h.kind = "cancel"
      /\ imageLoadingByTag' = [imageLoadingByTag EXCEPT ![h.view] = 0]
      /\ UNCHANGED <<currentKey, currentImage, excused, uiTasks, key>>
  BY <1>1 DEF CancelLoading, FirstTask, LoaderFrame, views
<1>3. imageLoadingByTag \in [Views -> Created \cup {0}]
  BY DEF Base, Typed, MapsTyped
<1>4. \A v, k : h # LoadTask(v, k)
  BY <1>2 DEF LoadTask
<1>5. \A v \in Views : ~About(h, v) => imageLoadingByTag'[v] = imageLoadingByTag[v]
  BY <1>2, <1>3 DEF About
<1>6. QED
  BY <1>1, <1>2, <1>4, <1>5 DEF TaskServes, IsIn

LEMMA AlreadyAddedServes ==
    ASSUME Base, AlreadyAdded
    PROVE  TaskServes
<1>1. PICK h : h = Head(loaderTasks)
  OBVIOUS
<1>2. /\ loaderTasks # <<>> /\ loaderTasks' = Tail(loaderTasks)
      /\ imageLoadingByTag[h.view] # 0
      /\ excused' = IF key[imageLoadingByTag[h.view]] # h.key /\ currentKey[h.view] = h.key
                    THEN excused \cup {h.view} ELSE excused
      /\ UNCHANGED <<currentKey, currentImage, uiTasks, key, imageLoadingByTag>>
  BY <1>1 DEF AlreadyAdded, FirstTask, LoaderFrame, views, maps, images
<1>3. ASSUME NEW v \in Views, NEW k \in Keys, Waits(v)', k = currentKey[v],
             h = LoadTask(v, k)
      PROVE  IsIn(v, k)'
  <2>1. h.view = v /\ h.key = k
    BY <1>3 DEF LoadTask
  <2>2. QED
    BY <1>2, <1>3, <2>1 DEF Waits, IsIn
<1>4. QED
  BY <1>1, <1>2, <1>3 DEF TaskServes, IsIn

LEMMA JoinOrCreateServes ==
    ASSUME Base, KeysStay, JoinOrCreate
    PROVE  TaskServes
<1>1. PICK v \in Views, k \in Keys, old \in Created \cup {0}, c \in Loads :
          JoinOrCreateIs(v, k, old, c)
  BY JoinOrCreateDoes
<1>2. PICK h : h = Head(loaderTasks)
  OBVIOUS
<1>3. /\ loaderTasks # <<>> /\ loaderTasks' = Tail(loaderTasks)
      /\ h.kind = "load" /\ h.view = v /\ h.key = k
      /\ imageLoadingByTag' = [imageLoadingByTag EXCEPT ![v] = c]
      /\ excused' = IF key'[c] # k /\ currentKey[v] = k THEN excused \cup {v} ELSE excused
      /\ UNCHANGED <<currentKey, currentImage, uiTasks>>
  BY <1>1, <1>2 DEF JoinOrCreateIs, views
<1>4. imageLoadingByTag \in [Views -> Created \cup {0}] /\ c # 0
  BY LoadsAreNumbers DEF Base, Typed, MapsTyped
<1>5. ASSUME NEW w \in Views, NEW j \in Keys, Waits(w)', j = currentKey[w],
             h = LoadTask(w, j)
      PROVE  IsIn(w, j)'
  <2>1. w = v /\ j = k
    BY <1>3, <1>5 DEF LoadTask
  <2>2. key'[c] = k
    BY <1>3, <1>5, <2>1 DEF Waits
  <2>3. QED
    BY <1>3, <1>4, <2>1, <2>2 DEF IsIn
<1>6. ASSUME NEW w \in Views, NEW j, ~About(h, w), IsIn(w, j)
      PROVE  IsIn(w, j)'
  <2>1. w # v /\ imageLoadingByTag'[w] = imageLoadingByTag[w]
    BY <1>3, <1>4, <1>6 DEF About
  <2>2. QED
    BY <1>4, <1>6, <2>1 DEF IsIn, KeysStay
<1>7. QED
  BY <1>2, <1>3, <1>5, <1>6 DEF TaskServes

LEMMA FileDidLoadedServes ==
    ASSUME Base, KeysStay, Loading, FileDidLoaded
    PROVE  TaskServes
<1>1. PICK u \in Urls :
          \/ FileForNobody(u)
          \/ \E c \in Created, k \in Keys, to \in Loads : FileForViews(u, c, k, to)
  BY FileDidLoadedDoes
<1>2. PICK h : h = Head(loaderTasks)
  OBVIOUS
<1>3. /\ loaderTasks # <<>> /\ loaderTasks' = Tail(loaderTasks) /\ h.kind = "file"
      /\ UNCHANGED <<currentKey, currentImage, excused, uiTasks>>
  BY <1>1, <1>2 DEF FileForNobody, FileForViews, views, history
<1>4. \A v, k : h # LoadTask(v, k)
  BY <1>3 DEF LoadTask
<1>5. imageLoadingByTag \in [Views -> Created \cup {0}]
  BY DEF Base, Typed, MapsTyped
<1>6. ASSUME NEW w \in Views, NEW j, IsIn(w, j)
      PROVE  IsIn(w, j)'
  <2>1. CASE FileForNobody(u)
    BY <1>6, <2>1 DEF FileForNobody, images, IsIn
  <2>2. ASSUME NEW c \in Created, NEW k \in Keys, NEW to \in Loads, FileForViews(u, c, k, to)
        PROVE  IsIn(w, j)'
    <3>1. /\ imageLoadingByTag' = [v \in Views |->
                  IF v \in receivers[c] THEN to ELSE imageLoadingByTag[v]]
          /\ key' = [key EXCEPT ![to] = k] /\ k = key[c] /\ c = imageLoadingByUrl[u] /\ to # 0
      BY <2>2, LoadsAreNumbers DEF FileForViews
    <3>2. CASE w \in receivers[c]
      <4>1. Live(c)
        BY <3>1, LoadsAreNumbers DEF Live, Loading, NamesAreOwn
      <4>2. imageLoadingByTag[w] = c
        BY <3>2, <4>1 DEF Loading, TagsAreReceivers
      <4>3. key'[to] = k
        BY <3>1 DEF Base, Typed, LoadsTyped
      <4>4. QED
        BY <1>6, <3>1, <3>2, <4>2, <4>3 DEF IsIn
    <3>3. CASE w \notin receivers[c]
      BY <1>5, <1>6, <3>1, <3>3 DEF IsIn, KeysStay
    <3>4. QED
      BY <3>2, <3>3
  <2>3. QED
    BY <1>1, <2>1, <2>2
<1>7. QED
  BY <1>2, <1>3, <1>4, <1>6 DEF TaskServes

LEMMA SetImageAndClearServes ==
    ASSUME Base, Loading, NEW c \in Created, NEW b \in Created \cup {0},
           SetImageAndClear(c, b), loaderTasks # <<>>, Head(loaderTasks).kind # "load", Live(c)
    PROVE  TaskServes
<1>1. PICK h : h = Head(loaderTasks)
  OBVIOUS
<1>2. /\ loaderTasks' = Tail(loaderTasks) /\ key' = key
      /\ imageLoadingByTag' = [v \in Views |->
              IF v \in receivers[c] THEN 0 ELSE imageLoadingByTag[v]]
      /\ uiTasks' = IF b # 0 THEN Append(uiTasks, ShowTask(key[c], b, receivers[c]))
                    ELSE uiTasks
      /\ excused' = IF b = 0 THEN excused \cup receivers[c] ELSE excused
      /\ UNCHANGED <<currentKey, currentImage>>
  BY DEF SetImageAndClear, LoaderFrame, views
<1>3. \A v, k : h # LoadTask(v, k)
  BY <1>1 DEF LoadTask
<1>4. PICK t : t = ShowTask(key[c], b, receivers[c])
  OBVIOUS
<1>5. ToSet(uiTasks') = IF b # 0 THEN ToSet(uiTasks) \cup {t} ELSE ToSet(uiTasks)
  <2>1. CASE b # 0
    <3>1. t \in UiTaskOf(Created)
      BY <1>4, <2>1, CreatedHaveKeys DEF UiTaskOf, ShowTask, Base, Typed, LoadsTyped
    <3>2. QED
      BY <1>2, <1>4, <2>1, <3>1, TasksAfterAppend DEF Base, Typed, TasksTyped
  <2>2. CASE b = 0
    BY <1>2, <2>2
  <2>3. QED
    BY <2>1, <2>2
<1>6. ASSUME NEW v \in Views, NEW k \in Keys, Waits(v)', IsIn(v, k)
      PROVE  IsIn(v, k)' \/ WillBeShown(v, k)'
  <2>1. CASE v \notin receivers[c]
    BY <1>2, <1>6, <2>1 DEF IsIn
  <2>2. CASE v \in receivers[c]
    <3>1. imageLoadingByTag[v] = c
      BY <2>2 DEF Loading, TagsAreReceivers
    <3>2. key[c] = k
      BY <1>6, <3>1 DEF IsIn
    <3>3. b # 0
      BY <1>2, <1>6, <2>2 DEF Waits
    <3>4. t.kind = "show" /\ t.key = k /\ v \in t.views
      BY <1>4, <2>2, <3>2 DEF ShowTask
    <3>5. t \in ToSet(uiTasks')
      BY <1>5, <3>3
    <3>6. QED
      BY <3>4, <3>5 DEF WillBeShown
  <2>3. QED
    BY <2>1, <2>2
<1>7. QED
  BY <1>1, <1>2, <1>3, <1>5, <1>6 DEF TaskServes

LEMMA LoadQueueServes ==
    ASSUME Base, KeysStay, Loading, ImageLoadQueue
    PROVE  TaskServes
<1>1. CASE CancelLoading \/ AlreadyAdded \/ JoinOrCreate \/ FileDidLoaded
  BY <1>1, CancelLoadingServes, AlreadyAddedServes, JoinOrCreateServes, FileDidLoadedServes
<1>2. CASE FileDidFailedLoad
  <2>1. PICK c : c = imageLoadingByUrl[Head(loaderTasks).url]
    OBVIOUS
  <2>2. /\ loaderTasks # <<>> /\ Head(loaderTasks).kind = "file"
        /\ c \in Created \cup {0} /\ (c # 0 => Live(c))
    BY <1>2, <2>1, FirstTaskTaken, CreatedHaveKeys
    DEF FileDidFailedLoad, FirstTask, Base, Typed, MapsTyped, Loading, NamesAreOwn, Live
  <2>3. CASE c # 0
    <3>1. SetImageAndClear(c, 0)
      BY <1>2, <2>1, <2>3 DEF FileDidFailedLoad
    <3>2. QED
      BY <2>2, <2>3, <3>1, SetImageAndClearServes
  <2>4. CASE c = 0
    <3>1. /\ loaderTasks' = Tail(loaderTasks)
          /\ UNCHANGED <<currentKey, currentImage, excused, uiTasks, imageLoadingByTag, key>>
      BY <1>2, <2>1, <2>4 DEF FileDidFailedLoad, LoaderFrame, views, maps, images
    <3>2. \A v, k : Head(loaderTasks) # LoadTask(v, k)
      BY <2>2 DEF LoadTask
    <3>3. QED
      BY <2>2, <3>1, <3>2 DEF TaskServes, IsIn
  <2>5. QED
    BY <2>2, <2>3, <2>4
<1>3. CASE SetDecoded
  <2>1. PICK c \in Created, b \in Created \cup {0} :
            c = Head(loaderTasks).load /\ b = Head(loaderTasks).bitmap
    BY <1>3, FirstTaskTaken DEF SetDecoded, FirstTask
  <2>2. /\ SetImageAndClear(c, b) /\ loaderTasks # <<>>
        /\ Head(loaderTasks).kind = "set" /\ Head(loaderTasks).load = c
    BY <1>3, <2>1 DEF SetDecoded, FirstTask
  <2>3. Head(loaderTasks) \in ToSet(loaderTasks)
    BY <2>2, TasksAfterTail DEF Base, Typed, TasksTyped
  <2>4. Live(c)
    BY <2>2, <2>3 DEF Loading, DecodedAreLocal, Decodes, Ending, Live
  <2>5. QED
    BY <2>2, <2>4, SetImageAndClearServes
<1>4. QED
  BY <1>1, <1>2, <1>3 DEF ImageLoadQueue

-----------------------------------------------------------------------------
(* The other steps and the views that wait.                                *)

\* What such a step has to show: no view waits that did not wait, and if a
\* bitmap that was on its way to one is gone, the view waits no more.
StepServes ==
    /\ UNCHANGED <<currentKey, imageLoadingByTag, key>>
    /\ \/ loaderTasks' = loaderTasks
       \/ \E t \in LoaderTaskOf(Created) :
              t.kind \notin {"load", "cancel"} /\ loaderTasks' = Append(loaderTasks, t)
    /\ \A v \in Views : Waits(v)' => Waits(v)
    /\ \A v \in Views, k \in Keys :
           Waits(v)' /\ k = currentKey[v] /\ WillBeShown(v, k) => WillBeShown(v, k)'

LEMMA StepsServe ==
    ASSUME Base, WaitersAreServed, StepServes
    PROVE  WaitersAreServed'
<1>1. loaderTasks \in Seq(LoaderTaskOf(Created)) /\ currentKey \in [Views -> Keys \cup {None}]
  BY DEF Base, Typed, TasksTyped, ViewsTyped
<1>2. ASSUME NEW v \in Views, Waits(v)'
      PROVE  Served(v, currentKey[v])'
  <2>1. Waits(v)
    BY <1>2 DEF StepServes
  <2>2. PICK k \in Keys : k = currentKey[v]
    BY <1>1, <2>1 DEF Waits
  <2>3. Served(v, k) /\ k = currentKey'[v]
    BY <2>1, <2>2 DEF WaitersAreServed, StepServes
  <2>4. WillBeShown(v, k) => WillBeShown(v, k)'
    BY <1>2, <2>2 DEF StepServes
  <2>5. IsIn(v, k) => IsIn(v, k)'
    BY DEF StepServes, IsIn
  <2>6. (LastAsks(v, k) => LastAsks(v, k)') /\ (TakesPart(v, k) => TakesPart(v, k)')
    <3>1. CASE loaderTasks' = loaderTasks
      BY <2>5, <3>1 DEF LastAsks, TakesPart
    <3>2. ASSUME NEW t \in LoaderTaskOf(Created), t.kind \notin {"load", "cancel"},
                 loaderTasks' = Append(loaderTasks, t)
          PROVE  (LastAsks(v, k) => LastAsks(v, k)') /\ (TakesPart(v, k) => TakesPart(v, k)')
      <4>1. ~About(t, v)
        BY <3>2 DEF About
      <4>2. QED
        BY <1>1, <2>5, <3>2, <4>1, TaskPut DEF TakesPart
    <3>3. QED
      BY <3>1, <3>2 DEF StepServes
  <2>7. Served(v, k)'
    BY <2>3, <2>4, <2>6 DEF Served
  <2>8. QED
    BY <2>3, <2>7 DEF Served
<1>3. QED
  BY <1>2 DEF WaitersAreServed

LEMMA OthersServe ==
    ASSUME Base, CacheOutQueue \/ Downloads \/ UiFileTask \/ Decoded \/ UNCHANGED vars
    PROVE  StepServes
<1>1. uiTasks \in Seq(UiTaskOf(Created))
  BY DEF Base, Typed, TasksTyped
<1>2. UNCHANGED <<currentKey, currentImage, excused, imageLoadingByTag, key>>
  BY DEF CacheOutQueue, Decode, EndDecode, Downloads, EndDownload, UiFileTask, Decoded, vars,
         views, maps, images, history
<1>3. \A v \in Views : Waits(v)' <=> Waits(v)
  BY <1>2 DEF Waits
<1>4. ASSUME \A t : t \in ToSet(uiTasks) /\ t.kind = "show" => t \in ToSet(uiTasks'),
             \/ loaderTasks' = loaderTasks
             \/ \E t \in LoaderTaskOf(Created) :
                    t.kind \notin {"load", "cancel"} /\ loaderTasks' = Append(loaderTasks, t)
      PROVE  StepServes
  BY <1>2, <1>3, <1>4 DEF StepServes, WillBeShown
<1>5. CASE Decode \/ UNCHANGED vars
  BY <1>4, <1>5 DEF Decode, vars
<1>6. ASSUME NEW t \in UiTaskOf(Created), uiTasks' = Append(uiTasks, t),
             loaderTasks' = loaderTasks
      PROVE  StepServes
  BY <1>1, <1>4, <1>6, TasksAfterAppend
<1>7. ASSUME NEW ok \in BOOLEAN, EndDecode(ok)
      PROVE  StepServes
  <2>1. PICK t : t = DecodedTask(decoding, IF ok THEN decoding ELSE 0)
    OBVIOUS
  <2>2. t \in UiTaskOf(Created)
    BY <1>7, <2>1 DEF EndDecode, Base, Typed, DecoderTyped, UiTaskOf, DecodedTask
  <2>3. QED
    BY <1>6, <1>7, <2>1, <2>2 DEF EndDecode
<1>8. ASSUME NEW u \in Urls, NEW ok \in BOOLEAN, EndDownload(u, ok)
      PROVE  StepServes
  <2>1. FileTask(u, ok) \in UiTaskOf(Created)
    BY DEF UiTaskOf, FileTask
  <2>2. QED
    BY <1>6, <1>8, <2>1 DEF EndDownload
<1>9. ASSUME uiTasks # <<>>, uiTasks' = Tail(uiTasks), Head(uiTasks).kind # "show"
      PROVE  \A t : t \in ToSet(uiTasks) /\ t.kind = "show" => t \in ToSet(uiTasks')
  <2>1. ToSet(uiTasks) = {Head(uiTasks)} \cup ToSet(uiTasks')
    BY <1>1, <1>9, TasksAfterTail
  <2>2. QED
    BY <1>9, <2>1
<1>10. CASE UiFileTask
  <2>1. /\ uiTasks # <<>> /\ uiTasks' = Tail(uiTasks) /\ Head(uiTasks).kind = "file"
        /\ loaderTasks' = Append(loaderTasks, Head(uiTasks))
    BY <1>10 DEF UiFileTask, FirstUi
  <2>2. Head(uiTasks) \in LoaderTaskOf(Created)
    BY <2>1, FirstUiTaken DEF LoaderTaskOf, FileTasks
  <2>3. QED
    BY <1>4, <1>9, <2>1, <2>2
<1>11. CASE Decoded
  <2>1. PICK c \in Created, b \in Created \cup {0} : DecodedIs(c, b)
    BY <1>11, DecodedDoes
  <2>2. Cached(lru, key[c]) \in Created \cup {0}
    BY CachedIsThere DEF Base, Typed, CacheTyped
  <2>3. PICK a \in Created \cup {0} : loaderTasks' = Append(loaderTasks, SetTask(c, a))
    BY <2>1, <2>2 DEF DecodedIs
  <2>4. SetTask(c, a) \in LoaderTaskOf(Created) /\ SetTask(c, a).kind = "set"
    BY DEF SetTask, LoaderTaskOf
  <2>5. uiTasks # <<>> /\ uiTasks' = Tail(uiTasks) /\ Head(uiTasks).kind = "decoded"
    BY <2>1 DEF DecodedIs
  <2>6. QED
    BY <1>4, <1>9, <2>3, <2>4, <2>5
<1>12. QED
  BY <1>5, <1>7, <1>8, <1>10, <1>11 DEF CacheOutQueue, Downloads

LEMMA ShowServes ==
    ASSUME Base, Show
    PROVE  StepServes
<1>1. PICK h : h = Head(uiTasks)
  OBVIOUS
<1>2. /\ uiTasks # <<>> /\ uiTasks' = Tail(uiTasks) /\ h.kind = "show" /\ h.bitmap # 0
      /\ currentImage' = [v \in Views |->
              IF v \in {w \in h.views : currentKey[w] = h.key} THEN h.bitmap
              ELSE currentImage[v]]
      /\ UNCHANGED <<currentKey, excused, imageLoadingByTag, key, loaderTasks>>
  BY <1>1, FirstUiTaken, LoadsAreNumbers DEF Show, FirstUi, maps, images
<1>3. ToSet(uiTasks) = {h} \cup ToSet(uiTasks')
  BY <1>1, <1>2, TasksAfterTail DEF Base, Typed, TasksTyped
<1>4. \A v \in Views : Waits(v)' => Waits(v) /\ ~(v \in h.views /\ currentKey[v] = h.key)
  BY <1>2 DEF Waits
<1>5. \A v \in Views, k \in Keys :
          Waits(v)' /\ k = currentKey[v] /\ WillBeShown(v, k) => WillBeShown(v, k)'
  BY <1>3, <1>4 DEF WillBeShown
<1>6. QED
  BY <1>2, <1>4, <1>5 DEF StepServes

LEMMA ClearMemoryServes ==
    ASSUME ClearMemory
    PROVE  StepServes
<1>1. UNCHANGED <<currentKey, currentImage, excused, imageLoadingByTag, key, loaderTasks, uiTasks>>
  BY DEF ClearMemory, views, maps, images, history
<1>2. QED
  BY <1>1 DEF StepServes, Waits, WillBeShown

-----------------------------------------------------------------------------
(* Nobody is forgotten.                                                    *)

Waiting == Loading /\ WaitersAreServed

LEMMA InitIsWaiting ==
    ASSUME Init
    PROVE  Waiting
<1>1. /\ Created = {} /\ key = [c \in Loads |-> None] /\ remote = {}
      /\ receivers = [c \in Loads |-> {}] /\ isCancelled = {}
      /\ imageLoadingByUrl = [u \in Urls |-> 0] /\ imageLoadingByKeys = [k \in Keys |-> 0]
      /\ currentKey = [v \in Views |-> None]
  BY DEF Init, Created
<1>2. Loading
  BY <1>1 DEF Loading, TagsAreReceivers, NamesAreOwn, DecodedAreLocal, CancelledAreLeft,
              LocalAreDecoded, FilesAreDue
<1>3. WaitersAreServed
  BY <1>1 DEF WaitersAreServed, Waits
<1>4. QED
  BY <1>2, <1>3 DEF Waiting

LEMMA StepKeepsWaiting ==
    ASSUME Sound, Sound', Waiting, [Next]_vars
    PROVE  Waiting'
<1>1. Base /\ Base' /\ DecodedOnce /\ KeysAreOwn /\ KeysStay /\ Loading /\ WaitersAreServed
  BY KeysOfAStep DEF Sound, Bitmaps, Waiting
<1>2. CASE Users
  <2>1. CASE \E v \in Views : Acts(v)
    BY <1>1, <2>1, ActsKeepLoading, ActsServe DEF Waiting
  <2>2. CASE ClearMemory
    <3>1. Loading'
      <4>1. UNCHANGED <<maps, images, decoder, uiTasks, loaderTasks, files>>
        BY <2>2 DEF ClearMemory
      <4>2. (\A c : Decodes(c)' <=> Decodes(c)) /\ (\A u : FileDue(u)' <=> FileDue(u))
        BY <4>1 DEF Decodes, Ending, FileDue, decoder, files
      <4>3. QED
        BY <1>1, <4>1, <4>2, TasksKeepLoading DEF decoder
    <3>2. QED
      BY <1>1, <2>2, <3>1, ClearMemoryServes, StepsServe DEF Waiting
  <2>3. QED
    BY <1>1, <1>2, <2>1, <2>2, UsersAct
<1>3. CASE ImageLoadQueue
  BY <1>1, <1>3, LoadingOfATask, LoadQueueServes, TasksServe DEF Waiting
<1>4. CASE CacheOutQueue
  BY <1>1, <1>4, DecodeKeepsLoading, EndDecodeKeepsLoading, OthersServe, StepsServe
  DEF Waiting, CacheOutQueue
<1>5. CASE Downloads
  BY <1>1, <1>5, EndDownloadKeepsLoading, OthersServe, StepsServe DEF Waiting, Downloads
<1>6. CASE UiThread
  <2>1. StepServes
    BY <1>1, <1>6, OthersServe, ShowServes DEF UiThread
  <2>2. QED
    BY <1>1, <1>6, <2>1, UiThreadKeepsLoading, StepsServe DEF Waiting
<1>7. CASE UNCHANGED vars
  <2>1. Loading'
    <3>1. UNCHANGED <<maps, images, decoder, uiTasks, loaderTasks, files>>
      BY <1>7 DEF vars
    <3>2. (\A c : Decodes(c)' <=> Decodes(c)) /\ (\A u : FileDue(u)' <=> FileDue(u))
      BY <3>1 DEF Decodes, Ending, FileDue, decoder, files
    <3>3. QED
      BY <1>1, <3>1, <3>2, TasksKeepLoading DEF decoder
  <2>2. QED
    BY <1>1, <1>7, <2>1, OthersServe, StepsServe DEF Waiting
<1>8. QED
  BY <1>2, <1>3, <1>4, <1>5, <1>6, <1>7 DEF Next

\* Whoever is in a load that is alive is in one that will end.
LEMMA WaitingRemembers ==
    ASSUME Base, Waiting
    PROVE  NobodyIsForgotten
<1>1. ASSUME NEW v \in Views, NEW k, k = currentKey[v], IsIn(v, k)
      PROVE  \E c \in Created : v \in receivers[c] /\ key[c] = k /\ Pending(c)
  <2>1. PICK c \in Created : c = imageLoadingByTag[v]
    BY <1>1 DEF Base, Typed, MapsTyped, IsIn
  <2>2. v \in receivers[c] /\ Live(c) /\ key[c] = k
    BY <1>1, <2>1 DEF Waiting, Loading, TagsAreReceivers, IsIn
  <2>3. c # 0 /\ UrlOf[key[c]] \in Urls
    BY CreatedHaveKeys DEF Base
  <2>4. CASE c \notin remote
    BY <2>2, <2>4 DEF Waiting, Loading, LocalAreDecoded, Decodes, Ending, Pending
  <2>5. CASE c \in remote
    BY <2>2, <2>3, <2>5 DEF Live, Waiting, Loading, FilesAreDue, FileDue, Pending
  <2>6. QED
    BY <2>2, <2>4, <2>5
<1>2. QED
  BY <1>1 DEF Waiting, WaitersAreServed, Waits, Served, LastAsks, WillBeShown, TakesPart,
              NobodyIsForgotten

\* Waiting holds in every reachable state: no step of ImageLoader's threads drops a
\* receiver from a load, or ends a load, without passing its views on.
THEOREM AlwaysWaiting == Spec => []Waiting
<1>1. Init => Waiting
  BY InitIsWaiting
<1>2. Sound /\ Sound' /\ Waiting /\ [Next]_vars => Waiting'
  BY StepKeepsWaiting
<1>3. QED
  BY <1>1, <1>2, AlwaysSound, PTL DEF Spec

\* NobodyIsForgotten always holds: a view that has a key and no image will be asked
\* for (createLoadOperationForImageReceiver), is in a load that ends
\* (imageReceiverArray), or is on its way to be shown the bitmap
\* (setImageAndClear), unless its load was cancelled or failed.
THEOREM EveryViewIsServed == Spec => []NobodyIsForgotten
<1>1. Sound /\ Waiting => NobodyIsForgotten
  BY WaitingRemembers DEF Sound
<1>2. QED
  BY <1>1, AlwaysSound, AlwaysWaiting, PTL

===============================================================================
