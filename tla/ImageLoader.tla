------------------------------ MODULE ImageLoader ------------------------------
(***************************************************************************)
(* Images on their way to the views: messenger/ImageLoader.java with its     *)
(* memory cache (messenger/LruCache.java) and the views' ends of it          *)
(* (messenger/ImageReceiver.java).                                          *)
(*                                                                         *)
(* A view asks on the main thread.  What is not in the cache is looked up on *)
(* imageLoadQueue, which owns the maps of loads; it is downloaded if its     *)
(* file is missing, decoded on cacheOutQueue, entered into the cache on the  *)
(* main thread, passed to imageLoadQueue for its views, and set on the main  *)
(* thread at last.  Bitmaps are recycled by hand: the use count of a key     *)
(* says how many views show it.                                             *)
(*                                                                         *)
(* The images are still pictures (animated ones are AnimatedFileDrawable) of *)
(* one size each, and a view's thumbnail, which takes the same way by maps   *)
(* of its own tags, is left out.  A load is a CacheImage, its number also    *)
(* that of the bitmap it decodes; 0 is none.                                *)
(***************************************************************************)
EXTENDS Integers, Sequences, FiniteSets, SequencesExt

CONSTANTS
    Views,       \* the ImageReceivers
    Keys,        \* an image with its filter
    Urls,        \* file names
    UrlOf,       \* key -> the file it is decoded from
    Local,       \* the files that are there from the start
    Capacity,    \* bitmaps that fit into the cache
    MaxCalls,    \* bound: calls of the views, draw errors and evictions of all
    None         \* no key

ASSUME ImageAssumption ==
    /\ UrlOf \in [Keys -> Urls] /\ Local \subseteq Urls
    /\ IsFiniteSet(Views) /\ None \notin Keys
    /\ Capacity \in Nat \ {0} /\ MaxCalls \in Nat

Loads == 1..2 * MaxCalls   \* a call creates one, and the end of its download one

VARIABLES
    currentKey, currentImage, canceledLoading,   \* of each view
    lru,                \* memCache, the least recently used bitmap first
    bitmapUseCounts,    \* key -> count
    recycled,           \* the bitmaps that were recycled
    imageLoadingByUrl, imageLoadingByKeys, imageLoadingByTag,
    key,                \* load -> its key, or None
    remote,             \* the loads with a url
    receivers,          \* load -> imageReceiverArray
    uiTasks,            \* the main thread's queue, as far as loads are concerned
    loaderTasks,        \* imageLoadQueue
    decodeTasks,        \* cacheOutQueue
    decoding,           \* the load whose task runs there
    isCancelled,        \* the loads whose task was cancelled
    downloading,        \* the files FileLoader is asked for
    present,            \* the files that are there
    calls

(* History variables. *)
VARIABLES
    excused,   \* views that need not be served: cancelled, failed, or the
               \* load they joined decodes another key
    tainted,   \* keys of which a view was handed a recycled bitmap
    doubled    \* keys that a view dropped or was handed once more uncounted

views   == <<currentKey, currentImage, canceledLoading>>
cache   == <<lru, bitmapUseCounts, recycled>>
maps    == <<imageLoadingByUrl, imageLoadingByKeys, imageLoadingByTag>>
images  == <<key, remote, receivers>>
decoder == <<decodeTasks, decoding, isCancelled>>
files   == <<downloading, present>>
history == <<excused, tainted, doubled>>
vars    == <<views, cache, maps, images, uiTasks, loaderTasks, decoder, files,
             calls, history>>

LoadTask(v, k)     == [kind |-> "load", view |-> v, key |-> k]
CancelTask(v)      == [kind |-> "cancel", view |-> v]
SetTask(c, b)      == [kind |-> "set", load |-> c, bitmap |-> b]
DecodedTask(c, b)  == [kind |-> "decoded", load |-> c, bitmap |-> b]
ShowTask(k, b, vs) == [kind |-> "show", key |-> k, bitmap |-> b, views |-> vs]
FileTask(u, ok)    == [kind |-> "file", url |-> u, ok |-> ok]

Init ==
    /\ currentKey = [v \in Views |-> None] /\ currentImage = [v \in Views |-> 0]
    /\ canceledLoading = [v \in Views |-> FALSE]
    /\ lru = <<>> /\ bitmapUseCounts = [k \in Keys |-> 0] /\ recycled = {}
    /\ imageLoadingByUrl = [u \in Urls |-> 0]
    /\ imageLoadingByKeys = [k \in Keys |-> 0]
    /\ imageLoadingByTag = [v \in Views |-> 0]
    /\ key = [c \in Loads |-> None] /\ remote = {}
    /\ receivers = [c \in Loads |-> {}]
    /\ uiTasks = <<>> /\ loaderTasks = <<>>
    /\ decodeTasks = <<>> /\ decoding = 0 /\ isCancelled = {}
    /\ downloading = {} /\ present = Local
    /\ calls = 0
    /\ excused = {} /\ tainted = {} /\ doubled = {}

-----------------------------------------------------------------------------
(* The memory cache.                                                       *)

\* The bitmap of k in the cache s, or 0.
Cached(s, k) ==
    IF \E b \in ToSet(s) : key[b] = k THEN CHOOSE b \in ToSet(s) : key[b] = k ELSE 0

\* LruCache.get: the entry found becomes the most recently used one.
Touch(s, k) ==
    IF Cached(s, k) = 0 THEN s
    ELSE Append(RemoveFirst(s, Cached(s, k)), Cached(s, k))

\* Mutant: whatever is evicted is recycled.
UnusedAll(bs, counts) == bs

\* entryRemoved: what the removal of the bitmaps bs recycles.
Unused(bs, counts) == {b \in bs : counts[key[b]] = 0}

\* Mutant: one bitmap too many is kept.
TrimmedLate(s) == IF Len(s) > Capacity + 1 THEN Tail(s) ELSE s

\* trimToSize, after LruCache.put of a key that was not in the cache.
Trimmed(s) == IF Len(s) > Capacity THEN Tail(s) ELSE s

-----------------------------------------------------------------------------
(* The views, on the main thread.                                          *)

Call == calls < MaxCalls /\ calls' = calls + 1

\* The part of recycleBitmap that gives up the image of v: what becomes of
\* the counts, of the cache's order and of the bitmap.
Holds(v) == currentKey[v] # None /\ currentImage[v] # 0

\* Mutant: the last view's count is kept.
DecrementKeepingOne(k) ==
    [bitmapUseCounts EXCEPT ![k] = IF @ <= 1 THEN @ ELSE @ - 1]

DecrementUseCount(k) == [bitmapUseCounts EXCEPT ![k] = IF @ = 0 THEN 0 ELSE @ - 1]

Released(v) ==
    IF Cached(lru, currentKey[v]) = 0 /\ bitmapUseCounts[currentKey[v]] <= 1
    THEN {currentImage[v]} ELSE {}

\* recycleBitmap(null) of v.
Release(v) ==
    IF Holds(v)
    THEN /\ bitmapUseCounts' = DecrementUseCount(currentKey[v])
         /\ lru' = Touch(lru, currentKey[v])
         /\ recycled' = recycled \cup Released(v)
    ELSE UNCHANGED cache

\* loadImageForImageReceiver: the cache s first, else a task.  counts are the
\* use counts by then.
Load(v, k, s, counts) ==
    /\ currentKey' = [currentKey EXCEPT ![v] = k]
    /\ currentImage' = [currentImage EXCEPT ![v] = Cached(s, k)]
    /\ lru' = Touch(s, k)
    /\ \/ /\ Cached(s, k) # 0
          /\ bitmapUseCounts' = [counts EXCEPT ![k] = @ + 1]
          /\ loaderTasks' = Append(loaderTasks, CancelTask(v))
       \/ /\ Cached(s, k) = 0
          /\ bitmapUseCounts' = counts
          /\ loaderTasks' = Append(loaderTasks, LoadTask(v, k))

\* setImage of a key that the view does not have.
SetImage(v, k) ==
    /\ Call
    /\ currentKey[v] # k
    /\ IF Holds(v)
       THEN /\ recycled' = recycled \cup Released(v)
            /\ Load(v, k, Touch(lru, currentKey[v]), DecrementUseCount(currentKey[v]))
       ELSE /\ Load(v, k, lru, bitmapUseCounts)
            /\ UNCHANGED recycled
    /\ excused' = excused \ {v}
    /\ UNCHANGED <<canceledLoading, maps, images, uiTasks, decoder, files, tainted,
                   doubled>>

\* setImage of the key that the view has goes on if a download was cancelled
\* before; the image, if there is one, is dropped without a count.
SetImageAgain(v) ==
    /\ Call
    /\ currentKey[v] # None /\ canceledLoading[v]
    /\ Load(v, currentKey[v], lru, bitmapUseCounts)
    /\ doubled' = IF Holds(v) THEN doubled \cup {currentKey[v]} ELSE doubled
    /\ excused' = excused \ {v}
    /\ UNCHANGED <<canceledLoading, recycled, maps, images, uiTasks, decoder, files,
                   tainted>>

\* setImage of nothing, or setImageBitmap; onDetachedFromWindow does without
\* the cancellation, and the load goes on for nobody.
ClearImage(v, detached) ==
    /\ Call
    /\ detached => currentKey[v] # None
    /\ Release(v)
    /\ currentKey' = [currentKey EXCEPT ![v] = None]
    /\ currentImage' = [currentImage EXCEPT ![v] = 0]
    /\ loaderTasks' = IF detached THEN loaderTasks
                      ELSE Append(loaderTasks, CancelTask(v))
    /\ UNCHANGED <<canceledLoading, maps, images, uiTasks, decoder, files, history>>

CancelLoadImage(v) ==
    /\ Call
    /\ canceledLoading' = [canceledLoading EXCEPT ![v] = TRUE]
    /\ loaderTasks' = Append(loaderTasks, CancelTask(v))
    /\ excused' = excused \cup {v}
    /\ UNCHANGED <<currentKey, currentImage, cache, maps, images, uiTasks, decoder,
                   files, tainted, doubled>>

\* A recycled bitmap cannot be drawn: drawDrawable takes the key out of the
\* counts and the cache (removeImage) and loads it again.
DrawError(v) ==
    /\ Call
    /\ Holds(v) /\ currentImage[v] \in recycled
    /\ LET k == currentKey[v]
           b == Cached(lru, k)
       IN
       /\ bitmapUseCounts' = [bitmapUseCounts EXCEPT ![k] = 0]
       /\ lru' = RemoveFirst(lru, b)
       /\ recycled' = recycled \cup ({b} \ {0})
       /\ currentImage' = [currentImage EXCEPT ![v] = 0]
       /\ loaderTasks' = Append(loaderTasks, LoadTask(v, k))
    /\ excused' = excused \ {v}
    /\ UNCHANGED <<currentKey, canceledLoading, maps, images, uiTasks, decoder, files,
                   tainted, doubled>>

\* clearMemory, when a bitmap elsewhere did not fit into the memory.
ClearMemory ==
    /\ Call
    /\ lru # <<>>
    /\ recycled' = recycled \cup Unused(ToSet(lru), bitmapUseCounts)
    /\ lru' = <<>>
    /\ UNCHANGED <<views, bitmapUseCounts, maps, images, uiTasks, loaderTasks, decoder,
                   files, history>>

-----------------------------------------------------------------------------
(* imageLoadQueue.                                                         *)

FirstTask(kind) == loaderTasks # <<>> /\ Head(loaderTasks).kind = kind

\* The tasks of the queue leave the main thread's state alone.
LoaderFrame == UNCHANGED <<views, cache, calls, tainted, doubled>>

Created == {c \in Loads : key[c] # None}
NewLoad == Cardinality(Created) + 1

\* removeImageReceiver of v from the load c (from none, if it is 0).  A load
\* that loses its last view is cancelled and its names are taken out of the
\* maps, whatever load a name stands for by now.
Without(c, v) == IF c = 0 THEN receivers ELSE [receivers EXCEPT ![c] = @ \ {v}]

\* Mutant: the views that are left lose their load.
DropsFirst(c, v) == c # 0 /\ v \in receivers[c]

Drops(c, v) == c # 0 /\ receivers[c] \subseteq {v}

UrlsWithout(c, v) ==
    IF Drops(c, v) /\ c \in remote
    THEN [imageLoadingByUrl EXCEPT ![UrlOf[key[c]]] = 0] ELSE imageLoadingByUrl

KeysWithout(c, v) ==
    IF Drops(c, v) THEN [imageLoadingByKeys EXCEPT ![key[c]] = 0]
    ELSE imageLoadingByKeys

DecodesWithout(c, v) == IF Drops(c, v) THEN RemoveFirst(decodeTasks, c) ELSE decodeTasks

CancelsWith(c, v) == IF Drops(c, v) THEN isCancelled \cup {c} ELSE isCancelled

DownloadsWithout(c, v) ==
    IF Drops(c, v) /\ c \in remote THEN downloading \ {UrlOf[key[c]]} ELSE downloading

\* cancelLoadingForImageReceiver.
CancelLoading ==
    /\ FirstTask("cancel")
    /\ LET v == Head(loaderTasks).view
           c == imageLoadingByTag[v]
       IN
       /\ receivers' = Without(c, v)
       /\ imageLoadingByTag' = [imageLoadingByTag EXCEPT ![v] = 0]
       /\ imageLoadingByUrl' = UrlsWithout(c, v)
       /\ imageLoadingByKeys' = KeysWithout(c, v)
       /\ decodeTasks' = DecodesWithout(c, v)
       /\ isCancelled' = CancelsWith(c, v)
       /\ downloading' = DownloadsWithout(c, v)
    /\ loaderTasks' = Tail(loaderTasks)
    /\ UNCHANGED <<key, remote, uiTasks, decoding, present, excused>>
    /\ LoaderFrame

\* createLoadOperationForImageReceiver: is the view waiting for this key or
\* this file already?
AlreadyAdded ==
    /\ FirstTask("load")
    /\ LET t == Head(loaderTasks)
           c == imageLoadingByTag[t.view]
       IN
       /\ c # 0
       /\ c \in {imageLoadingByUrl[UrlOf[t.key]], imageLoadingByKeys[t.key]}
       /\ excused' = IF key[c] # t.key /\ currentKey[t.view] = t.key
                     THEN excused \cup {t.view} ELSE excused
    /\ loaderTasks' = Tail(loaderTasks)
    /\ UNCHANGED <<maps, images, uiTasks, decoder, files>>
    /\ LoaderFrame

\* Otherwise it leaves the load it waits for, joins the one of the key, or
\* else the one that downloads the file (for whatever key), or starts one.
LoadFor(t) ==
    LET v == t.view
        k == t.key
        byUrl == imageLoadingByUrl[UrlOf[k]]
        byKey == imageLoadingByKeys[k]
        old   == imageLoadingByTag[v]
        join  == IF byKey # 0 THEN byKey ELSE byUrl
        c     == IF join # 0 THEN join ELSE NewLoad
        new   == join = 0
        there == UrlOf[k] \in present
    IN
    /\ old = 0 \/ old \notin {byUrl, byKey}
    /\ receivers' = [Without(old, v) EXCEPT ![c] = @ \cup {v}]
    /\ imageLoadingByTag' = [imageLoadingByTag EXCEPT ![v] = c]
    /\ key' = IF new THEN [key EXCEPT ![c] = k] ELSE key
    /\ remote' = IF new /\ ~there THEN remote \cup {c} ELSE remote
    /\ imageLoadingByUrl' = IF new /\ ~there
                            THEN [UrlsWithout(old, v) EXCEPT ![UrlOf[k]] = c]
                            ELSE UrlsWithout(old, v)
    /\ imageLoadingByKeys' = IF new /\ there THEN [KeysWithout(old, v) EXCEPT ![k] = c]
                             ELSE KeysWithout(old, v)
    /\ decodeTasks' = IF new /\ there THEN Append(DecodesWithout(old, v), c)
                      ELSE DecodesWithout(old, v)
    /\ isCancelled' = CancelsWith(old, v)
    /\ downloading' = IF new /\ ~there THEN DownloadsWithout(old, v) \cup {UrlOf[k]}
                      ELSE DownloadsWithout(old, v)
    /\ excused' = IF key'[c] # k /\ currentKey[v] = k THEN excused \cup {v} ELSE excused
    /\ UNCHANGED <<uiTasks, decoding, present>>

JoinOrCreate ==
    /\ FirstTask("load")
    /\ LoadFor(Head(loaderTasks))
    /\ loaderTasks' = Tail(loaderTasks)
    /\ LoaderFrame

\* fileDidLoaded: the views of the load that waited for the file go over to
\* the load of its key, which is new as a rule.
FileDidLoaded ==
    /\ FirstTask("file") /\ Head(loaderTasks).ok
    /\ LET u  == Head(loaderTasks).url
           c  == imageLoadingByUrl[u]
           to == IF imageLoadingByKeys[key[c]] # 0 THEN imageLoadingByKeys[key[c]]
                 ELSE NewLoad
       IN
       /\ imageLoadingByUrl' = [imageLoadingByUrl EXCEPT ![u] = 0]
       /\ IF c = 0 \/ receivers[c] = {}
          THEN UNCHANGED <<imageLoadingByKeys, imageLoadingByTag, key, receivers,
                           decodeTasks>>
          ELSE /\ imageLoadingByKeys' = [imageLoadingByKeys EXCEPT ![key[c]] = to]
               /\ imageLoadingByTag' = [v \in Views |->
                       IF v \in receivers[c] THEN to ELSE imageLoadingByTag[v]]
               /\ receivers' = [receivers EXCEPT ![to] = @ \cup receivers[c]]
               /\ key' = [key EXCEPT ![to] = key[c]]
               /\ decodeTasks' = IF key[to] = None THEN Append(decodeTasks, to)
                                 ELSE decodeTasks
    /\ loaderTasks' = Tail(loaderTasks)
    /\ UNCHANGED <<remote, uiTasks, decoding, isCancelled, files, excused>>
    /\ LoaderFrame

\* setImageAndClear: the views of the load are told, and it is forgotten.
SetImageAndClear(c, b) ==
    /\ uiTasks' = IF b # 0 THEN Append(uiTasks, ShowTask(key[c], b, receivers[c]))
                  ELSE uiTasks
    /\ imageLoadingByTag' = [v \in Views |->
            IF v \in receivers[c] THEN 0 ELSE imageLoadingByTag[v]]
    /\ receivers' = [receivers EXCEPT ![c] = {}]
    /\ imageLoadingByUrl' = IF c \in remote
                            THEN [imageLoadingByUrl EXCEPT ![UrlOf[key[c]]] = 0]
                            ELSE imageLoadingByUrl
    /\ imageLoadingByKeys' = [imageLoadingByKeys EXCEPT ![key[c]] = 0]
    /\ excused' = IF b = 0 THEN excused \cup receivers[c] ELSE excused
    /\ loaderTasks' = Tail(loaderTasks)
    /\ UNCHANGED <<key, remote, decoder, files>>
    /\ LoaderFrame

\* fileDidFailedLoad: whoever waits for the file by now is let down.
FileDidFailedLoad ==
    /\ FirstTask("file") /\ ~Head(loaderTasks).ok
    /\ LET c == imageLoadingByUrl[Head(loaderTasks).url] IN
       \/ c # 0 /\ SetImageAndClear(c, 0)
       \/ /\ c = 0
          /\ loaderTasks' = Tail(loaderTasks)
          /\ UNCHANGED <<maps, images, uiTasks, decoder, files, excused>>
          /\ LoaderFrame

SetDecoded ==
    /\ FirstTask("set")
    /\ SetImageAndClear(Head(loaderTasks).load, Head(loaderTasks).bitmap)

-----------------------------------------------------------------------------
(* cacheOutQueue.                                                          *)

\* CacheOutTask.run looks at the cancellation when it starts ...
Decode ==
    /\ decoding = 0 /\ decodeTasks # <<>>
    /\ decoding' = IF Head(decodeTasks) \in isCancelled THEN 0 ELSE Head(decodeTasks)
    /\ decodeTasks' = Tail(decodeTasks)
    /\ UNCHANGED <<views, cache, maps, images, uiTasks, loaderTasks, isCancelled, files,
                   calls, history>>

\* ... and ends with a bitmap or without one, even if it was cancelled since.
EndDecode(ok) ==
    /\ decoding # 0
    /\ uiTasks' = Append(uiTasks, DecodedTask(decoding, IF ok THEN decoding ELSE 0))
    /\ decoding' = 0
    /\ UNCHANGED <<views, cache, maps, images, loaderTasks, decodeTasks, isCancelled,
                   files, calls, history>>

-----------------------------------------------------------------------------
(* FileLoader: a download ends, unless it is cancelled, and the delegate    *)
(* posts its end to the main thread.                                        *)

EndDownload(u, ok) ==
    /\ u \in downloading
    /\ downloading' = downloading \ {u}
    /\ present' = IF ok THEN present \cup {u} ELSE present
    /\ uiTasks' = Append(uiTasks, FileTask(u, ok))
    /\ UNCHANGED <<views, cache, maps, images, loaderTasks, decoder, calls, history>>

-----------------------------------------------------------------------------
(* The tasks of the main thread.                                           *)

FirstUi(kind) == uiTasks # <<>> /\ Head(uiTasks).kind = kind

UiFileTask ==
    /\ FirstUi("file")
    /\ loaderTasks' = Append(loaderTasks, Head(uiTasks))
    /\ uiTasks' = Tail(uiTasks)
    /\ UNCHANGED <<views, cache, maps, images, decoder, files, calls, history>>

\* The end of a decoding: the bitmap is entered into the cache, or recycled if
\* the cache has one of its key.
Decoded ==
    /\ FirstUi("decoded")
    /\ LET c   == Head(uiTasks).load
           b   == Head(uiTasks).bitmap
           hit == Cached(lru, key[c])
           put == Append(lru, b)
       IN
       /\ \/ /\ b = 0
             /\ UNCHANGED cache
             /\ loaderTasks' = Append(loaderTasks, SetTask(c, 0))
          \/ /\ b # 0 /\ hit # 0
             /\ recycled' = recycled \cup {b}
             /\ lru' = Touch(lru, key[c])
             /\ loaderTasks' = Append(loaderTasks, SetTask(c, hit))
             /\ UNCHANGED bitmapUseCounts
          \/ /\ b # 0 /\ hit = 0
             /\ lru' = Trimmed(put)
             /\ recycled' = recycled \cup Unused(ToSet(put) \ ToSet(lru'), bitmapUseCounts)
             /\ loaderTasks' = Append(loaderTasks, SetTask(c, b))
             /\ UNCHANGED bitmapUseCounts
    /\ uiTasks' = Tail(uiTasks)
    /\ UNCHANGED <<views, maps, images, decoder, files, calls, history>>

\* setImageBitmapByKey of the views that have the key still.
Show ==
    /\ FirstUi("show")
    /\ LET t  == Head(uiTasks)
           vs == {v \in t.views : currentKey[v] = t.key}
       IN
       /\ currentImage' = [v \in Views |-> IF v \in vs THEN t.bitmap ELSE currentImage[v]]
       /\ bitmapUseCounts' = [bitmapUseCounts EXCEPT ![t.key] = @ + Cardinality(vs)]
       /\ tainted' = IF vs # {} /\ t.bitmap \in recycled THEN tainted \cup {t.key}
                     ELSE tainted
       /\ doubled' = IF \E v \in vs : currentImage[v] # 0 THEN doubled \cup {t.key}
                     ELSE doubled
    /\ uiTasks' = Tail(uiTasks)
    /\ UNCHANGED <<currentKey, canceledLoading, lru, recycled, maps, images,
                   loaderTasks, decoder, files, calls, excused>>

-----------------------------------------------------------------------------
Users ==
    \/ ClearMemory
    \/ \E v \in Views :
        \/ \E k \in Keys : SetImage(v, k)
        \/ SetImageAgain(v)
        \/ \E detached \in BOOLEAN : ClearImage(v, detached)
        \/ CancelLoadImage(v)
        \/ DrawError(v)

ImageLoadQueue ==
    \/ CancelLoading
    \/ AlreadyAdded \/ JoinOrCreate
    \/ FileDidLoaded \/ FileDidFailedLoad
    \/ SetDecoded

CacheOutQueue == Decode \/ \E ok \in BOOLEAN : EndDecode(ok)

Downloads == \E u \in Urls, ok \in BOOLEAN : EndDownload(u, ok)

UiThread == UiFileTask \/ Decoded \/ Show

Next == Users \/ ImageLoadQueue \/ CacheOutQueue \/ Downloads \/ UiThread

Spec == Init /\ [][Next]_vars

-----------------------------------------------------------------------------
(* Properties.                                                             *)

UiTask ==
    [kind : {"decoded"}, load : Loads, bitmap : Loads \cup {0}]
        \cup [kind : {"show"}, key : Keys, bitmap : Loads, views : SUBSET Views]
        \cup [kind : {"file"}, url : Urls, ok : BOOLEAN]

LoaderTask ==
    [kind : {"load"}, view : Views, key : Keys]
        \cup [kind : {"cancel"}, view : Views]
        \cup [kind : {"set"}, load : Loads, bitmap : Loads \cup {0}]
        \cup [kind : {"file"}, url : Urls, ok : BOOLEAN]

TypeOK ==
    /\ currentKey \in [Views -> Keys \cup {None}]
    /\ currentImage \in [Views -> Loads \cup {0}]
    /\ canceledLoading \in [Views -> BOOLEAN]
    /\ lru \in Seq(Created) /\ Len(lru) <= Capacity
    /\ bitmapUseCounts \in [Keys -> Nat] /\ recycled \subseteq Created
    /\ imageLoadingByUrl \in [Urls -> Loads \cup {0}]
    /\ imageLoadingByKeys \in [Keys -> Loads \cup {0}]
    /\ imageLoadingByTag \in [Views -> Loads \cup {0}]
    /\ key \in [Loads -> Keys \cup {None}] /\ remote \subseteq Created
    /\ receivers \in [Loads -> SUBSET Views]
    /\ uiTasks \in Seq(UiTask) /\ loaderTasks \in Seq(LoaderTask)
    /\ decodeTasks \in Seq(Created) /\ decoding \in Created \cup {0}
    /\ isCancelled \subseteq Created
    /\ downloading \subseteq Urls /\ present \subseteq Urls
    /\ calls \in 0..MaxCalls
    /\ excused \subseteq Views /\ tainted \subseteq Keys /\ doubled \subseteq Keys

\* A bitmap is not recycled while it is in the cache, and none is recycled
\* while a view shows it, as long as no view was handed one of its key that
\* had been recycled on its way from the cache through imageLoadQueue: the
\* eviction on that way is the one hole in the counting of views.
ShownIsAlive ==
    /\ \A b \in ToSet(lru) : b \notin recycled
    /\ \A v \in Views : Holds(v) /\ currentImage[v] \in recycled
                            => currentKey[v] \in tainted

\* The use count of a key is the number of views that show it.  It is larger
\* only if a view dropped an image, or was handed one more, without the count
\* being given back, so that bitmaps of the key are never recycled.
CountsAreViews ==
    \A k \in Keys \ tainted :
        LET shown == {v \in Views : currentKey[v] = k /\ currentImage[v] # 0} IN
        /\ bitmapUseCounts[k] >= Cardinality(shown)
        /\ bitmapUseCounts[k] > Cardinality(shown) => k \in doubled

\* What will still end the load c.
Pending(c) ==
    \/ c \in ToSet(decodeTasks) \/ decoding = c
    \/ \E t \in ToSet(uiTasks) : t.kind = "decoded" /\ t.load = c
    \/ \E t \in ToSet(loaderTasks) : t.kind = "set" /\ t.load = c
    \/ /\ c \in remote /\ imageLoadingByUrl[UrlOf[key[c]]] = c
       /\ \/ UrlOf[key[c]] \in downloading
          \/ \E t \in ToSet(uiTasks) \cup ToSet(loaderTasks) :
                t.kind = "file" /\ t.url = UrlOf[key[c]]

\* A view that has a key and no image is on its way to one, in whichever queue
\* or map, although loads are entered and forgotten by name: a task will look
\* its key up, or hand it the bitmap, or end a load it is in.  Excused are the
\* views whose load was cancelled or failed, or that were put into a download
\* for another key of the same file, whose bitmap they do not take.
NobodyIsForgotten ==
    \A v \in Views : currentKey[v] # None /\ currentImage[v] = 0 /\ v \notin excused =>
        \/ \E i \in DOMAIN loaderTasks : loaderTasks[i] = LoadTask(v, currentKey[v])
        \/ \E t \in ToSet(uiTasks) :
                t.kind = "show" /\ t.key = currentKey[v] /\ v \in t.views
        \/ \E c \in Created : v \in receivers[c] /\ key[c] = currentKey[v] /\ Pending(c)
===============================================================================
