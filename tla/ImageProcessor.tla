--------------------------- MODULE ImageProcessor --------------------------
(***************************************************************************)
(* The embedding of the images of a post with the cache in Redis:           *)
(* embed_image and embed_images_batch of src/mir/processing/images.py.  The *)
(* embedding of an image is the image itself; images that look alike share  *)
(* a phash.                                                                 *)
(***************************************************************************)
EXTENDS Integers, Sequences, SequencesExt

CONSTANTS
    Image,      \* the images
    Readable,   \* those PIL can open
    Phash,      \* Phash[x], for the readable ones
    MaxImages   \* bound: images of a post that are tried

ASSUME ImageAssumption ==
    /\ Readable \subseteq Image /\ DOMAIN Phash = Readable
    /\ MaxImages \in Nat

\* What Redis may hold: for some phashes, the embedding of an image with it.
Caches ==
    UNION {{f \in [hashes -> Readable] : \A h \in hashes : Phash[f[h]] = h} :
              hashes \in SUBSET {Phash[x] : x \in Readable}}

Cached(cache, x) == x \in Readable /\ Phash[x] \in DOMAIN cache

\* embed_image, of an image that can be opened.
EmbedImage(x, cache) == IF Cached(cache, x) THEN cache[Phash[x]] ELSE x

\* The places that go through CLIP; all cache reads come before all writes.
Misses(paths, cache) == {i \in DOMAIN paths : paths[i] \in Readable /\ ~Cached(cache, paths[i])}

\* How many of the first i images can be opened; as Place, the mutant that
\* counts places without the unreadable images.
ReadableUpTo(paths, i) == Cardinality({j \in 1 .. i : paths[j] \in Readable})

\* miss_idx: where the embedding of image i goes.
Place(paths, i) == i

\* results, with the unreadable images left out.
EmbedImagesBatch(paths, cache) ==
    LET Result(i) == IF \E j \in Misses(paths, cache) : Place(paths, j) = i
                       THEN <<paths[CHOOSE j \in Misses(paths, cache) : Place(paths, j) = i]>>
                     ELSE IF Cached(cache, paths[i]) THEN <<cache[Phash[paths[i]]]>> ELSE <<>>
    IN  FlattenSeq([i \in DOMAIN paths |-> Result(i)])

(* Whatever is cached, an unreadable image among the others costs only its  *)
(* own row: there is a row for each readable image, after as many as there  *)
(* are before it, the embedding of an image that looks like it, and a batch *)
(* of one gives what embed_image gives (images.py:205-276).                 *)
BatchAligned ==
    \A paths \in BoundedSeq(Image, MaxImages), cache \in Caches :
        LET rows == EmbedImagesBatch(paths, cache)
        IN  /\ Len(rows) = ReadableUpTo(paths, Len(paths))
            /\ \A i \in DOMAIN paths : paths[i] \in Readable =>
                 Phash[rows[ReadableUpTo(paths, i)]] = Phash[paths[i]]
            /\ Len(paths) = 1 /\ paths[1] \in Readable => rows = <<EmbedImage(paths[1], cache)>>
=============================================================================
