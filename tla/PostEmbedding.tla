--------------------------- MODULE PostEmbedding ---------------------------
(***************************************************************************)
(* The vector of a post: build_post_embedding of                            *)
(* src/mir/processing/embeddings.py over the text and tag vectors of        *)
(* TextProcessor.process_post and the image vector of ImageProcessor, put   *)
(* together as process_and_index_post does.  A vector is the set of what it *)
(* is the weighted mean of, by its parts.                                   *)
(***************************************************************************)
EXTENDS TextProcessor, ImageProcessor

CONSTANT Tag    \* the tags a post may have

ASSUME NaNAssumption == "NaN" \notin Image

\* process_post: no text, no vector; a long one is the mean of its passages,
\* each as far as the encoder reads it.
TextEmbedding(tokens) == Embedded(tokens, ENCODER_TOKENS)

\* embed_tags: the mean of the tags, each embedded on its own; zeros for none.
TagEmbedding(tags) == tags

\* The mean of no rows.
NaN == {"NaN"}

\* None without image files; otherwise the mean of the rows, be there any or not.
ImageEmbedding(paths, cache) ==
    LET rows == ToSet(EmbedImagesBatch(paths, cache))
    IN  IF paths # <<>> /\ rows = {} THEN NaN ELSE rows

\* The weights are positive; a part that is zero or None adds nothing, and one
\* that is not a number leaves nothing of the others.
BuildPostEmbedding(text, image, tags) ==
    IF image = NaN THEN [text |-> {}, image |-> NaN, tags |-> {}]
    ELSE [text |-> text, image |-> image, tags |-> tags]

PostEmbedding(tokens, paths, tags, cache) ==
    BuildPostEmbedding(TextEmbedding(tokens), ImageEmbedding(paths, cache), TagEmbedding(tags))

(* The vector of a post is made of everything the post has: every tag, for  *)
(* each image that can be opened that image or one that looks like it, and  *)
(* its text, the whole of it when the encoder reads as much as a window     *)
(* holds and in any case the start.  The exception is a post all of whose   *)
(* image files cannot be opened: its text and its tags are lost, since the  *)
(* mean of no rows is not a number (embeddings.py:313-344, 60-100).         *)
EmbeddingWhole ==
    \A tokens \in 0 .. MaxTokens, paths \in BoundedSeq(Image, MaxImages),
       tags \in SUBSET Tag, cache \in Caches :
        LET vector == PostEmbedding(tokens, paths, tags, cache)
            read == ToSet(paths) \cap Readable
        IN  IF paths # <<>> /\ read = {} THEN vector.image = NaN /\ vector.text = {}
            ELSE /\ ENCODER_TOKENS >= WINDOW_TOKENS => UNION vector.text = 0 .. tokens - 1
                 /\ tokens > 0 => 0 \in UNION vector.text
                 /\ UNION vector.text \subseteq 0 .. tokens - 1
                 /\ vector.tags = tags
                 /\ {Phash[x] : x \in vector.image} = {Phash[x] : x \in read}
=============================================================================
