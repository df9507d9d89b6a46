------------------------------ MODULE MCIndex ------------------------------
(***************************************************************************)
(* A small instance of PostIndexer: three posts of one account.  Two may be *)
(* indexed, when the third is NSFW, and a window of one makes the later of  *)
(* the two push the earlier out.  The functions that make the vectors are   *)
(* checked with it: texts of up to four windows, of which the encoder reads *)
(* any part, and posts of up to three images, one of which cannot be opened *)
(* and two of which look alike.                                             *)
(***************************************************************************)
EXTENDS PostIndexer, PostEmbedding, TLC

ThreePosts == 1 .. 3
OneOwner == [p \in ThreePosts |-> CHOOSE a \in Account : TRUE]
Below == {{1, 2}, ThreePosts}
Images == {"cat", "cat2", "dog", "broken"}
Opened == Images \ {"broken"}
Tags == {"sea", "art"}
Hashes == [cat |-> 1, cat2 |-> 1, dog |-> 2]
Symmetric == Permutations(Api) \cup Permutations(Indexer)

\* TLC evaluates the two functions on all their inputs before the first step.
Untouched == jobs = 0 /\ upsets = 0 /\ \A a \in Api : api[a].pc = "down"

(* The windows of a long text hold all of it, none of it twice without      *)
(* need, and an encoder that reads less than a window loses no more than    *)
(* the tails (text.py:139-156, 193-223).                                    *)
TextsCovered == Untouched => ChunksCover

(* Neither the cache nor an unreadable image moves the row of another       *)
(* image, and the vector of a post is made of all of its parts, the text as *)
(* far as the encoder reads it                                              *)
(* (images.py:205-276, embeddings.py:313-344).                              *)
ImagesAligned == Untouched => BatchAligned /\ EmbeddingWhole
=============================================================================
