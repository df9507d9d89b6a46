--------------------------- MODULE TextProcessor ---------------------------
(***************************************************************************)
(* The windows a long post is embedded in, and what the encoder reads of    *)
(* them: _chunk_text and _embed_with_chunking of                            *)
(* src/mir/processing/text.py.  A text is the number of its tokens.  A      *)
(* window goes to the encoder as a string, which it turns into tokens again *)
(* and cuts at a length of its own.                                         *)
(***************************************************************************)
EXTENDS Integers

CONSTANTS
    WINDOW_TOKENS,  \* 512
    OVERLAP_TOKENS, \* 64
    ENCODER_TOKENS, \* of a string, the tokens the encoder is sure to read: its
                    \* limit less the special tokens it adds, and less what a
                    \* window grows by when it is decoded and encoded again
    MaxTokens       \* bound: length of the texts that are tried

ASSUME TextAssumption ==
    /\ WINDOW_TOKENS \in Nat /\ OVERLAP_TOKENS \in Nat /\ OVERLAP_TOKENS < WINDOW_TOKENS
    /\ ENCODER_TOKENS \in Nat \ {0} /\ MaxTokens \in Nat

Step == WINDOW_TOKENS - OVERLAP_TOKENS

\* Mutant: goes on after the window that reached the last token.
StartsAll(n) == {k * Step : k \in {j \in 0 .. n : j * Step < n}}

\* Where windows start: while start < n, until one has reached the end.
Starts(n) == {k * Step : k \in {j \in 0 .. n : j * Step < n /\ (j = 0 \/ (j - 1) * Step + WINDOW_TOKENS < n)}}

End(start, n) == IF start + WINDOW_TOKENS < n THEN start + WINDOW_TOKENS ELSE n

\* The tokens of the strings that are encoded; an empty text is not embedded.
Passages(n) ==
    IF n = 0 THEN {} ELSE IF n <= WINDOW_TOKENS THEN {0 .. n - 1}
    ELSE {start .. End(start, n) - 1 : start \in Starts(n)}

\* What an encoder that reads `limit` tokens is sure to read of a passage.
ReadOf(passage, limit) == {t \in passage : \A s \in passage : t - s < limit}
Embedded(n, limit) == {ReadOf(c, limit) : c \in Passages(n)}

(* Every token of a text is in a window, none is in three when the overlap  *)
(* is at most half a window, and no window lies within another, which would *)
(* count its tokens twice in the mean: the last may be short, but reaches   *)
(* past the one before it.  An encoder that reads less than a window, as    *)
(* the one the code names does, loses tails of windows and no more: after   *)
(* at most as many tokens as a window is too long by, it reads on, and one  *)
(* that reads a whole window loses nothing (text.py:139-156, 193-223).      *)
ChunksCover ==
    \A n \in 0 .. MaxTokens :
        /\ UNION Passages(n) = 0 .. n - 1
        /\ \A limit \in 1 .. WINDOW_TOKENS :
             LET read == UNION Embedded(n, limit)
             IN  \A t \in (0 .. n - 1) \ read :
                   \E u \in read : u < t /\ t - u <= WINDOW_TOKENS - limit
        /\ \A c, d \in Passages(n) : c \subseteq d => c = d
        /\ 2 * OVERLAP_TOKENS <= WINDOW_TOKENS =>
             \A c, d, e \in Passages(n) : c # d /\ d # e /\ c # e => c \cap d \cap e = {}
=============================================================================
