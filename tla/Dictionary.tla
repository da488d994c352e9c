----------------------------- MODULE Dictionary -----------------------------
(***************************************************************************)
(* What the dictionary promises: a bag of words, which each call reads and *)
(* changes at once, and a result that tells what it found.                 *)
(***************************************************************************)
EXTENDS Integers

CONSTANT Words

VARIABLES
    words,  \* how many times each word is in it
    ret     \* the last call, and its result: 0, or positive

dvars == <<words, ret>>

Empty == [w \in Words |-> 0]

Init == words = Empty /\ ret = [call |-> "none", word |-> 0, result |-> 0]

Returns(call, w, yes) == ret' = [call |-> call, word |-> w, result |-> IF yes THEN 1 ELSE 0]

In(w) == words[w] > 0

Initw == words' = Empty /\ Returns("initw", 0, TRUE)

Insertw(w) == words' = [words EXCEPT ![w] = @ + 1] /\ Returns("insertw", w, TRUE)

Deletew(w) ==
    /\ words' = IF In(w) THEN [words EXCEPT ![w] = @ - 1] ELSE words
    /\ Returns("deletew", w, In(w))

Lookupw(w) == UNCHANGED words /\ Returns("lookupw", w, In(w))

Next == Initw \/ \E w \in Words : Insertw(w) \/ Deletew(w) \/ Lookupw(w)

Spec == Init /\ [][Next]_dvars
=============================================================================
