---------------------------- MODULE ResultPages ----------------------------
(***************************************************************************)
(* The text of a result as a client reads it: result_page_bounds,          *)
(* task_result_view and bound_wait_result (crates/zcode-agentd/src/rpc.rs) *)
(* behind the wait and result tools of the facade (mcp.rs).  Offsets are   *)
(* bytes and the text is UTF-8: a page may not cut a character in two      *)
(* (the slice would panic) and must get further.  Between two pages the    *)
(* task may be resumed and end again with another text.                    *)
(*                                                                         *)
(* A text is a sequence of bytes; the first byte of a character is one of  *)
(* Letters, the bytes that continue it are Rest.  The result_sha256 of a   *)
(* text is the text itself.                                                *)
(***************************************************************************)
EXTENDS Naturals, Sequences, SequencesExt

CONSTANTS
    Letters,    \* first bytes of characters
    Rest,       \* a byte that continues a character
    Width,      \* the most bytes of a character, 4 in UTF-8
    MaxBytes,   \* bound on the length of a text
    Limits,     \* the limits clients ask for, 1 .. MAX_RESULT_CHUNK_BYTES
    Chunk,      \* MAX_RESULT_CHUNK_BYTES
    Frame,      \* the longest text that fits a frame of MAX_RESPONSE_FRAME_BYTES
    MaxTexts,   \* bound on the texts the task ends with
    None        \* no next_offset

\* is_char_boundary
IsBoundary(t, offset) ==
    offset \in {0, Len(t)} \/ (offset \in DOMAIN t /\ t[offset + 1] # Rest)

\* UTF-8: no character has more than Width bytes
Texts ==
    {t \in BoundedSeq(Letters \cup {Rest}, MaxBytes) :
        \A i \in DOMAIN t : \E j \in 1 .. i : i - j < Width /\ t[j] # Rest}

TextBounds ==
    /\ Rest \notin Letters /\ {Width, MaxBytes, Frame, MaxTexts} \subseteq Nat
    /\ Limits \subseteq 1 .. Chunk /\ Chunk \in Nat /\ Chunk >= Width
    /\ None \notin Nat /\ None \notin Texts

VARIABLES
    text,       \* final_text of the stored result
    texts,      \* how many texts there were
    next,       \* the offset the client asks for next, None when there is no more
    got,        \* the pages it put together
    sha,        \* result_sha256 of its first page
    refused,    \* it got an error, or a page of another text
    limit       \* the limit it asks for

vars == <<text, texts, next, got, sha, refused, limit>>

Init ==
    /\ text \in Texts /\ texts = 1
    /\ next = 0 /\ got = << >> /\ sha = None /\ refused = FALSE
    /\ limit \in Limits

\* The task is resumed and ends with another text
Rewrite(new) ==
    /\ texts < MaxTexts /\ new # text
    /\ text' = new /\ texts' = texts + 1
    /\ UNCHANGED <<next, got, sha, refused, limit>>

\* Mutant of End: offset + limit is the end, boundary or not
EndAnywhere(t, offset, most) ==
    IF offset + most < Len(t) THEN offset + most ELSE Len(t)

\* The last boundary at or below offset + most, and never below offset
End(t, offset, most) ==
    CHOOSE end \in offset .. Len(t) :
        /\ end = offset \/ (end <= offset + most /\ IsBoundary(t, end))
        /\ \A other \in end + 1 .. Len(t) : other > offset + most \/ ~IsBoundary(t, other)

\* Mutant of Invalid: a limit below the width of a character gives an empty page
InvalidOffsetOnly(t, offset, most) == offset > Len(t) \/ ~IsBoundary(t, offset)

\* An offset outside the text or inside a character; a limit below the width of
\* the character at the offset
Invalid(t, offset, most) ==
    \/ offset > Len(t) \/ ~IsBoundary(t, offset)
    \/ (End(t, offset, most) = offset /\ offset < Len(t))

\* What the client does with bytes offset + 1 .. end of the text: text[offset..end]
Take(offset, end) ==
    IF sha \in {None, text}
    THEN /\ got' = got \o SubSeq(text, offset + 1, end)
         /\ next' = IF end < Len(text) THEN end ELSE None
         /\ sha' = text
         /\ UNCHANGED refused
    ELSE refused' = TRUE /\ UNCHANGED <<next, got, sha>>

\* RpcMethod::TaskResult
Result ==
    /\ next # None /\ ~refused
    /\ IF Invalid(text, next, limit)
       THEN refused' = TRUE /\ UNCHANGED <<next, got, sha>>
       ELSE Take(next, End(text, next, limit))
    /\ UNCHANGED <<text, texts, limit>>

\* Mutant of Wait: the first page says that it is complete
WaitComplete ==
    /\ next = 0 /\ sha = None /\ ~refused
    /\ got' = SubSeq(text, 1, IF Len(text) > Frame THEN End(text, 0, Chunk) ELSE Len(text))
    /\ next' = None /\ sha' = text
    /\ UNCHANGED <<text, texts, refused, limit>>

\* bound_wait_result: the whole text with a wait, or its first page
Wait ==
    /\ next = 0 /\ sha = None /\ ~refused
    /\ Take(0, IF Len(text) > Frame THEN End(text, 0, Chunk) ELSE Len(text))
    /\ UNCHANGED <<text, texts, limit>>

Read == Wait \/ Result

Next == Read \/ \E new \in Texts : Rewrite(new)

Spec == Init /\ [][Next]_vars

\* A client that asks while it is given a next_offset
FairSpec == Spec /\ WF_vars(Read)

----------------------------------------------------------------------------
(* Properties.                                                             *)

\* What the client has is always a prefix of one text, cut between characters:
\* no page slices a character in two or mixes two texts.
PagesAreWhole ==
    sha # None => IsPrefix(got, sha) /\ IsBoundary(sha, Len(got))

\* A client that was told there is no more has the whole text.
CompleteMeansAll == next = None => got = sha

\* Every page gets further, so reading ends: with the text or with an error.
ReadingEnds == sha # None ~> next = None \/ refused
============================================================================
