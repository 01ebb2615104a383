-------------------------------- MODULE Ranges --------------------------------
(***************************************************************************)
(* One request to the media server: RangeHandler.send_head and copyfile    *)
(* (bootstrap/range_server.py), for every size of a file and every Range   *)
(* header up to a bound.  A byte of the file is its offset.                *)
(***************************************************************************)
EXTENDS Integers

CONSTANTS
    MaxSize,  \* bound on the size of the file
    MaxByte,  \* bound on the bytes that a header names
    Chunk     \* bytes that are copied at a time

BoundsAssumption == MaxSize \in Nat /\ MaxByte \in Nat /\ Chunk \in Nat \ {0}

Least(a, b) == IF a < b THEN a ELSE b

\* bytes=first-last, bytes=first- (open), or another form of the header.
Headers == [form: {"closed", "open", "other"}, first: 0 .. MaxByte, last: 0 .. MaxByte]

VARIABLES
    size, header,
    reply,      \* the status: "none", 206 or 416
    remaining,  \* what is left of the Content-Length
    position,   \* where the file is read next
    sent,       \* the bytes that were sent
    done

vars == <<size, header, reply, remaining, position, sent, done>>

End == Least(IF header.form = "closed" THEN header.last ELSE size - 1, size - 1)
Satisfiable == header.form # "other" /\ header.first <= End /\ End < size

Head ==
    /\ reply = "none"
    /\ IF Satisfiable
       THEN /\ reply' = "206" /\ done' = FALSE
            /\ position' = header.first /\ remaining' = End - header.first + 1
       ELSE reply' = "416" /\ done' = TRUE /\ UNCHANGED <<position, remaining>>
    /\ UNCHANGED <<size, header, sent>>

\* Mutant: whole chunks are read.
DataWhole == Least(Chunk, size - position)

\* What one read of the file returns.
Data == Least(Least(remaining, Chunk), size - position)
Copy ==
    /\ reply = "206" /\ remaining > 0 /\ Data > 0
    /\ sent' = sent \cup position .. (position + Data - 1)
    /\ position' = position + Data /\ remaining' = remaining - Data
    /\ UNCHANGED <<size, header, reply, done>>

\* Mutant: the loop does not see that nothing remains.
FinishLate ==
    /\ reply = "206" /\ ~done /\ remaining < 0
    /\ done' = TRUE
    /\ UNCHANGED <<size, header, reply, remaining, position, sent>>

Finish ==
    /\ reply = "206" /\ ~done /\ (remaining <= 0 \/ Data <= 0)
    /\ done' = TRUE
    /\ UNCHANGED <<size, header, reply, remaining, position, sent>>

Init ==
    /\ size \in 0 .. MaxSize /\ header \in Headers
    /\ reply = "none" /\ remaining = 0 /\ position = 0 /\ sent = {} /\ done = FALSE

Next == Head \/ Copy \/ Finish
Spec == Init /\ [][Next]_vars /\ WF_vars(Next)
-----------------------------------------------------------------------------
\* The bytes that a header asks for, as HTTP defines them.
Asked == {b \in 0 .. (size - 1) :
              b >= header.first /\ (header.form = "closed" => b <= header.last)}

\* A reply ends with exactly the bytes that were asked for, and is an error
\* only if the file has none of them: first and last bytes, ranges beyond the
\* end, open ranges and empty files (range_server.py:33-46, 54-59).
Slices ==
    done /\ header.form # "other" =>
        /\ sent = Asked
        /\ reply = (IF Asked = {} THEN "416" ELSE "206")

\* Every request is answered.
Answered == <>done
=============================================================================
