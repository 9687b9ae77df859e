------------------------------ MODULE MCGuest ------------------------------
(* The instance of Guest that TLC checks. *)
EXTENDS Guest, TLC

MCLines == [s \in {"stdout", "stderr"} |-> 2]

\* A workspace file; a file of the image; an overlay file in a link's target;
\* a link that leads to itself.
NoLink == [p \in Files |-> Nil]
MCLayouts ==
    LET p1 == CHOOSE p \in Files : TRUE
        p2 == CHOOSE p \in Files : p # p1 IN
    {[workspace |-> {p1}, image |-> {p2}, links |-> NoLink],
     [workspace |-> {p2}, image |-> {}, links |-> [NoLink EXCEPT ![p1] = p2]],
     [workspace |-> {}, image |-> {p2}, links |-> [NoLink EXCEPT ![p1] = p1]]}

\* One part works at a time, so one exchange may act on the names of several.
Swap(S) == [x \in S |-> CHOOSE y \in S : y # x]
Sym == {Swap(Viewers) @@ Swap(Mounts) @@ Swap(Fids), Swap(Specs) @@ Swap(Tags)}

\* No property speaks of what follows a request sent twice.
NotTwice == ~twice
=============================================================================
