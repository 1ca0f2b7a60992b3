------------------------- MODULE MCReceptorProtocol -------------------------
(***************************************************************************)
(* Small instances of ReceptorProtocol for TLC.                            *)
(***************************************************************************)
EXTENDS ReceptorProtocol

CONSTANT RouteWords     \* the sets of words the ROUTE messages contain

Json(id, words, size) == [id |-> id, words |-> words, size |-> size, json |-> TRUE]

Malformed(id) == [id |-> id, words |-> {"HI"}, size |-> 1, json |-> FALSE]

\* A node may be called ROUTE; a payload may say anything.
HiMessages == [type : {"hi"}, data : {Json("hi", {"HI", "ROUTE"}, 2)}]

RouteMessages == {[type |-> "route", data |-> Json("route", w, 1)] : w \in RouteWords}

PayloadMessages == [type : {"payload"}, routing : {Json("routing", {"HI"}, 2)},
                    data : {Json("job", {"HI"}, 1)}]

MCMessage == HiMessages \cup RouteMessages \cup PayloadMessages

\* A frame whose header states another length than that of its data.
Stating(length, f) == [f EXCEPT !.length = length]

Routing == Frame(HeaderFrameType, Json("routing", {}, 2))
Job == Frame(PayloadFrameType, Json("job", {}, 1))
Hi == Frame(CommandFrameType, Json("hi", {"HI"}, 2))

\* The last five ReadMessage accepts.
MCRaw == [type : {"raw"}, frames : {
    <<>>,
    <<Frame(3, Json("unknown type", {}, 1))>>,
    <<Frame(CommandFrameType, Malformed("command"))>>,
    <<Frame(CommandFrameType, Json("unknown command", {}, 1))>>,
    <<Frame(HeaderFrameType, Malformed("routing")), Job>>,
    <<Routing, Frame(PayloadFrameType, Malformed("job"))>>,
    <<Routing, Hi>>,
    <<Routing>>,
    <<Stating(0, Hi)>>, <<Stating(1, Hi)>>, <<Stating(3, Hi)>>, <<Stating(3, Hi), Hi>>,
    <<Stating(1, Routing), Job>>, <<Stating(4, Routing), Job>>, <<Stating(4, Routing), Job, Job>>,
    <<Routing, Stating(0, Job)>>, <<Routing, Stating(2, Job)>>, <<Routing, Stating(2, Job), Hi>>,
    <<Job>>, <<Job, Job>>,
    <<Routing, Job, Hi>>, <<Hi, Routing, Job>>, <<Hi, Stating(5, Hi)>>}]
=============================================================================
