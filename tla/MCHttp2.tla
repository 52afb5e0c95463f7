------------------------------- MODULE MCHttp2 -------------------------------
(* Settings and bodies for the runs of Http2. *)
EXTENDS Http2

None == [iw |-> Unset, mc |-> Unset]
Window(n) == [iw |-> n, mc |-> Unset]
Streams(n) == [iw |-> Unset, mc |-> n]

NoSettings == [p \in Sides |-> None]
OneStream == [p \in Sides |-> IF p = "s" THEN Streams(1) ELSE None]
ClientShrinks == [p \in Sides |-> IF p = "c" THEN {Window(1)} ELSE {}]
ServerShrinks == [p \in Sides |-> IF p = "s" THEN {Window(1)} ELSE {}]

\* Requests without a body and responses of three octets; requests of five.
Download == [p \in Sides |-> IF p = "s" THEN 3 ELSE 0]
Upload == [p \in Sides |-> IF p = "s" THEN 1 ELSE 5]
=============================================================================
