------------------------------ MODULE MCMaskXml ------------------------------
(* MaskXml on every document of up to three elements. *)
EXTENDS MaskXml

CONSTANT alice

MCNames == {"Resource", "Name", "NAME"}

(* A text, and the token it has as a Name: a document masked before. *)
MCValues == { alice, [type |-> "NAME", hash |-> <<"Name", alice>>] }

(* "Name" and "NAME" differ as XML tags and share their upper case. *)
MCUpper == [n \in MCNames |-> IF n = "Resource" THEN "RESOURCE" ELSE "NAME"]

MCDigest == [p \in MCNames \X Values |-> p]

(* Entries with a prefix: "p6:Name", "Resource/p6:Name", and "{http://x}Name",
   whose uri has slashes. *)
MCPieces == MCNames \cup {"p6:Name", "{http:", "", "x}Name"}

Prefixed == {<<"p6:Name">>, <<"Resource", "p6:Name">>, <<"{http:", "", "x}Name">>}

(* No field; bare; scoped; both; and "a/b/c", which split("/", 1) accepts. *)
MCFieldLists ==
  { {}, {<<"Name">>}, {<<"NAME">>, <<"Name">>}, {<<"Resource", "NAME">>, <<"Name">>},
    {<<"Resource", "Name", "NAME">>}, Prefixed,
    {<<"Resource", "Name">>, <<"p6:Name">>}, {<<"NAME">>, <<"Resource", "p6:Name">>} }

MCStrip ==
  [f \in UNION MCFieldLists |->
     CASE f = <<"Resource", "p6:Name">> -> <<"Resource", "Name">>
       [] f \in {<<"p6:Name">>, <<"{http:", "", "x}Name">>} -> <<"Name">>
       [] OTHER -> f]
=============================================================================
