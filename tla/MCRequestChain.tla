---------------------------- MODULE MCRequestChain ----------------------------
(* RequestChain with two requests, one request per window, and a token for
   each way it can be refused or accepted. *)
EXTENDS RequestChain

Token(signed, fresh, iss, aud, sub, scope) ==
  [signed |-> signed, fresh |-> fresh, iss |-> iss, aud |-> aud, sub |-> sub, scope |-> scope]

MCTokens(sub) ==
  { Token(TRUE, TRUE, TRUE, "ours", sub, {}),
    Token(TRUE, TRUE, TRUE, "ours", sub, {"write"}),
    Token(TRUE, TRUE, TRUE, "ours", sub, NotString),
    Token(TRUE, TRUE, TRUE, "other", sub, {"write"}),
    Token(TRUE, TRUE, TRUE, "absent", sub, {"write"}),
    Token(TRUE, TRUE, FALSE, "ours", sub, {"write"}),
    Token(TRUE, FALSE, TRUE, "ours", sub, {"write"}),
    Token(FALSE, TRUE, TRUE, "ours", sub, {"write"}),
    Token(TRUE, TRUE, TRUE, "ours", Nobody, {"write"}) }

MCTokenChoices == {NoToken} \cup MCTokens("ann") \cup MCTokens("ben")

MCAnn == Token(TRUE, TRUE, TRUE, "ours", "ann", {"write"})
MCBen == Token(TRUE, TRUE, TRUE, "absent", "ben", {"write"})

(* Every token with a POST /mask that is otherwise in order, every disorder of it
   with three tokens, and the other paths with these. *)
MCIncoming ==
  [path : {"mask"}, json : {TRUE}, body : {TRUE}, token : MCTokenChoices]
    \cup
  [path : {"mask"}, json : BOOLEAN, body : BOOLEAN, token : {NoToken, MCAnn, MCBen}]
    \cup
  [path : {"root", "health", "metrics", "none"}, json : {TRUE}, body : {TRUE},
   token : {NoToken, MCAnn, MCBen}]

MCLimits == [mask |-> 1, root |-> 1, health |-> 1]

=============================================================================
