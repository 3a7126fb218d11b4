---------------------------- MODULE PolicyMasking ----------------------------
(***************************************************************************)
(* What masking one document under one policy computes, as the services    *)
(* around it use it.  A document is the text of each maskable field, and a *)
(* policy the fields that its entries without namespace prefix name; the   *)
(* tree walk that computes Masked and TokenMap is MaskXml, whose           *)
(* MaskedUnlessPrefixed and Reversible say that these are its results.     *)
(***************************************************************************)
CONSTANTS
  Fields,   \* field types a policy can name
  Values,   \* original texts
  TokenOf   \* tokenize: <<field, value>> -> token

(* 64 bits of SHA-256 tell the fields of a document apart, and no document
   arrives with tokens in it, whether of its own values or of others (MaskXml
   and its UndoneByTheResponse have such documents too). *)
ASSUME TokenAssumption ==
  /\ \A p, q \in Fields \X Values : TokenOf[p] = TokenOf[q] => p = q
  /\ \A p \in Fields \X Values : TokenOf[p] \notin Values

Tokens == { TokenOf[p] : p \in Fields \X Values }

Documents == [Fields -> Values]

MaskedDocuments == [Fields -> Values \cup Tokens]

(* masked_xml: the sensitive texts replaced, the others as they were. *)
Masked(doc, fs) ==
  [f \in Fields |-> IF f \in fs THEN TokenOf[<<f, doc[f]>>] ELSE doc[f]]

(* token_map: token -> <<original value, field type>>. *)
TokenMap(doc, fs) ==
  [t \in { TokenOf[<<f, doc[f]>>] : f \in fs } |->
     LET f == CHOOSE g \in fs : TokenOf[<<g, doc[g]>>] = t
     IN  <<doc[f], f>>]

(* What a caller does with a masked document and the tokens of its response. *)
Unmask(masked, tokens) ==
  [f \in Fields |-> IF masked[f] \in DOMAIN tokens THEN tokens[masked[f]][1] ELSE masked[f]]

=============================================================================
