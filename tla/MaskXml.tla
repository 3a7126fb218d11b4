------------------------------- MODULE MaskXml -------------------------------
(***************************************************************************)
(* Masking of one document: MaskingService.mask (app/services/masking.py)  *)
(* calls mask_xml (libs/utils/xml_masking.py), which walks the parsed tree *)
(* in document order and replaces the text of every matching element by    *)
(* tokenize(text, tag) (libs/utils/tokeniser.py), recording each token in  *)
(* token_map.                                                              *)
(*                                                                         *)
(* An XML document is its elements in document order (root.iter()):        *)
(* element 1 is the root and parent[e] < e.  Element text is abstract:     *)
(* Blank stands for None and for whitespace only, a value of Values for    *)
(* any other text.                                                         *)
(***************************************************************************)
EXTENDS Naturals, Sequences, FiniteSets

CONSTANTS
  Names,       \* local tag names
  Namespaces,  \* namespace URIs, or the absence of one
  Values,      \* element texts that are not blank
  Blank,       \* None, or whitespace only
  NoName,      \* the parent name of the root element (None)
  Malformed,   \* bytes that defusedxml refuses to parse
  MaxElements, \* bound: elements of a document
  Pieces,      \* what "/" separates in an entry of a policy: names, and other text
  FieldLists,  \* the values policy.fields takes: sets of "/"-separated entries
  Strip,       \* an entry without its namespace prefixes
  Upper,       \* str.upper() on local names
  Digest       \* the truncated SHA-256 of "<field type>:<value>"

(***************************************************************************)
(* Digest is a function of the pair: a local name contains no ":", so      *)
(* "<type>:<value>" determines both.  That 64 bits of SHA-256 keep the     *)
(* pairs of one document apart is what the docstring of tokenize claims.   *)
(***************************************************************************)
ASSUME DigestAssumption ==
  \A p, q \in Names \X Values : Digest[p] = Digest[q] => p = q

(***************************************************************************)
(* policy.fields is a list of strings that nothing validates: an entry may *)
(* carry a namespace prefix, as "p6:Id" or "{uri}Id" ("/" in the uri       *)
(* splits like any other).  Its pieces are then not all local names, which *)
(* hold no prefix.                                                         *)
(***************************************************************************)
ASSUME NamesAssumption ==
  /\ NoName \notin Pieces
  /\ Blank \notin Values
  /\ MaxElements \in Nat
  /\ Names \subseteq Pieces
  /\ FieldLists \subseteq SUBSET Seq(Pieces)
  /\ \A f \in UNION FieldLists : f \in Seq(Names) => Strip[f] = f

Tags == [ns : Namespaces, local : Names]

(* The trees of n elements: every element but the root has an earlier parent.
   (From four elements on these are more than the trees in document order;
   the loop does not depend on the difference.) *)
DocumentsOf(n) ==
  { d \in [tag : [1..n -> Tags], parent : [1..n -> 0..n], text : [1..n -> Values \cup {Blank}]] :
      \A e \in 1..n : d.parent[e] < e /\ (d.parent[e] = 0 => e = 1) }

Documents == UNION { DocumentsOf(n) : n \in 1..MaxElements }

ASSUME MalformedAssumption == Malformed \notin Documents

Elements(d) == DOMAIN d.tag

VARIABLES
  xml,      \* argument: the fetched bytes, parsed or not parseable
  fields,   \* argument: set(policy.fields)
  status,   \* "called" | "masking" | "returned" | "raised"
  pos,      \* the element the loop visits next
  text,     \* element.text of every element, replaced as the loop goes
  tokenMap, \* token_map: token -> <<original value, field type>>
  result    \* the MaskingResult

vars == <<xml, fields, status, pos, text, tokenMap, result>>

-----------------------------------------------------------------------------
(* libs/utils/tokeniser.py *)

(* Slip: the field type left out of the hashed text. *)
TokenizeUntyped(value, fieldType) ==
  [type |-> Upper[fieldType], hash |-> Digest[<<CHOOSE n \in Names : TRUE, value>>]]

Tokenize(value, fieldType) ==
  [type |-> Upper[fieldType], hash |-> Digest[<<fieldType, value>>]]

(* libs/utils/xml_masking.py *)

LocalName(tag) == tag.local

ParentName(d, e) ==
  IF d.parent[e] = 0 THEN NoName ELSE LocalName(d.tag[d.parent[e]])

BareFields(fs) == { f[1] : f \in { g \in fs : Len(g) = 1 } }

(* Slip: split("/") with its first and last piece. *)
ScopedFieldsLastPart(fs) == { <<f[1], <<f[Len(f)]>>>> : f \in { g \in fs : Len(g) > 1 } }

(* split("/", 1): what follows the first "/" stays one piece. *)
ScopedFields(fs) == { <<f[1], Tail(f)>> : f \in { g \in fs : Len(g) > 1 } }

Matches(d, fs, e) ==
  LET fieldType == LocalName(d.tag[e])
  IN  \/ fieldType \in BareFields(fs)
      \/ <<ParentName(d, e), <<fieldType>>>> \in ScopedFields(fs)

Put(map, key, val) ==
  [k \in DOMAIN map \cup {key} |-> IF k = key THEN val ELSE map[k]]

NoResult == [masked |-> <<>>, token_map |-> <<>>, fields_masked |-> 0, tokens_generated |-> 0]

-----------------------------------------------------------------------------
Init ==
  /\ xml \in Documents \cup {Malformed}
  /\ fields \in FieldLists
  /\ status = "called"
  /\ pos = 1
  /\ text = <<>>
  /\ tokenMap = <<>>
  /\ result = NoResult

(* parse() raises: the exception leaves mask_xml and MaskingService.mask. *)
ParseFails ==
  /\ status = "called"
  /\ xml = Malformed
  /\ status' = "raised"
  /\ UNCHANGED <<xml, fields, pos, text, tokenMap, result>>

Parse ==
  /\ status = "called"
  /\ xml # Malformed
  /\ status' = "masking"
  /\ text' = xml.text
  /\ UNCHANGED <<xml, fields, pos, tokenMap, result>>

(* The two `continue`s of the loop. *)
SkipElement ==
  /\ status = "masking"
  /\ pos \in Elements(xml)
  /\ ~Matches(xml, fields, pos) \/ text[pos] = Blank
  /\ pos' = pos + 1
  /\ UNCHANGED <<xml, fields, status, text, tokenMap, result>>

(* Slip: the element's text is read for the map after it was replaced. *)
ReplaceElementRecordLate ==
  /\ status = "masking"
  /\ pos \in Elements(xml)
  /\ Matches(xml, fields, pos)
  /\ text[pos] # Blank
  /\ LET fieldType == LocalName(xml.tag[pos])
         token     == Tokenize(text[pos], fieldType)
     IN  /\ text' = [text EXCEPT ![pos] = token]
         /\ tokenMap' = Put(tokenMap, token, <<text'[pos], fieldType>>)
  /\ pos' = pos + 1
  /\ UNCHANGED <<xml, fields, status, result>>

(* Slip: the map entry loses the field type. *)
ReplaceElementValueOnly ==
  /\ status = "masking"
  /\ pos \in Elements(xml)
  /\ Matches(xml, fields, pos)
  /\ text[pos] # Blank
  /\ LET token == Tokenize(text[pos], LocalName(xml.tag[pos]))
     IN  /\ tokenMap' = Put(tokenMap, token, <<text[pos]>>)
         /\ text' = [text EXCEPT ![pos] = token]
  /\ pos' = pos + 1
  /\ UNCHANGED <<xml, fields, status, result>>

ReplaceElement ==
  /\ status = "masking"
  /\ pos \in Elements(xml)
  /\ Matches(xml, fields, pos)
  /\ text[pos] # Blank
  /\ LET fieldType == LocalName(xml.tag[pos])
         token     == Tokenize(text[pos], fieldType)
     IN  /\ tokenMap' = Put(tokenMap, token, <<text[pos], fieldType>>)
         /\ text' = [text EXCEPT ![pos] = token]
  /\ pos' = pos + 1
  /\ UNCHANGED <<xml, fields, status, result>>

Return ==
  /\ status = "masking"
  /\ pos \notin Elements(xml)
  /\ status' = "returned"
  /\ result' = [masked           |-> text,
                token_map        |-> tokenMap,
                fields_masked    |-> Cardinality(DOMAIN tokenMap),
                tokens_generated |-> Cardinality(DOMAIN tokenMap)]
  /\ UNCHANGED <<xml, fields, pos, text, tokenMap>>

Next == ParseFails \/ Parse \/ SkipElement \/ ReplaceElement \/ Return

Spec == Init /\ [][Next]_vars

-----------------------------------------------------------------------------
(***************************************************************************)
(* The promise, from the docstring of mask_xml and not from its matching   *)
(* code: a field is a tag name, matching under any parent, or Parent/Tag,  *)
(* matching below that parent only, its namespace prefixes ignored;        *)
(* whatever is blank is left alone.                                        *)
(***************************************************************************)
Covered(d, fs, e) ==
  LET paths == { Strip[f] : f \in fs }
  IN  \/ <<d.tag[e].local>> \in paths
      \/ d.parent[e] # 0 /\ <<d.tag[d.parent[e]].local, d.tag[e].local>> \in paths

Sensitive(d, fs) == { e \in Elements(d) : Covered(d, fs, e) /\ d.text[e] # Blank }

(* The entries that are written without a prefix, and what they name. *)
Unprefixed(fs) == { f \in fs : Strip[f] = f }

Replaced(d, fs) == Sensitive(d, Unprefixed(fs))

TokenOf(d, e) == Tokenize(d.text[e], d.tag[e].local)

Original(d, e) == <<d.text[e], d.tag[e].local>>

(* The texts of the document with those of the elements of S as tokens. *)
MaskedAt(d, S) == [e \in Elements(d) |-> IF e \in S THEN TokenOf(d, e) ELSE d.text[e]]

Tokens == { Tokenize(p[2], p[1]) : p \in Names \X Values }

(* Type invariant. *)
TypeOK ==
  /\ xml \in Documents \cup {Malformed}
  /\ fields \in FieldLists
  /\ status \in {"called", "masking", "returned", "raised"}
  /\ status \in {"masking", "returned"} =>
       /\ xml \in Documents
       /\ pos \in Elements(xml) \cup { e + 1 : e \in Elements(xml) }
       /\ DOMAIN text = Elements(xml)
       /\ \A e \in Elements(xml) : text[e] \in Values \cup {Blank} \cup Tokens
  /\ \A t \in DOMAIN tokenMap : tokenMap[t] \in Values \X Names

(***************************************************************************)
(* The masked document is the original with exactly the sensitive texts    *)
(* replaced, each by the token of its value and tag: nothing the policy    *)
(* names survives, whatever the namespaces ("Namespace prefixes are        *)
(* ignored on both sides").  mask_xml strips the prefix off the tags of    *)
(* the document and not off the entries of the policy.                     *)
(***************************************************************************)
MaskedAsDocumented ==
  status = "returned" => result.masked = MaskedAt(xml, Sensitive(xml, fields))

(***************************************************************************)
(* What the loop does instead: the entries without a prefix mask exactly   *)
(* what the docstring says, under any namespace, and an entry with one     *)
(* masks nothing, neither the elements it means nor, through a piece that  *)
(* its "/" split off, others.                                              *)
(***************************************************************************)
MaskedUnlessPrefixed ==
  status = "returned" => result.masked = MaskedAt(xml, Replaced(xml, fields))

(***************************************************************************)
(* token_map undoes the masking: it has an entry for the token in every    *)
(* replaced element and no other, and the entry is the value and field     *)
(* type that element had, although repeated tokens overwrite each other's  *)
(* entries as the loop goes.                                               *)
(***************************************************************************)
Reversible ==
  status = "returned" =>
    /\ DOMAIN result.token_map = { TokenOf(xml, e) : e \in Replaced(xml, fields) }
    /\ \A e \in Replaced(xml, fields) :
         result.token_map[result.masked[e]] = Original(xml, e)

(* What a caller does with the response: each text that is one of its tokens
   becomes the value of that entry. *)
Unmask(t, map) == IF t \in DOMAIN map THEN map[t][1] ELSE t

(***************************************************************************)
(* The response undoes the masking for a caller who has nothing else, not  *)
(* even the policy ("so the caller can reverse a mask if needed",          *)
(* MaskedTokenEntry): every element gets its text back, also in a document *)
(* that was masked before and is full of tokens.  The one exception is an  *)
(* element left alone whose text was a token of this response already.     *)
(***************************************************************************)
UndoneByTheResponse ==
  status = "returned" =>
    \A e \in Elements(xml) :
      \/ Unmask(result.masked[e], result.token_map) = xml.text[e]
      \/ e \notin Replaced(xml, fields) /\ xml.text[e] \in DOMAIN result.token_map

(***************************************************************************)
(* tokens_generated is the number of different (value, field type) pairs   *)
(* that were replaced ("a duplicate original value for the same field type *)
(* collapses to one entry"): the same value in fields of two types has two *)
(* tokens, and tags that share their upper case share none.                *)
(***************************************************************************)
TokensCounted ==
  status = "returned" =>
    result.tokens_generated = Cardinality({ Original(xml, e) : e \in Replaced(xml, fields) })

=============================================================================
