---------------------------- MODULE MaskXmlProofs ----------------------------
(***************************************************************************)
(* The loop of mask_xml computes what its docstring promises of the        *)
(* entries without a namespace prefix, for every document, policy and      *)
(* digest without collisions, and entries with one change nothing.         *)
(***************************************************************************)
EXTENDS MaskXml, SequenceTheorems, FunctionTheorems, FiniteSetTheorems, TLAPS

(* What the loop has done when it is about to visit element pos. *)
Visited == { e \in Replaced(xml, fields) : e < pos }

TextInv ==
  text = [e \in Elements(xml) |-> IF e \in Visited THEN TokenOf(xml, e) ELSE xml.text[e]]

MapInv ==
  /\ DOMAIN tokenMap = { TokenOf(xml, e) : e \in Visited }
  /\ \A e \in Visited : tokenMap[TokenOf(xml, e)] = Original(xml, e)

LoopInv ==
  /\ xml \in Documents \cup {Malformed}
  /\ fields \in FieldLists
  /\ status \in {"called", "masking", "returned", "raised"}
  /\ status = "called" => pos = 1
  /\ status \in {"called", "raised"} => tokenMap = <<>>
  /\ status \in {"masking", "returned"} =>
       /\ xml \in Documents
       /\ pos \in Elements(xml) \cup { e + 1 : e \in Elements(xml) }
       /\ TextInv
       /\ MapInv
  /\ status = "returned" =>
       /\ pos \notin Elements(xml)
       /\ \A e \in Elements(xml) : e < pos
       /\ result.masked = text
       /\ result.token_map = tokenMap
       /\ result.fields_masked = Cardinality(DOMAIN tokenMap)
       /\ result.tokens_generated = Cardinality(DOMAIN tokenMap)

(* Documents have the shape their definition gives them. *)
LEMMA DocumentShape ==
  ASSUME NEW d \in Documents
  PROVE  \E n \in 1..MaxElements :
           /\ Elements(d) = 1..n
           /\ d.tag \in [1..n -> Tags]
           /\ d.parent \in [1..n -> 0..n]
           /\ d.text \in [1..n -> Values \cup {Blank}]
           /\ \A e \in 1..n : d.parent[e] < e /\ (d.parent[e] = 0 => e = 1)
  <1>1. PICK n \in 1..MaxElements : d \in DocumentsOf(n)
    BY DEF Documents
  <1>2. d.tag \in [1..n -> Tags] /\ d.parent \in [1..n -> 0..n]
        /\ d.text \in [1..n -> Values \cup {Blank}]
    BY <1>1 DEF DocumentsOf
  <1>3. Elements(d) = 1..n
    BY <1>2 DEF Elements
  <1>4. QED
    BY <1>1, <1>2, <1>3 DEF DocumentsOf

(* The paths that the docstring reads in the entries without a prefix are the
   entries that are paths of local names. *)
LEMMA UnprefixedPaths ==
  ASSUME NEW fs \in FieldLists, NEW path \in Seq(Names)
  PROVE  path \in { Strip[f] : f \in Unprefixed(fs) } <=> path \in fs
  BY NamesAssumption DEF Unprefixed

(* The two set comprehensions of mask_xml, with the split of the field      *)
(* strings, select exactly the elements the docstring describes, by the     *)
(* entries without a prefix.                                                *)
LEMMA MatchesIsCovered ==
  ASSUME NEW d \in Documents, NEW fs \in FieldLists, NEW e \in Elements(d)
  PROVE  Matches(d, fs, e) <=> Covered(d, Unprefixed(fs), e)
  <1>1. PICK n \in 1..MaxElements :
           /\ Elements(d) = 1..n
           /\ d.tag \in [1..n -> Tags]
           /\ d.parent \in [1..n -> 0..n]
           /\ \A x \in 1..n : d.parent[x] < x /\ (d.parent[x] = 0 => x = 1)
    BY DocumentShape
  <1>2. fs \subseteq Seq(Pieces) /\ Names \subseteq Pieces
    BY NamesAssumption
  <1> DEFINE local == d.tag[e].local
  <1>3. local \in Names
    BY <1>1 DEF Tags
  <1>4. local \in BareFields(fs) <=> <<local>> \in fs
    <2>1. ASSUME local \in BareFields(fs) PROVE <<local>> \in fs
      <3>1. PICK f \in fs : Len(f) = 1 /\ f[1] = local
        BY <2>1 DEF BareFields
      <3>2. f = <<local>>
        BY <3>1, <1>2
      <3>3. QED
        BY <3>1, <3>2
    <2>2. ASSUME <<local>> \in fs PROVE local \in BareFields(fs)
      <3>1. Len(<<local>>) = 1 /\ <<local>>[1] = local
        OBVIOUS
      <3>2. QED
        BY <2>2, <3>1 DEF BareFields
    <2>3. QED
      BY <2>1, <2>2
  <1>5. ASSUME NEW p
        PROVE  <<p, <<local>>>> \in ScopedFields(fs) <=> p \in Pieces /\ <<p, local>> \in fs
    <2>1. ASSUME <<p, <<local>>>> \in ScopedFields(fs)
          PROVE  p \in Pieces /\ <<p, local>> \in fs
      <3>1. PICK f \in fs : Len(f) > 1 /\ <<f[1], Tail(f)>> = <<p, <<local>>>>
        BY <2>1 DEF ScopedFields
      <3>2. f \in Seq(Pieces) /\ f[1] = p /\ Tail(f) = <<local>>
        BY <3>1, <1>2
      <3>3. Len(f) = 2 /\ f[2] = local
        <4>1. Len(Tail(f)) = Len(f) - 1 /\ Tail(f)[1] = f[2]
          <5>1. f # <<>>
            BY <3>1, <3>2
          <5>2. Len(Tail(f)) = Len(f) - 1 /\ \A i \in 1..Len(Tail(f)) : Tail(f)[i] = f[i + 1]
            BY <3>2, <5>1, HeadTailProperties
          <5>3. 1 \in 1..Len(Tail(f))
            BY <3>1, <3>2, <5>2
          <5>4. QED
            BY <5>2, <5>3
        <4>2. Len(<<local>>) = 1 /\ <<local>>[1] = local
          OBVIOUS
        <4>3. Len(f) \in Nat
          BY <3>2
        <4>4. Len(f) = 2
          <5>1. Len(Tail(f)) = Len(<<local>>)
            BY <3>2, Zenon
          <5>2. QED
            BY <4>1, <4>2, <4>3, <5>1
        <4>5. f[2] = local
          BY <3>2, <4>1, <4>2, Zenon
        <4>6. QED
          BY <4>4, <4>5
      <3>4. f = <<p, local>>
        BY <3>2, <3>3
      <3>5. QED
        BY <3>1, <3>2, <3>3, <3>4
    <2>2. ASSUME p \in Pieces, <<p, local>> \in fs
          PROVE  <<p, <<local>>>> \in ScopedFields(fs)
      <3>1. PICK f \in fs : f = <<p, local>>
        BY <2>2
      <3>2. Len(f) > 1 /\ f[1] = p /\ Tail(f) = <<local>>
        BY <1>3, <2>2, <3>1
      <3>3. <<f[1], Tail(f)>> = <<p, <<local>>>>
        BY <3>2
      <3>4. QED
        BY <3>2, <3>3 DEF ScopedFields
    <2>3. QED
      BY <2>1, <2>2
  <1> DEFINE paths == { Strip[f] : f \in Unprefixed(fs) }
  <1>6. <<local>> \in paths <=> local \in BareFields(fs)
    <2>1. <<local>> \in Seq(Names)
      BY <1>3
    <2>2. <<local>> \in paths <=> <<local>> \in fs
      BY <2>1, UnprefixedPaths
    <2>3. QED
      BY <1>4, <2>2
  <1>7. CASE d.parent[e] = 0
    <2>1. ParentName(d, e) = NoName
      BY <1>7 DEF ParentName
    <2>2. <<NoName, <<local>>>> \notin ScopedFields(fs)
      BY <1>5, NamesAssumption
    <2>3. QED
      BY <1>6, <1>7, <2>1, <2>2 DEF Matches, Covered, LocalName
  <1>8. CASE d.parent[e] # 0
    <2> DEFINE above == d.tag[d.parent[e]].local
    <2>1. above \in Names
      BY <1>1, <1>8 DEF Tags
    <2>2. <<above, <<local>>>> \in ScopedFields(fs) <=> <<above, local>> \in paths
      <3>1. <<above, local>> \in Seq(Names)
        BY <1>3, <2>1
      <3>2. <<above, local>> \in paths <=> <<above, local>> \in fs
        BY <3>1, UnprefixedPaths
      <3>3. QED
        BY <1>2, <1>5, <2>1, <3>2
    <2>3. ParentName(d, e) = above
      BY <1>8 DEF ParentName, LocalName
    <2>4. QED
      BY <1>6, <1>8, <2>2, <2>3 DEF Matches, Covered, LocalName
  <1>9. QED
    BY <1>7, <1>8

(* Equal tokens come from equal values and field types. *)
LEMMA TokenDeterminesOriginal ==
  ASSUME NEW d \in Documents, NEW fs \in FieldLists,
         NEW x \in Replaced(d, fs), NEW y \in Replaced(d, fs),
         TokenOf(d, x) = TokenOf(d, y)
  PROVE  Original(d, x) = Original(d, y)
  <1>1. \A e \in Replaced(d, fs) : d.text[e] \in Values /\ d.tag[e].local \in Names
    BY DocumentShape DEF Replaced, Sensitive, Tags
  <1>2. Digest[<<d.tag[x].local, d.text[x]>>] = Digest[<<d.tag[y].local, d.text[y]>>]
    BY DEF TokenOf, Tokenize
  <1>3. <<d.tag[x].local, d.text[x]>> = <<d.tag[y].local, d.text[y]>>
    BY <1>1, <1>2, DigestAssumption
  <1>4. QED
    BY <1>3 DEF Original

(* The loop invariant holds when mask() is called. *)
LEMMA LoopInvInit == Init => LoopInv
  BY DEF Init, LoopInv

(* Parsing, both kinds of loop turn and the return keep the loop invariant. *)
LEMMA LoopInvNext == LoopInv /\ [Next]_vars => LoopInv'
  <1> SUFFICES ASSUME LoopInv, [Next]_vars
               PROVE  LoopInv'
    OBVIOUS
  <1>1. CASE ParseFails
    BY <1>1 DEF ParseFails, LoopInv
  <1>2. CASE Parse
    <2>1. xml \in Documents /\ pos = 1 /\ tokenMap = <<>>
      BY <1>2 DEF Parse, LoopInv
    <2>2. DOMAIN xml.text = Elements(xml) /\ Elements(xml) \subseteq Nat \ {0}
      BY <2>1, DocumentShape
    <2>3. Visited' = {}
      BY <1>2, <2>1, <2>2 DEF Parse, Visited, Replaced, Sensitive
    <2>4. TextInv'
      <3>1. text' = [e \in Elements(xml) |-> xml.text[e]]
        BY <1>2, <2>1, <2>2, DocumentShape DEF Parse
      <3>2. QED
        BY <1>2, <2>3, <3>1 DEF Parse, TextInv
    <2>5. MapInv'
      BY <1>2, <2>1, <2>3 DEF Parse, MapInv
    <2>6. 1 \in Elements(xml)
      BY <2>1, DocumentShape
    <2>7. QED
      BY <1>2, <2>1, <2>4, <2>5, <2>6 DEF Parse, LoopInv
  <1>3. CASE SkipElement
    <2>1. xml \in Documents /\ fields \in FieldLists /\ pos \in Elements(xml)
          /\ TextInv /\ MapInv
      BY <1>3 DEF SkipElement, LoopInv
    <2>2. Elements(xml) \subseteq Nat
      BY <2>1, DocumentShape
    <2>3. text[pos] = xml.text[pos]
      BY <2>1, <2>2 DEF TextInv, Visited
    <2>4. pos \notin Replaced(xml, fields)
      BY <1>3, <2>1, <2>3, MatchesIsCovered DEF SkipElement, Replaced, Sensitive
    <2>5. Visited' = Visited
      BY <1>3, <2>1, <2>2, <2>4 DEF SkipElement, Visited, Replaced, Sensitive
    <2>6. TextInv' /\ MapInv'
      BY <1>3, <2>1, <2>5 DEF SkipElement, TextInv, MapInv
    <2>7. QED
      BY <1>3, <2>1, <2>6 DEF SkipElement, LoopInv
  <1>4. CASE ReplaceElement
    <2> DEFINE token == TokenOf(xml, pos)
    <2>1. xml \in Documents /\ fields \in FieldLists /\ pos \in Elements(xml)
          /\ TextInv /\ MapInv
      BY <1>4 DEF ReplaceElement, LoopInv
    <2>2. Elements(xml) \subseteq Nat
      BY <2>1, DocumentShape
    <2>3. text[pos] = xml.text[pos]
      BY <2>1, <2>2 DEF TextInv, Visited
    <2>4. pos \in Replaced(xml, fields)
      BY <1>4, <2>1, <2>3, MatchesIsCovered DEF ReplaceElement, Replaced, Sensitive
    <2>5. Visited' = Visited \cup {pos}
      BY <1>4, <2>1, <2>2, <2>4 DEF ReplaceElement, Visited, Replaced, Sensitive
    <2>6. /\ text' = [text EXCEPT ![pos] = token]
          /\ tokenMap' = Put(tokenMap, token, Original(xml, pos))
      BY <1>4, <2>3 DEF ReplaceElement, TokenOf, Original, LocalName
    <2>7. TextInv'
      BY <1>4, <2>1, <2>5, <2>6 DEF ReplaceElement, TextInv
    <2>8. MapInv'
      <3>1. DOMAIN tokenMap' = { TokenOf(xml, e) : e \in Visited' }
        BY <2>1, <2>5, <2>6 DEF MapInv, Put
      <3>2. ASSUME NEW e \in Visited'
            PROVE  tokenMap'[TokenOf(xml, e)] = Original(xml, e)
        <4>1. CASE TokenOf(xml, e) = token
          <5>1. e \in Replaced(xml, fields)
            BY <2>4, <2>5 DEF Visited
          <5>2. Original(xml, e) = Original(xml, pos)
            BY <4>1, <5>1, <2>1, <2>4, TokenDeterminesOriginal
          <5>3. QED
            BY <2>6, <4>1, <5>2 DEF Put
        <4>2. CASE TokenOf(xml, e) # token
          <5>1. e \in Visited
            BY <4>2, <2>5
          <5>2. QED
            BY <5>1, <4>2, <2>1, <2>6 DEF Put, MapInv
        <4>3. QED
          BY <4>1, <4>2
      <3>3. QED
        BY <1>4, <3>1, <3>2 DEF MapInv, ReplaceElement
    <2>9. QED
      BY <1>4, <2>1, <2>7, <2>8 DEF ReplaceElement, LoopInv
  <1>5. CASE Return
    <2>1. xml \in Documents /\ fields \in FieldLists /\ TextInv /\ MapInv
          /\ pos \in { e + 1 : e \in Elements(xml) } /\ pos \notin Elements(xml)
      BY <1>5 DEF Return, LoopInv
    <2>2. \A e \in Elements(xml) : e < pos
      <3>1. PICK n \in 1..MaxElements : Elements(xml) = 1..n
        BY <2>1, DocumentShape
      <3>2. QED
        BY <2>1, <3>1, NamesAssumption
    <2>3. TextInv' /\ MapInv'
      BY <1>5, <2>1 DEF Return, TextInv, MapInv, Visited
    <2>4. /\ result'.masked = text' /\ result'.token_map = tokenMap'
          /\ result'.fields_masked = Cardinality(DOMAIN tokenMap')
          /\ result'.tokens_generated = Cardinality(DOMAIN tokenMap')
      BY <1>5 DEF Return
    <2>5. QED
      BY <1>5, <2>1, <2>2, <2>3, <2>4 DEF Return, LoopInv
  <1>6. CASE UNCHANGED vars
    BY <1>6 DEF vars, LoopInv, TextInv, MapInv, Visited
  <1>7. QED
    BY <1>1, <1>2, <1>3, <1>4, <1>5, <1>6 DEF Next

(* The loop invariant, on which the other theorems rest. *)
THEOREM LoopInvariant == Spec => []LoopInv
  BY LoopInvInit, LoopInvNext, PTL DEF Spec

(* Type correctness: the variables of mask_xml keep their types. *)
THEOREM TypeCorrect == Spec => []TypeOK
  <1>1. LoopInv => TypeOK
    <2> SUFFICES ASSUME LoopInv PROVE TypeOK
      OBVIOUS
    <2>1. ASSUME xml \in Documents, TextInv, MapInv
          PROVE  /\ DOMAIN text = Elements(xml)
                 /\ \A e \in Elements(xml) : text[e] \in Values \cup {Blank} \cup Tokens
                 /\ \A t \in DOMAIN tokenMap : tokenMap[t] \in Values \X Names
      <3>1. \A e \in Elements(xml) : xml.text[e] \in Values \cup {Blank}
                                    /\ xml.tag[e].local \in Names
        BY <2>1, DocumentShape DEF Tags
      <3>2. \A e \in Visited : /\ e \in Elements(xml)
                               /\ TokenOf(xml, e) \in Tokens
                               /\ Original(xml, e) \in Values \X Names
        <4> SUFFICES ASSUME NEW e \in Visited
                     PROVE  /\ e \in Elements(xml)
                            /\ TokenOf(xml, e) \in Tokens
                            /\ Original(xml, e) \in Values \X Names
          OBVIOUS
        <4>1. e \in Elements(xml) /\ xml.text[e] \in Values /\ xml.tag[e].local \in Names
          BY <3>1 DEF Visited, Replaced, Sensitive
        <4>2. PICK pair \in Names \X Values : pair = <<xml.tag[e].local, xml.text[e]>>
          BY <4>1
        <4>3. TokenOf(xml, e) = Tokenize(pair[2], pair[1])
          BY <4>2 DEF TokenOf
        <4>4. QED
          BY <4>1, <4>3 DEF Original, Tokens
      <3>3. QED
        BY <2>1, <3>1, <3>2 DEF TextInv, MapInv
    <2>2. status \in {"called", "raised"} => tokenMap = <<>>
      BY DEF LoopInv
    <2>3. QED
      BY <2>1, <2>2 DEF LoopInv, TypeOK
  <1>2. QED
    BY <1>1, LoopInvariant, PTL

(* When mask_xml returns, the loop has visited every element it replaces. *)
LEMMA AllVisited ==
  ASSUME LoopInv, status = "returned"
  PROVE  Visited = Replaced(xml, fields) /\ xml \in Documents /\ fields \in FieldLists
         /\ TextInv /\ MapInv /\ result.masked = text /\ result.token_map = tokenMap
         /\ result.fields_masked = Cardinality(DOMAIN tokenMap)
         /\ result.tokens_generated = Cardinality(DOMAIN tokenMap)
  BY DEF LoopInv, Visited, Replaced, Sensitive

(* For every document and policy the entries without a prefix mask what the
   docstring says, and the entries with one mask nothing. *)
THEOREM MasksUnlessPrefixed == Spec => []MaskedUnlessPrefixed
  <1>1. LoopInv => MaskedUnlessPrefixed
    BY AllVisited DEF MaskedUnlessPrefixed, TextInv, MaskedAt
  <1>2. QED
    BY <1>1, LoopInvariant, PTL

(* token_map undoes the masking of every element that was replaced. *)
THEOREM TokenMapReverses == Spec => []Reversible
  <1>1. LoopInv => Reversible
    <2> SUFFICES ASSUME LoopInv, status = "returned"
                 PROVE  /\ DOMAIN result.token_map = { TokenOf(xml, e) : e \in Replaced(xml, fields) }
                        /\ \A e \in Replaced(xml, fields) :
                             result.token_map[result.masked[e]] = Original(xml, e)
      BY DEF Reversible
    <2>1. \A e \in Replaced(xml, fields) : result.masked[e] = TokenOf(xml, e)
      BY AllVisited DEF TextInv, Replaced, Sensitive
    <2>2. QED
      BY <2>1, AllVisited DEF MapInv
  <1>2. QED
    BY <1>1, LoopInvariant, PTL

(* The response alone undoes the masking: an element is given back its text,
   or it was left alone and held one of the tokens before. *)
THEOREM ResponseUndoesMasking == Spec => []UndoneByTheResponse
  <1>1. LoopInv => UndoneByTheResponse
    <2> SUFFICES ASSUME LoopInv, status = "returned", NEW e \in Elements(xml)
                 PROVE  \/ Unmask(result.masked[e], result.token_map) = xml.text[e]
                        \/ /\ e \notin Replaced(xml, fields)
                           /\ xml.text[e] \in DOMAIN result.token_map
      BY DEF UndoneByTheResponse
    <2>1. CASE e \in Replaced(xml, fields)
      <3>1. result.masked[e] = TokenOf(xml, e)
        BY <2>1, AllVisited DEF TextInv
      <3>2. /\ TokenOf(xml, e) \in DOMAIN result.token_map
            /\ result.token_map[TokenOf(xml, e)] = Original(xml, e)
        BY <2>1, AllVisited DEF MapInv
      <3>3. QED
        BY <3>1, <3>2 DEF Unmask, Original
    <2>2. CASE e \notin Replaced(xml, fields)
      <3>1. result.masked[e] = xml.text[e]
        BY <2>2, AllVisited DEF TextInv
      <3>2. QED
        BY <2>2, <3>1 DEF Unmask
    <2>3. QED
      BY <2>1, <2>2
  <1>2. QED
    BY <1>1, LoopInvariant, PTL

(* Without collisions there are as many tokens as there are different pairs of
   value and field type behind them. *)
LEMMA OneTokenPerPair ==
  ASSUME NEW d \in Documents, NEW fs \in FieldLists
  PROVE  Cardinality({ TokenOf(d, e) : e \in Replaced(d, fs) })
           = Cardinality({ Original(d, e) : e \in Replaced(d, fs) })
  <1> DEFINE Ts == { TokenOf(d, e) : e \in Replaced(d, fs) }
             Os == { Original(d, e) : e \in Replaced(d, fs) }
             tokenOfPair == [o \in Os |-> Tokenize(o[1], o[2])]
  <1>1. PICK n \in 1..MaxElements : Elements(d) = 1..n
    BY DocumentShape
  <1>2. IsFiniteSet(Replaced(d, fs))
    <2>1. IsFiniteSet(1..n)
      BY <1>1, FS_Interval
    <2>2. Replaced(d, fs) \subseteq 1..n
      BY <1>1 DEF Replaced, Sensitive
    <2>3. QED
      BY <2>1, <2>2, FS_Subset
  <1>3. IsFiniteSet(Os)
    <2> DEFINE pairOf == [e \in Replaced(d, fs) |-> Original(d, e)]
    <2>1. pairOf \in Surjection(Replaced(d, fs), Os)
      BY Fun_IsSurj
    <2>2. QED
      BY <1>2, <2>1, FS_Surjection
  <1>4. \A e \in Replaced(d, fs) : tokenOfPair[Original(d, e)] = TokenOf(d, e)
    BY DEF Original, TokenOf
  <1>5. ExistsBijection(Os, Ts)
    <2>1. tokenOfPair \in [Os -> Ts]
      BY <1>4
    <2>2. ASSUME NEW o \in Os, NEW p \in Os, tokenOfPair[o] = tokenOfPair[p]
          PROVE  o = p
      <3>1. PICK x \in Replaced(d, fs) : o = Original(d, x)
        OBVIOUS
      <3>2. PICK y \in Replaced(d, fs) : p = Original(d, y)
        OBVIOUS
      <3>3. TokenOf(d, x) = TokenOf(d, y)
        BY <1>4, <2>2, <3>1, <3>2
      <3>4. QED
        BY <3>1, <3>2, <3>3, TokenDeterminesOriginal
    <2>3. ASSUME NEW t \in Ts PROVE \E o \in Os : tokenOfPair[o] = t
      BY <1>4
    <2>4. QED
      BY <2>1, <2>2, <2>3, Fun_IsBij DEF ExistsBijection
  <1>6. QED
    BY <1>3, <1>5, FS_Bijection

(* tokens_generated counts the pairs, although it is the size of a map whose
   entries equal pairs share. *)
THEOREM TokensAreCounted == Spec => []TokensCounted
  <1>1. LoopInv => TokensCounted
    <2> SUFFICES ASSUME LoopInv, status = "returned" PROVE TokensCounted
      BY DEF TokensCounted
    <2>1. DOMAIN tokenMap = { TokenOf(xml, e) : e \in Replaced(xml, fields) }
      BY AllVisited DEF MapInv
    <2>2. QED
      BY <2>1, AllVisited, OneTokenPerPair DEF TokensCounted
  <1>2. QED
    BY <1>1, LoopInvariant, PTL

=============================================================================
