--------------------------- MODULE JobInputsProofs ---------------------------
(***************************************************************************)
(* Theorems about JobInputs, for every set of browsers and agents, every   *)
(* script and every number of saves.                                       *)
(***************************************************************************)
EXTENDS JobInputs, DataLemmas

(***************************************************************************)
(* The SQL of a run, for any inputs that are verbatim.   Every Replace is  *)
(* a rewriting of the text by a rule, and each step of a substitution      *)
(* makes of the script what one rule does, so that what becomes of a token *)
(* can be read off the last of them.                                       *)
(***************************************************************************)
Values == JobScriptInput(Save)

(* The literals of a script, and those the processor writes. *)
Wordings == STRING \cup GlobalVariables \cup {"NULL", "'", "FROM", "WHERE"}

(* The items a text may have. *)
Item ==
  [token : Inputs \cup GlobalVariables] \cup [literal : Wordings]
    \cup [value : Values] \cup [offset : Values] \cup [table : Values]

OneRowPerInput(S) == \A i, j \in S : i.InputId = j.InputId => i = j

(* Inputs of a run, one row for each, whose values hold neither a token nor *)
(* a pattern.                                                               *)
Plain(u) ==
  u \in SUBSET Values /\ OneRowPerInput(u) /\ \A i \in u : i.holds = Verbatim

(* Replace, as a rule. *)
ReplaceRule(t, by) == [x \in Item |-> IF x = Token(t) THEN by ELSE <<x>>]

Tokens(S) == {Token(t) : t \in S}

(***************************************************************************)
(* The global variables and the inputs in D replaced; then the saved       *)
(* searches in S too, when all inputs of the script have been.             *)
(***************************************************************************)
InputRule(D, u) ==
  [x \in Item |->
     IF x \in Tokens(GlobalVariables) THEN <<Literal(x.token)>>
     ELSE IF x \in Tokens(D) THEN ReplaceString(x.token, u)
     ELSE <<x>>]

Searched(d, S) == {i \in S : i.InputId = d}
AnyOf(S) == CHOOSE i \in S : TRUE

TableRule(S, u) ==
  [x \in Item |->
     IF x \in Tokens(GlobalVariables) THEN <<Literal(x.token)>>
     ELSE IF x \notin Tokens(ToSet(Details)) THEN <<x>>
     ELSE IF Searched(x.token, S) # {} THEN FromTable(AnyOf(Searched(x.token, S)))
     ELSE ReplaceString(x.token, u)]

LEMMA TokensAreTokens ==
  /\ \A t, r : Token(t) = Token(r) => t = r
  /\ \A t : Token(t).token = t
  /\ \A t, l : Token(t) # Literal(l)
  /\ \A t, l : Token(t) # [value |-> l]
  /\ \A t, l : Token(t) # [offset |-> l]
  /\ \A t, l : Token(t) # [table |-> l]
<1>1. \A t : DOMAIN Token(t) = {"token"} /\ Token(t).token = t
  BY DEF Token
<1>2. \A l : DOMAIN Literal(l) = {"literal"}
  BY DEF Literal
<1>3. \A l : DOMAIN [value |-> l] = {"value"} /\ DOMAIN [offset |-> l] = {"offset"} /\ DOMAIN [table |-> l] = {"table"}
  OBVIOUS
<1>4. "token" # "literal" /\ "token" # "value" /\ "token" # "offset" /\ "token" # "table"
  OBVIOUS
<1>5. \A t, r : Token(t) = Token(r) => t = r
  BY <1>1
<1>6. \A t, l : Token(t) # Literal(l)
  BY <1>1, <1>2, <1>4
<1>7. \A t, l : Token(t) # [value |-> l] /\ Token(t) # [offset |-> l] /\ Token(t) # [table |-> l]
  BY <1>1, <1>3, <1>4
<1> QED
  BY <1>1, <1>5, <1>6, <1>7

LEMMA ItemsAre ==
  /\ \A t \in Inputs \cup GlobalVariables : Token(t) \in Item
  /\ \A g \in GlobalVariables : Literal(g) \in Item
  /\ Literal("NULL") \in Item /\ Literal("'") \in Item
  /\ Literal("FROM") \in Item /\ Literal("WHERE") \in Item
  /\ \A i \in Values : [value |-> i] \in Item /\ [offset |-> i] \in Item /\ [table |-> i] \in Item
  /\ ScriptSql \in Seq(Item)
<1>1. [token : Inputs \cup GlobalVariables] \cup [literal : STRING] \subseteq Item
  BY DEF Item, Wordings
<1>2. ScriptSql \in Seq(Item)
  BY <1>1, ScriptSqlAssumption, SeqMonotonic
<1>3. \A l \in Wordings : Literal(l) \in Item
  BY DEF Item, Literal
<1>4. "NULL" \in Wordings /\ "'" \in Wordings /\ "FROM" \in Wordings /\ "WHERE" \in Wordings
  BY DEF Wordings
<1>5. \A t \in Inputs \cup GlobalVariables : Token(t) \in Item
  BY DEF Item, Token
<1>6. \A i \in Values : [value |-> i] \in Item /\ [offset |-> i] \in Item /\ [table |-> i] \in Item
  BY DEF Item
<1>7. Literal("NULL") \in Item /\ Literal("'") \in Item /\ Literal("FROM") \in Item /\ Literal("WHERE") \in Item
  BY <1>3, <1>4, Zenon
<1>8. \A g \in GlobalVariables : Literal(g) \in Item
  BY <1>3 DEF Wordings
<1> QED
  BY <1>2, <1>5, <1>6, <1>7, <1>8

(* An item of a text is no pattern, and puts itself in the place of a token. *)
LEMMA NoPatterns ==
  ASSUME NEW sql, NEW t, NEW by \in Seq(Item)
  PROVE  Replacement(by, sql, t) = by
<1> DEFINE same == [x \in Item |-> <<x>>]
<1>1. ASSUME NEW x \in Item, NEW p PROVE x # Pattern(p)
  <2>1. DOMAIN Pattern(p) = {"pattern"}
    BY DEF Pattern
  <2>2. DOMAIN x \in {{"token"}, {"literal"}, {"value"}, {"offset"}, {"table"}}
    BY DEF Item
  <2>3. "pattern" # "token" /\ "pattern" # "literal" /\ "pattern" # "value"
        /\ "pattern" # "offset" /\ "pattern" # "table"
    OBVIOUS
  <2> QED
    BY <2>1, <2>2, <2>3
<1>2. \A n \in DOMAIN by : by[n] \in Item
  OBVIOUS
<1>3. \A n \in DOMAIN by : PutInPlace(by[n], sql, t) = same[by[n]]
  BY <1>1, <1>2 DEF PutInPlace
<1>4. [n \in DOMAIN by |-> PutInPlace(by[n], sql, t)] = [n \in DOMAIN by |-> same[by[n]]]
  BY <1>3
<1>5. IsRule(same, Item, Item) /\ \A n \in DOMAIN by : same[by[n]] = <<by[n]>>
  <2>1. \A x \in Item : <<x>> \in Seq(Item)
    OBVIOUS
  <2> QED
    BY <1>2, <2>1 DEF IsRule
<1> HIDE DEF same
<1>6. Rewritten(by, same) = by
  BY <1>5, RewrittenSame
<1> QED
  BY <1>4, <1>6 DEF Replacement, Rewritten

LEMMA ReplaceIsRewritten ==
  ASSUME NEW s \in Seq(Item), NEW t, NEW by \in Seq(Item)
  PROVE  /\ IsRule(ReplaceRule(t, by), Item, Item)
         /\ Replace(s, t, by) = Rewritten(s, ReplaceRule(t, by))
<1>1. IsRule(ReplaceRule(t, by), Item, Item)
  <2>1. \A x \in Item : <<x>> \in Seq(Item)
    OBVIOUS
  <2> QED
    BY <2>1 DEF IsRule, ReplaceRule
<1>2. \A n \in DOMAIN s : s[n] \in Item
  OBVIOUS
<1>3. Replacement(by, s, t) = by
  BY NoPatterns
<1>4. [n \in DOMAIN s |-> IF s[n] = Token(t) THEN Replacement(by, s, t) ELSE <<s[n]>>]
        = [n \in DOMAIN s |-> ReplaceRule(t, by)[s[n]]]
  BY <1>2, <1>3 DEF ReplaceRule
<1> QED
  BY <1>1, <1>4 DEF Replace, Rewritten

(* What replaces an input's token holds no other token. *)
LEMMA ReplaceStringIs ==
  ASSUME NEW u, Plain(u), NEW d \in Inputs
  PROVE  /\ ReplaceString(d, u) \in Seq(Item)
         /\ \A n \in DOMAIN ReplaceString(d, u) :
              \A t : ReplaceString(d, u)[n] = Token(t) => t = d
         /\ Kind[d] = "SavedSearch" /\ Populated(d, u) # {} => ReplaceString(d, u) = <<Token(d)>>
<1> DEFINE i == CHOOSE i \in Populated(d, u) : TRUE
<1>0. Token(d) \in Item /\ Literal("NULL") \in Item /\ Literal("'") \in Item
  BY ItemsAre
<1>1. CASE Populated(d, u) = {}
  <2>1. ReplaceString(d, u) = <<Literal("NULL")>>
    BY <1>1 DEF ReplaceString
  <2> HIDE DEF i
  <2> QED
    BY <1>0, <1>1, <2>1, TokensAreTokens
<1>2. CASE Populated(d, u) # {}
  <2>1. i \in Values /\ i.holds = Verbatim
    BY <1>2 DEF Populated, Plain
  <2> HIDE DEF i
  <2>2. InputValue(i) = <<[value |-> i]>>
    BY <2>1 DEF InputValue
  <2>3. [value |-> i] \in Item /\ [offset |-> i] \in Item
    BY <2>1, ItemsAre
  <2>4. Kind[d] \in {"Direct", "Text", "TimeZone", "SavedSearch"}
    BY KindAssumption DEF Kinds
  <2>5. ReplaceString(d, u) =
          CASE Kind[d] = "Direct" -> InputValue(i)
            [] Kind[d] = "Text" -> <<Literal("'")>> \o InputValue(i) \o <<Literal("'")>>
            [] Kind[d] = "TimeZone" -> <<[offset |-> i]>>
            [] Kind[d] = "SavedSearch" -> <<Token(d)>>
    BY <1>2, Zenon DEF ReplaceString, i
  <2>6. CASE Kind[d] = "Direct"
    <3>1. ReplaceString(d, u) = <<[value |-> i]>>
      BY <2>2, <2>5, <2>6
    <3> QED
      BY <2>3, <2>6, <3>1, TokensAreTokens
  <2>7. CASE Kind[d] = "Text"
    <3>1. ReplaceString(d, u) = <<Literal("'")>> \o <<[value |-> i]>> \o <<Literal("'")>>
      BY <2>2, <2>5, <2>7
    <3> DEFINE q == Literal("'")
               v == [value |-> i]
               r == ReplaceString(d, u)
    <3>2. <<q>> \in Seq({q, v}) /\ <<v>> \in Seq({q, v})
      OBVIOUS
    <3> HIDE DEF q, v
    <3>3. <<q>> \o <<v>> \o <<q>> \in Seq({q, v})
      BY <3>2
    <3>4. r \in Seq({q, v})
      BY <3>1, <3>3 DEF q, v
    <3>5. {q, v} \subseteq Item
      BY <1>0, <2>3 DEF q, v
    <3>6. \A t : q # Token(t) /\ v # Token(t)
      BY TokensAreTokens DEF q, v
    <3>7. \A n \in DOMAIN r : r[n] \in {q, v}
      <4> HIDE DEF r
      <4> QED
        BY <3>4
    <3>8. r \in Seq(Item)
      BY <3>4, <3>5, SeqMonotonic
    <3> QED
      BY <2>7, <3>6, <3>7, <3>8
  <2>8. CASE Kind[d] = "TimeZone"
    <3>1. ReplaceString(d, u) = <<[offset |-> i]>>
      BY <2>5, <2>8
    <3> QED
      BY <2>3, <2>8, <3>1, TokensAreTokens
  <2>9. CASE Kind[d] = "SavedSearch"
    <3>1. ReplaceString(d, u) = <<Token(d)>>
      BY <2>5, <2>9
    <3> QED
      BY <1>0, <3>1, TokensAreTokens
  <2> QED
    BY <2>4, <2>6, <2>7, <2>8, <2>9
<1> QED
  BY <1>1, <1>2

LEMMA FromTableIs ==
  ASSUME NEW i \in Values
  PROVE  /\ FromTable(i) \in Seq(Item)
         /\ \A n \in DOMAIN FromTable(i) : \A t : FromTable(i)[n] # Token(t)
<1>1. Literal("FROM") \in Item /\ Literal("WHERE") \in Item /\ [table |-> i] \in Item
  BY ItemsAre
<1> QED
  BY <1>1, TokensAreTokens DEF FromTable

(* Replacing a token leaves every other item as it is. *)
LEMMA TokenUnused ==
  ASSUME NEW s \in Seq(Item), NEW t, NEW by \in Seq(Item), \A n \in DOMAIN s : s[n] # Token(t)
  PROVE  Rewritten(s, ReplaceRule(t, by)) = s
<1>1. IsRule(ReplaceRule(t, by), Item, Item)
  BY ReplaceIsRewritten, EmptySeq
<1>2. \A n \in DOMAIN s : ReplaceRule(t, by)[s[n]] = <<s[n]>>
  <2>1. \A n \in DOMAIN s : s[n] \in Item
    OBVIOUS
  <2> QED
    BY <2>1 DEF ReplaceRule
<1> QED
  BY <1>1, <1>2, RewrittenSame

LEMMA TokenUsed ==
  ASSUME NEW t, Token(t) \in Item, NEW by \in Seq(Item)
  PROVE  Rewritten(<<Token(t)>>, ReplaceRule(t, by)) = by
<1>1. IsRule(ReplaceRule(t, by), Item, Item)
  BY ReplaceIsRewritten, EmptySeq
<1>2. ReplaceRule(t, by)[Token(t)] = by
  BY DEF ReplaceRule
<1> QED
  BY <1>1, <1>2, RewrittenSingle

LEMMA OtherItem ==
  ASSUME NEW x \in Item, NEW t, NEW by \in Seq(Item), x # Token(t)
  PROVE  Rewritten(<<x>>, ReplaceRule(t, by)) = <<x>>
<1>1. <<x>> \in Seq(Item) /\ \A n \in DOMAIN <<x>> : <<x>>[n] # Token(t)
  OBVIOUS
<1> QED
  BY <1>1, TokenUnused

LEMMA GlobalIs ==
  ASSUME NEW x \in Item, x \in Tokens(GlobalVariables)
  PROVE  <<Literal(x.token)>> \in Seq(Item)
<1>1. PICK g \in GlobalVariables : x = Token(g)
  BY DEF Tokens
<1>2. x.token = g /\ Literal(g) \in Item
  BY <1>1, TokensAreTokens, ItemsAre
<1> QED
  BY <1>2

LEMMA InputRuleIsRule ==
  ASSUME NEW u, Plain(u), NEW D \in SUBSET Inputs
  PROVE  IsRule(InputRule(D, u), Item, Item)
<1>1. ASSUME NEW x \in Item, x \in Tokens(D) PROVE ReplaceString(x.token, u) \in Seq(Item)
  <2>1. PICK d \in D : x = Token(d)
    BY <1>1 DEF Tokens
  <2>2. x.token = d /\ d \in Inputs
    BY <2>1, TokensAreTokens
  <2> QED
    BY <2>2, ReplaceStringIs
<1>2. \A x \in Item : <<x>> \in Seq(Item)
  OBVIOUS
<1> QED
  BY <1>1, <1>2, GlobalIs DEF InputRule, IsRule

LEMMA TableRuleIsRule ==
  ASSUME NEW u, Plain(u), NEW S \in SUBSET SavedSearches(u)
  PROVE  IsRule(TableRule(S, u), Item, Item)
<1>1. ASSUME NEW x \in Item, x \in Tokens(ToSet(Details)) PROVE ReplaceString(x.token, u) \in Seq(Item)
  <2>1. PICK d \in ToSet(Details) : x = Token(d)
    BY <1>1 DEF Tokens
  <2>2. x.token = d /\ d \in Inputs
    BY <2>1, TokensAreTokens, DetailsAssumption DEF ToSet
  <2> QED
    BY <2>2, ReplaceStringIs
<1>2. \A x \in Item : <<x>> \in Seq(Item)
  OBVIOUS
<1>3. ASSUME NEW d, Searched(d, S) # {}
      PROVE  FromTable(AnyOf(Searched(d, S))) \in Seq(Item)
  <2> DEFINE i == AnyOf(Searched(d, S))
  <2>1. i \in Values
    BY <1>3 DEF AnyOf, Searched, SavedSearches, Plain
  <2> HIDE DEF i
  <2>2. FromTable(i) \in Seq(Item)
    BY <2>1, FromTableIs
  <2> QED
    BY <2>2 DEF i
<1> QED
  BY <1>1, <1>2, <1>3, GlobalIs DEF TableRule, IsRule

(***************************************************************************)
(* Each step of a substitution is the next rule.                           *)
(***************************************************************************)
LEMMA GlobalVariablesStep ==
  ASSUME NEW u, Plain(u)
  PROVE  SubstituteGlobalVariables(ScriptSql) = Rewritten(ScriptSql, InputRule({}, u))
<1> DEFINE g == "CaseArtifactID"
           h == "MasterDatabasePrepend"
           R == ReplaceRule(g, <<Literal(g)>>)
           Q == ReplaceRule(h, <<Literal(h)>>)
<1>1. g \in GlobalVariables /\ h \in GlobalVariables /\ g # h /\ GlobalVariables = {g, h}
  BY DEF GlobalVariables
<1> HIDE DEF g, h
<1>2. /\ <<Literal(g)>> \in Seq(Item) /\ <<Literal(h)>> \in Seq(Item)
      /\ Literal(g) \in Item /\ Literal(h) \in Item /\ ScriptSql \in Seq(Item)
  BY <1>1, ItemsAre
<1>3. IsRule(R, Item, Item) /\ Replace(ScriptSql, g, <<Literal(g)>>) = Rewritten(ScriptSql, R)
  BY <1>2, ReplaceIsRewritten
<1>4. Rewritten(ScriptSql, R) \in Seq(Item)
  BY <1>2, <1>3, RewrittenTyped
<1>5. /\ IsRule(Q, Item, Item)
      /\ Replace(Rewritten(ScriptSql, R), h, <<Literal(h)>>) = Rewritten(Rewritten(ScriptSql, R), Q)
  BY <1>2, <1>4, ReplaceIsRewritten
<1>6. ASSUME NEW x \in Item PROVE InputRule({}, u)[x] = Rewritten(R[x], Q)
  <2>1. InputRule({}, u)[x] = IF x \in Tokens(GlobalVariables) THEN <<Literal(x.token)>> ELSE <<x>>
    BY DEF InputRule, Tokens
  <2>2. CASE x = Token(g)
    <3>1. R[x] = <<Literal(g)>>
      BY <2>2 DEF ReplaceRule
    <3>2. Rewritten(<<Literal(g)>>, Q) = <<Literal(g)>>
      BY <1>2, OtherItem, TokensAreTokens
    <3>3. x \in Tokens(GlobalVariables) /\ x.token = g
      BY <1>1, <2>2, TokensAreTokens DEF Tokens
    <3> QED
      BY <2>1, <3>1, <3>2, <3>3
  <2>3. CASE x = Token(h)
    <3>1. R[x] = <<Token(h)>>
      BY <1>1, <2>3, TokensAreTokens DEF ReplaceRule
    <3>2. Rewritten(<<Token(h)>>, Q) = <<Literal(h)>>
      BY <1>2, <2>3, TokenUsed
    <3>3. x \in Tokens(GlobalVariables) /\ x.token = h
      BY <1>1, <2>3, TokensAreTokens DEF Tokens
    <3> QED
      BY <2>1, <3>1, <3>2, <3>3
  <2>4. CASE x # Token(g) /\ x # Token(h)
    <3>1. R[x] = <<x>>
      BY <2>4 DEF ReplaceRule
    <3>2. Rewritten(<<x>>, Q) = <<x>>
      BY <1>2, <2>4, OtherItem
    <3>3. x \notin Tokens(GlobalVariables)
      BY <1>1, <2>4 DEF Tokens
    <3> QED
      BY <2>1, <3>1, <3>2, <3>3
  <2> QED
    BY <2>2, <2>3, <2>4
<1>7. IsRule(InputRule({}, u), Item, Item)
  BY InputRuleIsRule
<1>8. Rewritten(Rewritten(ScriptSql, R), Q) = Rewritten(ScriptSql, InputRule({}, u))
  <2> HIDE DEF R, Q
  <2> QED
    BY <1>2, <1>3, <1>5, <1>6, <1>7, RewrittenTwice
<1> QED
  BY <1>3, <1>5, <1>8 DEF SubstituteGlobalVariables, g, h

LEMMA InputStep ==
  ASSUME NEW u, Plain(u), NEW D \in SUBSET Inputs, NEW d \in Inputs \ D
  PROVE  Replace(Rewritten(ScriptSql, InputRule(D, u)), d, ReplaceString(d, u))
           = Rewritten(ScriptSql, InputRule(D \cup {d}, u))
<1> DEFINE R == InputRule(D, u)
           Q == ReplaceRule(d, ReplaceString(d, u))
           B == InputRule(D \cup {d}, u)
<1>1. IsRule(R, Item, Item) /\ IsRule(B, Item, Item)
  BY InputRuleIsRule
<1>2. ReplaceString(d, u) \in Seq(Item) /\ ScriptSql \in Seq(Item)
  BY ReplaceStringIs, ItemsAre
<1>3. Rewritten(ScriptSql, R) \in Seq(Item)
  BY <1>1, <1>2, RewrittenTyped
<1>4. /\ IsRule(Q, Item, Item)
      /\ Replace(Rewritten(ScriptSql, R), d, ReplaceString(d, u)) = Rewritten(Rewritten(ScriptSql, R), Q)
  BY <1>2, <1>3, ReplaceIsRewritten
<1>5. ASSUME NEW x \in Item PROVE B[x] = Rewritten(R[x], Q)
  <2>1. CASE x \in Tokens(GlobalVariables)
    <3>1. R[x] = <<Literal(x.token)>> /\ B[x] = <<Literal(x.token)>>
      BY <2>1 DEF InputRule
    <3>2. PICK g \in GlobalVariables : x = Token(g)
      BY <2>1 DEF Tokens
    <3>3. Literal(x.token) \in Item /\ Literal(x.token) # Token(d)
      BY <3>2, TokensAreTokens, ItemsAre
    <3> QED
      BY <1>2, <3>1, <3>3, OtherItem
  <2>2. CASE x \notin Tokens(GlobalVariables) /\ x \in Tokens(D)
    <3>1. PICK e \in D : x = Token(e)
      BY <2>2 DEF Tokens
    <3>2. x.token = e /\ e \in Inputs /\ e # d
      BY <3>1, TokensAreTokens
    <3>3. R[x] = ReplaceString(e, u) /\ B[x] = ReplaceString(e, u)
      <4>1. x \in Tokens(D \cup {d})
        BY <3>1 DEF Tokens
      <4> QED
        BY <2>2, <3>2, <4>1 DEF InputRule
    <3>4. ReplaceString(e, u) \in Seq(Item) /\ \A n \in DOMAIN ReplaceString(e, u) : ReplaceString(e, u)[n] # Token(d)
      BY <3>2, ReplaceStringIs
    <3> QED
      BY <1>2, <3>3, <3>4, TokenUnused
  <2>3. CASE x \notin Tokens(GlobalVariables) /\ x = Token(d)
    <3>1. x \notin Tokens(D) /\ x \in Tokens(D \cup {d}) /\ x.token = d
      BY <2>3, TokensAreTokens DEF Tokens
    <3>2. R[x] = <<x>> /\ B[x] = ReplaceString(d, u)
      BY <2>3, <3>1 DEF InputRule
    <3> QED
      BY <1>2, <2>3, <3>2, TokenUsed
  <2>4. CASE x \notin Tokens(GlobalVariables) /\ x \notin Tokens(D) /\ x # Token(d)
    <3>1. x \notin Tokens(D \cup {d})
      BY <2>4 DEF Tokens
    <3>2. R[x] = <<x>> /\ B[x] = <<x>>
      BY <2>4, <3>1 DEF InputRule
    <3> QED
      BY <1>2, <2>4, <3>2, OtherItem
  <2> QED
    BY <2>1, <2>2, <2>3, <2>4
<1>6. Rewritten(Rewritten(ScriptSql, R), Q) = Rewritten(ScriptSql, B)
  <2> HIDE DEF R, Q, B
  <2> QED
    BY <1>1, <1>2, <1>4, <1>5, RewrittenTwice
<1> QED
  BY <1>4, <1>6

(* A saved search has one table, and its token is left until then. *)
LEMMA SearchedIs ==
  ASSUME NEW u, Plain(u), NEW S \in SUBSET SavedSearches(u), NEW i \in S
  PROVE  /\ Searched(i.InputId, S) = {i} /\ i \in Populated(i.InputId, u)
         /\ i.InputId \in Inputs /\ i.InputId \in ToSet(Details)
         /\ Kind[i.InputId] = "SavedSearch"
         /\ \A d : d # i.InputId => Searched(d, S) = Searched(d, S \ {i})
         /\ Searched(i.InputId, S \ {i}) = {}
<1>1. i \in u /\ i \in Values /\ i.InputId \in ToSet(Details) /\ Kind[i.InputId] = "SavedSearch"
  BY DEF SavedSearches, Plain
<1>2. i.InputId \in Inputs
  BY <1>1, DetailsAssumption DEF ToSet
<1>3. \A j \in S : j.InputId = i.InputId => j = i
  BY <1>1 DEF SavedSearches, Plain, OneRowPerInput
<1> QED
  BY <1>1, <1>2, <1>3 DEF Searched, Populated

LEMMA TableStep ==
  ASSUME NEW u, Plain(u), NEW S \in SUBSET SavedSearches(u), NEW i \in S
  PROVE  Replace(Rewritten(ScriptSql, TableRule(S \ {i}, u)), i.InputId, FromTable(i))
           = Rewritten(ScriptSql, TableRule(S, u))
<1> DEFINE d == i.InputId
           R == TableRule(S \ {i}, u)
           Q == ReplaceRule(d, FromTable(i))
           B == TableRule(S, u)
<1>0. /\ Searched(d, S) = {i} /\ i \in Populated(d, u)
      /\ d \in Inputs /\ d \in ToSet(Details)
      /\ Kind[d] = "SavedSearch"
      /\ \A e : e # d => Searched(e, S) = Searched(e, S \ {i})
      /\ Searched(d, S \ {i}) = {}
  BY SearchedIs
<1>1. IsRule(R, Item, Item) /\ IsRule(B, Item, Item)
  BY TableRuleIsRule
<1>2. FromTable(i) \in Seq(Item) /\ ScriptSql \in Seq(Item)
  <2>1. i \in Values
    BY DEF SavedSearches, Plain
  <2> QED
    BY <2>1, FromTableIs, ItemsAre
<1>3. Rewritten(ScriptSql, R) \in Seq(Item)
  BY <1>1, <1>2, RewrittenTyped
<1>4. /\ IsRule(Q, Item, Item)
      /\ Replace(Rewritten(ScriptSql, R), d, FromTable(i)) = Rewritten(Rewritten(ScriptSql, R), Q)
  BY <1>2, <1>3, ReplaceIsRewritten
<1>5. ASSUME NEW x \in Item PROVE B[x] = Rewritten(R[x], Q)
  <2>1. CASE x \in Tokens(GlobalVariables)
    <3>1. R[x] = <<Literal(x.token)>> /\ B[x] = <<Literal(x.token)>>
      BY <2>1 DEF TableRule
    <3>2. PICK g \in GlobalVariables : x = Token(g)
      BY <2>1 DEF Tokens
    <3>3. Literal(x.token) \in Item /\ Literal(x.token) # Token(d)
      BY <3>2, TokensAreTokens, ItemsAre
    <3> QED
      BY <1>2, <3>1, <3>3, OtherItem
  <2>2. CASE x \notin Tokens(GlobalVariables) /\ x \notin Tokens(ToSet(Details))
    <3>1. R[x] = <<x>> /\ B[x] = <<x>>
      BY <2>2 DEF TableRule
    <3>2. x # Token(d)
      BY <1>0, <2>2 DEF Tokens
    <3> QED
      BY <1>2, <3>1, <3>2, OtherItem
  <2>3. CASE x \notin Tokens(GlobalVariables) /\ x = Token(d)
    <3>1. x \in Tokens(ToSet(Details)) /\ x.token = d
      BY <1>0, <2>3, TokensAreTokens DEF Tokens
    <3>2. R[x] = ReplaceString(d, u)
      BY <1>0, <2>3, <3>1 DEF TableRule
    <3>3. B[x] = FromTable(AnyOf({i}))
      BY <1>0, <2>3, <3>1 DEF TableRule
    <3>4. B[x] = FromTable(i)
      <4>1. AnyOf({i}) = i
        BY DEF AnyOf
      <4> QED
        BY <3>3, <4>1
    <3>5. ReplaceString(d, u) = <<Token(d)>> /\ Token(d) \in Item
      BY <1>0, <2>3, ReplaceStringIs
    <3> QED
      BY <1>2, <3>2, <3>4, <3>5, TokenUsed
  <2>4. ASSUME x \notin Tokens(GlobalVariables), x \in Tokens(ToSet(Details)), x # Token(d)
        PROVE  B[x] = Rewritten(R[x], Q)
    <3>1. PICK e \in ToSet(Details) : x = Token(e)
      BY <2>4 DEF Tokens
    <3>2. x.token = e /\ e \in Inputs /\ e # d
      BY <2>4, <3>1, TokensAreTokens, DetailsAssumption DEF ToSet
    <3>3. Searched(e, S) = Searched(e, S \ {i})
      BY <1>0, <3>2
    <3>4. CASE Searched(e, S) # {}
      <4> DEFINE j == AnyOf(Searched(e, S))
      <4>1. R[x] = FromTable(j) /\ B[x] = FromTable(j)
        BY <2>4, <3>2, <3>3, <3>4 DEF TableRule
      <4>2. j \in Values
        BY <3>4 DEF AnyOf, Searched, SavedSearches, Plain
      <4> HIDE DEF j
      <4>3. FromTable(j) \in Seq(Item) /\ \A n \in DOMAIN FromTable(j) : FromTable(j)[n] # Token(d)
        BY <4>2, FromTableIs
      <4> QED
        BY <1>2, <4>1, <4>3, TokenUnused
    <3>5. CASE Searched(e, S) = {}
      <4>1. R[x] = ReplaceString(e, u) /\ B[x] = ReplaceString(e, u)
        BY <2>4, <3>2, <3>3, <3>5 DEF TableRule
      <4>2. ReplaceString(e, u) \in Seq(Item) /\ \A n \in DOMAIN ReplaceString(e, u) : ReplaceString(e, u)[n] # Token(d)
        BY <3>2, ReplaceStringIs
      <4> QED
        BY <1>2, <4>1, <4>2, TokenUnused
    <3> QED
      BY <3>4, <3>5
  <2> QED
    BY <2>1, <2>2, <2>3, <2>4
<1>6. Rewritten(Rewritten(ScriptSql, R), Q) = Rewritten(ScriptSql, B)
  <2> HIDE DEF R, Q, B
  <2> QED
    BY <1>1, <1>2, <1>4, <1>5, RewrittenTwice
<1> QED
  BY <1>4, <1>6

LEMMA NoTableYet ==
  ASSUME NEW u
  PROVE  InputRule(ToSet(Details), u) = TableRule({}, u)
<1>1. \A d : Searched(d, {}) = {}
  BY DEF Searched
<1> QED
  BY <1>1 DEF InputRule, TableRule

LEMMA AllTables ==
  ASSUME NEW u, Plain(u)
  PROVE  Rewritten(ScriptSql, TableRule(SavedSearches(u), u))
           = FlattenSeq([n \in DOMAIN ScriptSql |-> Expected(ScriptSql[n], u)])
<1> DEFINE S == SavedSearches(u)
<1>1. ASSUME NEW x \in Item PROVE TableRule(S, u)[x] = Expected(x, u)
  <2>1. CASE x \in Tokens(GlobalVariables)
    BY <2>1 DEF TableRule, Expected, Tokens
  <2>2. CASE x \notin Tokens(GlobalVariables) /\ x \notin Tokens(ToSet(Details))
    BY <2>2 DEF TableRule, Expected, Tokens
  <2>3. CASE x \notin Tokens(GlobalVariables) /\ x \in Tokens(ToSet(Details))
    <3>1. PICK d \in ToSet(Details) : x = Token(d)
      BY <2>3 DEF Tokens
    <3>2. x.token = d
      BY <3>1, TokensAreTokens
    <3>3. Expected(x, u) =
            IF Kind[d] = "SavedSearch" /\ Populated(d, u) # {}
              THEN FromTable(AnyOf(Populated(d, u)))
              ELSE ReplaceString(d, u)
      BY <2>3, <3>2 DEF Expected, Tokens, AnyOf
    <3>4. TableRule(S, u)[x] =
            IF Searched(d, S) # {} THEN FromTable(AnyOf(Searched(d, S)))
            ELSE ReplaceString(d, u)
      BY <2>3, <3>2 DEF TableRule
    <3>5. Searched(d, S) = IF Kind[d] = "SavedSearch" THEN Populated(d, u) ELSE {}
      BY DEF Searched, SavedSearches, Populated
    <3> HIDE DEF S
    <3> QED
      BY <3>3, <3>4, <3>5
  <2> QED
    BY <2>1, <2>2, <2>3
<1>2. \A n \in DOMAIN ScriptSql : ScriptSql[n] \in Item
  <2>1. ScriptSql \in Seq(Item)
    BY ItemsAre
  <2> QED
    BY <2>1
<1>3. [n \in DOMAIN ScriptSql |-> TableRule(S, u)[ScriptSql[n]]]
        = [n \in DOMAIN ScriptSql |-> Expected(ScriptSql[n], u)]
  BY <1>1, <1>2
<1> QED
  BY <1>3 DEF Rewritten

(***************************************************************************)
(* The two loops: FoldLeft goes through the script's inputs in order, and  *)
(* FoldFunction through the saved searches in any.                         *)
(***************************************************************************)
FoldsDetails(h, u, sql) ==
  /\ h[{}] = sql
  /\ \A s \in SUBSET DOMAIN Details :
       s # {} => h[s] = Replace(h[s \ {Max(s)}], Details[Max(s)], ReplaceString(Details[Max(s)], u))

LEMMA DetailsFold ==
  ASSUME NEW u, Plain(u), NEW sql \in Seq(Item)
  PROVE  \E h : FoldsDetails(h, u, sql) /\ SubstituteScriptInputs(u, sql) = h[DOMAIN Details]
<1> DEFINE D == DOMAIN Details
           iter == CHOOSE h : h = [s \in SUBSET D |->
             IF s = {} THEN sql
             ELSE Replace(h[s \ {Max(s)}], Details[Max(s)], ReplaceString(Details[Max(s)], u))]
           X == Seq(Item)
           F == [p \in D \X X |-> Replace(p[2], Details[p[1]], ReplaceString(Details[p[1]], u))]
           ch == [s \in SUBSET D |-> Max(s)]
<1>1. SubstituteScriptInputs(u, sql) = iter[D]
  BY Zenon DEF SubstituteScriptInputs, FoldLeft, MapThenFoldSet
<1>2. Len(Details) \in Nat /\ D = 1 .. Len(Details) /\ \A n \in D : Details[n] \in Inputs
  BY DetailsAssumption
<1>3. IsFiniteSet(D) /\ \A s \in SUBSET D : s # {} => ch[s] \in s /\ Max(s) \in s
  <2>1. IsFiniteSet(1 .. Len(Details))
    BY <1>2, FS_Interval
  <2>2. \A s \in SUBSET (1 .. Len(Details)) : s # {} => Max(s) \in s
    BY <1>2, MaxIsIn
  <2> QED
    BY <1>2, <2>1, <2>2
<1>4. \A n \in D, t \in X : Replace(t, Details[n], ReplaceString(Details[n], u)) \in X
  <2> SUFFICES ASSUME NEW n \in D, NEW t \in X
               PROVE  Replace(t, Details[n], ReplaceString(Details[n], u)) \in X
    OBVIOUS
  <2>1. ReplaceString(Details[n], u) \in Seq(Item)
    BY <1>2, ReplaceStringIs
  <2> QED
    BY <2>1, ReplaceIsRewritten, RewrittenTyped
<1>5. F \in [D \X X -> X] /\ \A n \in D, t \in X : F[<<n, t>>] = Replace(t, Details[n], ReplaceString(Details[n], u))
  <2> HIDE DEF X, D
  <2> QED
    BY <1>4
<1>6. IsDefinedOnSubsets(D, X, sql, F, ch)
  <2> HIDE DEF X, D, F, ch
  <2>1. sql \in X
    BY DEF X
  <2> QED
    BY <1>3, <1>5, <2>1, RecursionOnSubsets
<1>7. PICK g \in [SUBSET D -> X] :
        /\ g[{}] = sql
        /\ \A s \in SUBSET D : s # {} => g[s] = F[<<ch[s], g[s \ {ch[s]}]>>]
  <2> HIDE DEF X, D, F, ch
  <2> QED
    BY <1>6 DEF IsDefinedOnSubsets
<1>8. ASSUME NEW s \in SUBSET D, s # {}
      PROVE  g[s] = Replace(g[s \ {Max(s)}], Details[Max(s)], ReplaceString(Details[Max(s)], u))
  <2>1. ch[s] = Max(s) /\ Max(s) \in D /\ s \ {Max(s)} \in SUBSET D
    BY <1>3, <1>8
  <2>2. g[s \ {Max(s)}] \in X
    <3> HIDE DEF X, D
    <3> QED
      BY <1>7, <2>1
  <2>3. g[s] = F[<<Max(s), g[s \ {Max(s)}]>>]
    BY <1>7, <1>8, <2>1
  <2> HIDE DEF F, X, D
  <2> QED
    BY <1>5, <2>1, <2>2, <2>3
<1>9. g = [s \in SUBSET D |->
             IF s = {} THEN sql
             ELSE Replace(g[s \ {Max(s)}], Details[Max(s)], ReplaceString(Details[Max(s)], u))]
  <2> HIDE DEF F, X, D, ch
  <2>1. g = [s \in SUBSET D |-> g[s]]
    BY <1>7
  <2>2. \A s \in SUBSET D : g[s] = IF s = {} THEN sql
             ELSE Replace(g[s \ {Max(s)}], Details[Max(s)], ReplaceString(Details[Max(s)], u))
    BY <1>7, <1>8
  <2> QED
    BY <2>1, <2>2
<1>10. iter = [s \in SUBSET D |->
             IF s = {} THEN sql
             ELSE Replace(iter[s \ {Max(s)}], Details[Max(s)], ReplaceString(Details[Max(s)], u))]
  BY <1>9, Zenon
<1> HIDE DEF iter
<1>11. FoldsDetails(iter, u, sql)
  BY <1>10 DEF FoldsDetails
<1> QED
  BY <1>1, <1>11

First(k) == {Details[j] : j \in 1 .. k}

LEMMA InputsStep ==
  ASSUME NEW u, Plain(u)
  PROVE  SubstituteScriptInputs(u, Rewritten(ScriptSql, InputRule({}, u)))
           = Rewritten(ScriptSql, InputRule(ToSet(Details), u))
<1> DEFINE sql == Rewritten(ScriptSql, InputRule({}, u))
           N == Len(Details)
<1>1. sql \in Seq(Item)
  BY ItemsAre, InputRuleIsRule, RewrittenTyped
<1>2. PICK h : FoldsDetails(h, u, sql) /\ SubstituteScriptInputs(u, sql) = h[DOMAIN Details]
  <2> HIDE DEF sql
  <2> QED
    BY <1>1, DetailsFold
<1>3. N \in Nat /\ DOMAIN Details = 1 .. N /\ \A n \in 1 .. N : Details[n] \in Inputs
  BY DetailsAssumption
<1> HIDE DEF N
<1> DEFINE T == {k \in Nat : k <= N => h[1 .. k] = Rewritten(ScriptSql, InputRule(First(k), u))}
<1>4. 0 \in T
  <2>1. 1 .. 0 = {} /\ First(0) = {}
    BY DEF First
  <2> QED
    BY <1>2, <2>1 DEF FoldsDetails
<1>5. ASSUME NEW k \in Nat, k \in T PROVE k + 1 \in T
  <2> SUFFICES ASSUME k + 1 <= N
               PROVE  h[1 .. k + 1] = Rewritten(ScriptSql, InputRule(First(k + 1), u))
    OBVIOUS
  <2> DEFINE d == Details[k + 1]
  <2>1. /\ 1 .. k + 1 \in SUBSET DOMAIN Details /\ 1 .. k + 1 # {}
        /\ Max(1 .. k + 1) = k + 1 /\ (1 .. k + 1) \ {k + 1} = 1 .. k
    BY <1>3, MaxOfInterval
  <2>2. h[1 .. k + 1] = Replace(h[1 .. k], d, ReplaceString(d, u))
    BY <1>2, <2>1 DEF FoldsDetails
  <2>3. h[1 .. k] = Rewritten(ScriptSql, InputRule(First(k), u))
    BY <1>3, <1>5
  <2>4. First(k) \in SUBSET Inputs /\ First(k + 1) = First(k) \cup {d}
    BY <1>3 DEF First
  <2>5. d \in Inputs \ First(k)
    <3>1. d \in Inputs
      BY <1>3
    <3>2. ASSUME NEW j \in 1 .. k, Details[j] = d PROVE FALSE
      <4>1. j \in DOMAIN Details /\ k + 1 \in DOMAIN Details /\ j # k + 1
        BY <1>3
      <4> QED
        BY <3>2, <4>1, DetailsAssumption DEF IsInjective
    <3> QED
      BY <3>1, <3>2 DEF First
  <2> HIDE DEF d
  <2>6. Replace(Rewritten(ScriptSql, InputRule(First(k), u)), d, ReplaceString(d, u))
          = Rewritten(ScriptSql, InputRule(First(k) \cup {d}, u))
    BY <2>4, <2>5, InputStep
  <2> QED
    BY <2>2, <2>3, <2>4, <2>6
<1>6. Nat \subseteq T
  <2> HIDE DEF T
  <2> QED
    BY <1>4, <1>5, InductionOnNat
<1>7. h[1 .. N] = Rewritten(ScriptSql, InputRule(First(N), u))
  BY <1>3, <1>6
<1>8. First(N) = ToSet(Details)
  BY <1>3 DEF First, ToSet
<1> QED
  BY <1>2, <1>3, <1>7, <1>8

FoldsSearches(h, u, sql) ==
  /\ h[{}] = sql
  /\ \A s \in SUBSET SavedSearches(u) :
       s # {} => \E i \in s : h[s] = Replace(h[s \ {i}], i.InputId, FromTable(i))

LEMMA SearchesFinite ==
  ASSUME NEW u, Plain(u)
  PROVE  IsFiniteSet(SavedSearches(u))
<1> DEFINE S == SavedSearches(u)
           f == [i \in S |-> i.InputId]
           R == ToSet(Details)
<1>1. f \in Injection(S, R)
  <2>1. \A i \in S : i.InputId \in R /\ \A j \in S : i.InputId = j.InputId => i = j
    BY DEF SavedSearches, Plain, OneRowPerInput
  <2> HIDE DEF S, R
  <2> QED
    BY <2>1 DEF Injection, IsInjective
<1>2. IsFiniteSet(R)
  <2>1. Len(Details) \in Nat /\ DOMAIN Details = 1 .. Len(Details)
    BY DetailsAssumption
  <2>2. IsFiniteSet(DOMAIN Details)
    BY <2>1, FS_Interval
  <2>3. [n \in DOMAIN Details |-> Details[n]] \in Surjection(DOMAIN Details, R)
    BY DEF Surjection, ToSet
  <2> QED
    BY <2>2, <2>3, FS_Surjection
<1> HIDE DEF S, f, R
<1>3. IsFiniteSet(S)
  BY <1>1, <1>2, FS_Injection
<1> QED
  BY <1>3 DEF S

LEMMA SearchesFold ==
  ASSUME NEW u, Plain(u), NEW sql \in Seq(Item)
  PROVE  \E h : FoldsSearches(h, u, sql) /\ SubstituteSavedSearchTables(u, sql) = h[SavedSearches(u)]
<1> DEFINE D == SavedSearches(u)
           any(s) == CHOOSE x \in s : TRUE
           id == [j \in D |-> j]
           iter == CHOOSE h : h = [s \in SUBSET D |->
             IF s = {} THEN sql
             ELSE Replace(h[s \ {any(s)}], id[any(s)].InputId, FromTable(id[any(s)]))]
           X == Seq(Item)
           F == [p \in D \X X |-> Replace(p[2], p[1].InputId, FromTable(p[1]))]
           ch == [s \in SUBSET D |-> any(s)]
<1>1. SubstituteSavedSearchTables(u, sql) = iter[D]
  <2>1. DOMAIN id = D
    OBVIOUS
  <2> QED
    BY <2>1, Zenon DEF SubstituteSavedSearchTables, FoldFunction, FoldFunctionOnSet, MapThenFoldSet
<1>2. D \subseteq Values
  BY DEF SavedSearches, Plain
<1>3. IsFiniteSet(D) /\ \A s \in SUBSET D : s # {} => ch[s] \in s /\ any(s) \in s
  BY SearchesFinite
<1>4. \A i \in D, t \in X : Replace(t, i.InputId, FromTable(i)) \in X
  <2> SUFFICES ASSUME NEW i \in D, NEW t \in X
               PROVE  Replace(t, i.InputId, FromTable(i)) \in X
    OBVIOUS
  <2>1. FromTable(i) \in Seq(Item)
    BY <1>2, FromTableIs
  <2> QED
    BY <2>1, ReplaceIsRewritten, RewrittenTyped
<1>5. F \in [D \X X -> X] /\ \A i \in D, t \in X : F[<<i, t>>] = Replace(t, i.InputId, FromTable(i))
  <2> HIDE DEF X, D
  <2> QED
    BY <1>4
<1>6. IsDefinedOnSubsets(D, X, sql, F, ch)
  <2> HIDE DEF X, D, F, ch
  <2>1. sql \in X
    BY DEF X
  <2> QED
    BY <1>3, <1>5, <2>1, RecursionOnSubsets
<1>7. PICK g \in [SUBSET D -> X] :
        /\ g[{}] = sql
        /\ \A s \in SUBSET D : s # {} => g[s] = F[<<ch[s], g[s \ {ch[s]}]>>]
  <2> HIDE DEF X, D, F, ch
  <2> QED
    BY <1>6 DEF IsDefinedOnSubsets
<1> HIDE DEF any
<1>8. ASSUME NEW s \in SUBSET D, s # {}
      PROVE  g[s] = Replace(g[s \ {any(s)}], id[any(s)].InputId, FromTable(id[any(s)]))
  <2>1. ch[s] = any(s) /\ any(s) \in D /\ s \ {any(s)} \in SUBSET D /\ id[any(s)] = any(s)
    BY <1>3, <1>8
  <2>2. g[s \ {any(s)}] \in X
    <3> HIDE DEF X, D, id
    <3> QED
      BY <1>7, <2>1
  <2>3. g[s] = F[<<any(s), g[s \ {any(s)}]>>]
    BY <1>7, <1>8, <2>1
  <2> HIDE DEF F, X, D, id
  <2> QED
    BY <1>5, <2>1, <2>2, <2>3
<1>9. g = [s \in SUBSET D |->
             IF s = {} THEN sql
             ELSE Replace(g[s \ {any(s)}], id[any(s)].InputId, FromTable(id[any(s)]))]
  <2> HIDE DEF F, X, D, ch, id
  <2>1. g = [s \in SUBSET D |-> g[s]]
    BY <1>7
  <2>2. \A s \in SUBSET D : g[s] = IF s = {} THEN sql
             ELSE Replace(g[s \ {any(s)}], id[any(s)].InputId, FromTable(id[any(s)]))
    BY <1>7, <1>8
  <2> QED
    BY <2>1, <2>2
<1>10. iter = [s \in SUBSET D |->
             IF s = {} THEN sql
             ELSE Replace(iter[s \ {any(s)}], id[any(s)].InputId, FromTable(id[any(s)]))]
  BY <1>9, Zenon
<1> HIDE DEF iter
<1>11. FoldsSearches(iter, u, sql)
  <2>1. iter[{}] = sql
    BY <1>10
  <2>2. ASSUME NEW s \in SUBSET D, s # {}
        PROVE  any(s) \in s /\ iter[s] = Replace(iter[s \ {any(s)}], any(s).InputId, FromTable(any(s)))
    <3>1. any(s) \in s /\ id[any(s)] = any(s)
      BY <1>3, <2>2
    <3> HIDE DEF id, D
    <3> QED
      BY <1>10, <2>2, <3>1
  <2> QED
    BY <2>1, <2>2 DEF FoldsSearches
<1> QED
  BY <1>1, <1>11

LEMMA TablesStep ==
  ASSUME NEW u, Plain(u)
  PROVE  SubstituteSavedSearchTables(u, Rewritten(ScriptSql, TableRule({}, u)))
           = Rewritten(ScriptSql, TableRule(SavedSearches(u), u))
<1> DEFINE sql == Rewritten(ScriptSql, TableRule({}, u))
           D == SavedSearches(u)
<1>1. sql \in Seq(Item)
  BY ItemsAre, TableRuleIsRule, RewrittenTyped
<1>2. PICK h : FoldsSearches(h, u, sql) /\ SubstituteSavedSearchTables(u, sql) = h[D]
  <2> HIDE DEF sql
  <2> QED
    BY <1>1, SearchesFold
<1>3. \A s \in SUBSET D : IsFiniteSet(s) /\ Cardinality(s) \in Nat
  BY SearchesFinite, FS_Subset, FS_CardinalityType
<1> DEFINE T == {k \in Nat : \A s \in SUBSET D :
                   Cardinality(s) = k => h[s] = Rewritten(ScriptSql, TableRule(s, u))}
<1>4. 0 \in T
  <2>1. ASSUME NEW s \in SUBSET D, Cardinality(s) = 0 PROVE h[s] = Rewritten(ScriptSql, TableRule(s, u))
    <3>1. s = {}
      BY <1>3, <2>1, FS_EmptySet
    <3> QED
      BY <1>2, <3>1 DEF FoldsSearches
  <2> QED
    BY <2>1
<1>5. ASSUME NEW k \in Nat, k \in T PROVE k + 1 \in T
  <2> SUFFICES ASSUME NEW s \in SUBSET D, Cardinality(s) = k + 1
               PROVE  h[s] = Rewritten(ScriptSql, TableRule(s, u))
    OBVIOUS
  <2>1. s # {}
    BY FS_EmptySet
  <2>2. PICK i \in s : h[s] = Replace(h[s \ {i}], i.InputId, FromTable(i))
    BY <1>2, <2>1 DEF FoldsSearches
  <2>3. Cardinality(s \ {i}) = k /\ s \ {i} \in SUBSET D
    <3>1. IsFiniteSet(s) /\ i \in s
      BY <1>3
    <3>2. Cardinality(s \ {i}) = Cardinality(s) - 1
      BY <3>1, FS_RemoveElement
    <3> QED
      BY <3>2
  <2>4. h[s \ {i}] = Rewritten(ScriptSql, TableRule(s \ {i}, u))
    BY <1>5, <2>3
  <2> QED
    BY <2>2, <2>4, TableStep
<1>6. Nat \subseteq T
  <2> HIDE DEF T
  <2> QED
    BY <1>4, <1>5, InductionOnNat
<1>7. h[D] = Rewritten(ScriptSql, TableRule(D, u))
  <2>1. Cardinality(D) \in T /\ D \in SUBSET D
    BY <1>3, <1>6
  <2> QED
    BY <2>1
<1> QED
  BY <1>2, <1>7

(* From the script's text to the SQL: every token by its own value. *)
LEMMA DirectSqlIs ==
  ASSUME NEW u, Plain(u)
  PROVE  DirectSql(u) = FlattenSeq([n \in DOMAIN ScriptSql |-> Expected(ScriptSql[n], u)])
BY GlobalVariablesStep, InputsStep, NoTableYet, TablesStep, AllTables DEF DirectSql

-----------------------------------------------------------------------------
(***************************************************************************)
(* The inductive invariant.  The row's lock, which the first statement of  *)
(* a Save takes, is what keeps two saves from mixing their inputs: only    *)
(* its holder has deleted or inserted any.                                 *)
(***************************************************************************)
TransactionKept(c) ==
  tx[c] # None =>
    /\ lock = c <=> tx[c].at >= 2
    /\ tx[c].deleted = IF tx[c].at >= 3 THEN inputs ELSE {}
    /\ tx[c].inserted = IF tx[c].at = 4 THEN tx[c].posted ELSE {}
    /\ \A i \in tx[c].posted : i.save = tx[c].row.save

(* Every copy of the row is that of a save that was committed. *)
CopiesAreCommitted ==
  /\ row # None => row.save \in ToSet(committed)
  /\ \A c \in Clients : page[c] \in Row => page[c].save \in ToSet(committed)
  /\ \A a \in Agents : run[a].pc # "Idle" => run[a].job.save \in ToSet(committed)

InputsAreCommitted ==
  \A i \in inputs : Len(committed) > 0 /\ i.save = committed[Len(committed)]

RunsAreRecords ==
  \A a \in Agents :
    run[a] = [pc |-> run[a].pc, job |-> run[a].job, inputs |-> run[a].inputs, sql |-> run[a].sql]

(* Each set of inputs has one row for an input. *)
InputsAreOnce ==
  /\ OneRowPerInput(posted)
  /\ \A c \in Clients : tx[c] # None => OneRowPerInput(tx[c].posted)

SqlIsOfInputs ==
  \A a \in Agents : run[a].pc = "Execute" =>
    OneRowPerInput(run[a].inputs) /\ run[a].sql = DirectSql(run[a].inputs)

(* A row that was stored stays. *)
RowIsStored ==
  /\ committed # <<>> => row # None
  /\ \A a \in Agents : run[a].pc # "Idle" => row # None

InputsInv ==
  /\ TypeOK
  /\ \A c \in Clients : TransactionKept(c)
  /\ StoredInputsOfLastSave
  /\ CopiesAreCommitted
  /\ InputsAreCommitted
  /\ RunsAreRecords
  /\ RunInputsNotOlder
  /\ InputsAreOnce
  /\ SqlIsOfInputs
  /\ RowIsStored

LEMMA InitInputsInv == Init => InputsInv
<1> SUFFICES ASSUME Init PROVE InputsInv
  OBVIOUS
<1> USE DEF Init
<1>1. TypeOK
  <2>1. committed \in Seq(Save) /\ saves \in 0 .. MaxSaves
    BY MaxSavesAssumption
  <2> QED
    BY <2>1 DEF TypeOK, NoRun
<1>2. \A c \in Clients : TransactionKept(c)
  BY DEF TransactionKept
<1>3. CopiesAreCommitted
  BY NoneAssumption DEF CopiesAreCommitted, NoRun
<1>4. InputsAreCommitted /\ RunsAreRecords /\ RunInputsNotOlder /\ StoredInputsOfLastSave
  BY DEF InputsAreCommitted, RunsAreRecords, RunInputsNotOlder, StoredInputsOfLastSave, NoRun
<1>5. InputsAreOnce /\ SqlIsOfInputs /\ RowIsStored
  BY DEF InputsAreOnce, OneRowPerInput, SqlIsOfInputs, RowIsStored, NoRun
<1> QED
  BY <1>1, <1>2, <1>3, <1>4, <1>5 DEF InputsInv

LEMMA NewPageHasNoSave == NewPage \notin Row
BY NoneAssumption DEF NewPage, Row

LEMMA EditedRow ==
  ASSUME NEW r \in Row \cup {NewPage}, NEW n \in Save
  PROVE  /\ [r EXCEPT !.save = n] \in Row
         /\ [r EXCEPT !.save = n].save = n
BY DEF Row, NewPage, Idle, Waiting, Running

LEMMA WithStatus ==
  ASSUME NEW r \in Row, NEW s \in {Idle, Waiting, Running}
  PROVE  /\ [r EXCEPT !.JobStatus = s] \in Row
         /\ [r EXCEPT !.JobStatus = s].save = r.save
BY DEF Row

LEMMA PostedTyped ==
  ASSUME NEW n \in Save, NEW new \in PostedInputs(n)
  PROVE  /\ new \subseteq JobScriptInput(Save)
         /\ \A i \in new : i.save = n
         /\ OneRowPerInput(new)
<1>1. PICK supplied \in SUBSET Inputs,
           h \in {f \in [Inputs -> Inputs \cup Patterns \cup {Verbatim}] :
                  \A i \in Inputs : f[i] \in Holdable[i] \cup {Verbatim}} :
        new = {[InputId |-> i, save |-> n, holds |-> h[i]] : i \in supplied}
  BY DEF PostedInputs
<1> QED
  BY <1>1 DEF JobScriptInput, OneRowPerInput

(***************************************************************************)
(* What each step of a transaction makes of it.                            *)
(***************************************************************************)
LEMMA StatementIs ==
  ASSUME TypeOK, NEW c \in Clients, tx[c] # None
  PROVE  /\ tx[c] \in Transaction
         /\ tx[c].at \in 1 .. 4
         /\ Statement(c) = "Row" <=> tx[c].at = 1
         /\ Statement(c) = "Delete" <=> tx[c].at = 2
         /\ Statement(c) = "BulkCopy" <=> tx[c].at = 3
         /\ Statement(c) = "Commit" <=> tx[c].at = 4
BY DEF TypeOK, Transaction, Statement, Statements

LEMMA NextStatement ==
  ASSUME NEW t \in Transaction, t.at \in 1 .. 3
  PROVE  LET u == [t EXCEPT !.at = @ + 1]
         IN  /\ u \in Transaction /\ u.at = t.at + 1
             /\ u.row = t.row /\ u.posted = t.posted
             /\ u.deleted = t.deleted /\ u.inserted = t.inserted
<1> DEFINE u == [t EXCEPT !.at = @ + 1]
<1>1. /\ t = [at |-> t.at, row |-> t.row, posted |-> t.posted, deleted |-> t.deleted,
             inserted |-> t.inserted]
      /\ t.row \in Row /\ t.posted \subseteq JobScriptInput(Save)
      /\ t.deleted \subseteq JobScriptInput(Save) /\ t.inserted \subseteq JobScriptInput(Save)
  BY DEF Transaction
<1>2. u = [at |-> t.at + 1, row |-> t.row, posted |-> t.posted, deleted |-> t.deleted,
           inserted |-> t.inserted]
  BY <1>1
<1>3. t.at + 1 \in 1 .. Len(Statements)
  BY DEF Statements
<1>4. u \in Transaction
  BY <1>1, <1>2, <1>3 DEF Transaction
<1> QED
  BY <1>2, <1>4

LEMMA BeginSaveMakes ==
  ASSUME TypeOK, NEW c \in Clients, BeginSave(c)
  PROVE  /\ tx'[c] \in Transaction /\ tx'[c].at = 1
         /\ tx'[c].deleted = {} /\ tx'[c].inserted = {}
         /\ \A i \in tx'[c].posted : i.save = tx'[c].row.save
         /\ OneRowPerInput(tx'[c].posted)
         /\ tx' \in [Clients -> Transaction \cup {None}]
         /\ \A d \in Clients : d # c => tx'[d] = tx[d]
<1> DEFINE edited == [page[c] EXCEPT !.save = saves + 1]
<1>1. PICK new \in PostedInputs(saves + 1) :
        tx' = [tx EXCEPT ![c] = [at |-> 1, row |-> edited,
                                 posted |-> new, deleted |-> {}, inserted |-> {}]]
  BY DEF BeginSave
<1>2. saves + 1 \in Save /\ page[c] \in Row \cup {NewPage}
  BY MaxSavesAssumption DEF BeginSave, TypeOK, Save
<1>3. /\ new \subseteq JobScriptInput(Save) /\ OneRowPerInput(new)
      /\ \A i \in new : i.save = saves + 1
  BY <1>2, PostedTyped
<1>4. edited \in Row /\ edited.save = saves + 1
  BY <1>2, EditedRow
<1> HIDE DEF edited
<1>5. /\ tx'[c] = [at |-> 1, row |-> edited, posted |-> new, deleted |-> {}, inserted |-> {}]
      /\ \A d \in Clients : d # c => tx'[d] = tx[d]
      /\ DOMAIN tx' = Clients
  BY <1>1 DEF TypeOK
<1>6. tx'[c] \in Transaction
  BY <1>3, <1>4, <1>5 DEF Transaction, Statements
<1>7. tx' \in [Clients -> Transaction \cup {None}]
  <2>1. tx' = [d \in Clients |-> tx'[d]]
    BY <1>1 DEF TypeOK
  <2> QED
    BY <2>1, <1>5, <1>6 DEF TypeOK
<1> QED
  BY <1>3, <1>4, <1>5, <1>6, <1>7

(***************************************************************************)
(* A statement of a transaction advances it, and leaves the others alone.  *)
(***************************************************************************)
Advanced(c, deleted, inserted) ==
  /\ tx'[c] \in Transaction /\ tx'[c].at = tx[c].at + 1
  /\ tx'[c].row = tx[c].row /\ tx'[c].posted = tx[c].posted
  /\ tx'[c].deleted = deleted /\ tx'[c].inserted = inserted
  /\ tx' \in [Clients -> Transaction \cup {None}]
  /\ \A d \in Clients : d # c => tx'[d] = tx[d]

LEMMA SaveRowMakes ==
  ASSUME TypeOK, NEW c \in Clients, SaveRow(c)
  PROVE  tx[c].at = 1 /\ Advanced(c, tx[c].deleted, tx[c].inserted)
<1>1. tx[c] \in Transaction /\ tx[c].at = 1
  BY StatementIs DEF SaveRow
<1>2. tx' = [tx EXCEPT ![c] = [tx[c] EXCEPT !.at = @ + 1]]
  BY DEF SaveRow
<1>3. tx'[c] = [tx[c] EXCEPT !.at = @ + 1] /\ \A d \in Clients : d # c => tx'[d] = tx[d]
  BY <1>2 DEF TypeOK
<1>4. tx' \in [Clients -> Transaction \cup {None}]
  BY <1>1, <1>2, NextStatement DEF TypeOK
<1> QED
  BY <1>1, <1>3, <1>4, NextStatement DEF Advanced

LEMMA DeleteInputsMakes ==
  ASSUME TypeOK, NEW c \in Clients, DeleteInputs(c)
  PROVE  tx[c].at = 2 /\ Advanced(c, inputs, tx[c].inserted)
<1> DEFINE t == [tx[c] EXCEPT !.at = @ + 1]
<1>1. tx[c] \in Transaction /\ tx[c].at = 2
  BY StatementIs DEF DeleteInputs
<1>2. /\ t \in Transaction /\ t.at = tx[c].at + 1 /\ t.row = tx[c].row
      /\ t.posted = tx[c].posted /\ t.inserted = tx[c].inserted
  BY <1>1, NextStatement
<1>3. tx' = [tx EXCEPT ![c] = [t EXCEPT !.deleted = inputs]]
  BY DEF DeleteInputs
<1> HIDE DEF t
<1>4. tx'[c] = [t EXCEPT !.deleted = inputs] /\ \A d \in Clients : d # c => tx'[d] = tx[d]
  BY <1>3 DEF TypeOK
<1>5. [t EXCEPT !.deleted = inputs] \in Transaction
  BY <1>2 DEF TypeOK, Transaction
<1>6. tx' \in [Clients -> Transaction \cup {None}]
  BY <1>3, <1>5 DEF TypeOK
<1> QED
  BY <1>1, <1>2, <1>4, <1>5, <1>6 DEF Advanced, Transaction

LEMMA BulkCopyInputsMakes ==
  ASSUME TypeOK, NEW c \in Clients, BulkCopyInputs(c)
  PROVE  tx[c].at = 3 /\ Advanced(c, tx[c].deleted, tx[c].posted)
<1> DEFINE t == [tx[c] EXCEPT !.at = @ + 1]
<1>1. tx[c] \in Transaction /\ tx[c].at = 3
  BY StatementIs DEF BulkCopyInputs
<1>2. /\ t \in Transaction /\ t.at = tx[c].at + 1 /\ t.row = tx[c].row
      /\ t.posted = tx[c].posted /\ t.deleted = tx[c].deleted
  BY <1>1, NextStatement
<1>3. tx' = [tx EXCEPT ![c] = [t EXCEPT !.inserted = tx[c].posted]]
  BY DEF BulkCopyInputs
<1> HIDE DEF t
<1>4. tx'[c] = [t EXCEPT !.inserted = tx[c].posted] /\ \A d \in Clients : d # c => tx'[d] = tx[d]
  BY <1>3 DEF TypeOK
<1>5. [t EXCEPT !.inserted = tx[c].posted] \in Transaction
  BY <1>1, <1>2 DEF Transaction
<1>6. tx' \in [Clients -> Transaction \cup {None}]
  BY <1>3, <1>5 DEF TypeOK
<1> QED
  BY <1>1, <1>2, <1>4, <1>5, <1>6 DEF Advanced, Transaction

LEMMA RunsStayRecords == TypeOK /\ RunsAreRecords /\ [Next]_vars => RunsAreRecords'
<1> SUFFICES ASSUME TypeOK, RunsAreRecords, [Next]_vars PROVE RunsAreRecords'
  OBVIOUS
<1>1. CASE run' = run
  BY <1>1 DEF RunsAreRecords
<1>2. ASSUME NEW a \in Agents, AgentStep(a) PROVE RunsAreRecords'
  <2> DEFINE IsRecord(r) == r = [pc |-> r.pc, job |-> r.job, inputs |-> r.inputs, sql |-> r.sql]
  <2>1. IsRecord(run[a]) /\ IsRecord(NoRun)
    BY DEF RunsAreRecords, NoRun
  <2>2. DOMAIN run' = Agents /\ \A b \in Agents : b # a => run'[b] = run[b]
    BY <1>2 DEF AgentStep, GetJobSchedules, StartJob, GetJobInputs, FinishJob, TypeOK
  <2>3. ASSUME GetJobSchedules(a) PROVE IsRecord(run'[a])
    <3>1. run'[a] = [pc |-> "Listed", job |-> row, inputs |-> {}, sql |-> <<>>]
      BY <2>3 DEF GetJobSchedules, TypeOK, NoRun
    <3> QED
      BY <3>1
  <2>4. ASSUME StartJob(a) PROVE IsRecord(run'[a])
    <3>1. run'[a] \in {NoRun, [pc |-> "Started", job |-> [run[a].job EXCEPT !.JobStatus = Running],
                              inputs |-> run[a].inputs, sql |-> run[a].sql]}
      BY <2>1, <2>4 DEF StartJob, TypeOK
    <3> QED
      BY <2>1, <3>1
  <2>5. ASSUME GetJobInputs(a) PROVE IsRecord(run'[a])
    <3>1. run'[a] = [pc |-> "Execute", job |-> run[a].job, inputs |-> inputs, sql |-> DirectSql(inputs)]
      BY <2>1, <2>5 DEF GetJobInputs, TypeOK
    <3> QED
      BY <3>1
  <2>6. ASSUME FinishJob(a) PROVE IsRecord(run'[a])
    BY <2>1, <2>6 DEF FinishJob, TypeOK
  <2>7. IsRecord(run'[a])
    BY <1>2, <2>3, <2>4, <2>5, <2>6 DEF AgentStep
  <2> QED
    BY <2>2, <2>7 DEF RunsAreRecords
<1> QED
  BY <1>1, <1>2 DEF Next, SaveStep, PageStep, SaveRow, DeleteInputs, BulkCopyInputs, CommitSave,
     Rollback, NewSchedule, Index, BeginSave, ActivateJob, vars, saved

LEMMA TypeKept == TypeOK /\ RunsAreRecords /\ [Next]_vars => TypeOK'
<1> SUFFICES ASSUME TypeOK, RunsAreRecords, [Next]_vars PROVE TypeOK'
  OBVIOUS
<1> USE DEF TypeOK
<1>1. ASSUME NEW c \in Clients, SaveRow(c) PROVE TypeOK'
  BY <1>1, SaveRowMakes, NoneAssumption DEF SaveRow, Advanced, saved
<1>2. ASSUME NEW c \in Clients, DeleteInputs(c) PROVE TypeOK'
  BY <1>2, DeleteInputsMakes, NoneAssumption DEF DeleteInputs, Advanced, saved
<1>3. ASSUME NEW c \in Clients, BulkCopyInputs(c) PROVE TypeOK'
  BY <1>3, BulkCopyInputsMakes, NoneAssumption DEF BulkCopyInputs, Advanced, saved
<1>4. ASSUME NEW c \in Clients, CommitSave(c) PROVE TypeOK'
  <2>1. tx[c] \in Transaction
    BY <1>4 DEF CommitSave
  <2>2. row' \in Row /\ tx[c].row.save \in Save /\ inputs' \subseteq JobScriptInput(Save)
    BY <1>4, <2>1 DEF CommitSave, Transaction, Row
  <2>3. committed' \in Seq(Save)
    BY <1>4, <2>2 DEF CommitSave
  <2> QED
    BY <1>4, <2>2, <2>3 DEF CommitSave, EndTransaction, saved
<1>5. ASSUME NEW c \in Clients, Rollback(c) PROVE TypeOK'
  BY <1>5 DEF Rollback, EndTransaction, saved
<1>6. ASSUME NEW c \in Clients, NewSchedule(c) PROVE TypeOK'
  BY <1>6 DEF NewSchedule, saved
<1>7. ASSUME NEW c \in Clients, Index(c) PROVE TypeOK'
  BY <1>7 DEF Index, saved
<1>8. ASSUME NEW c \in Clients, BeginSave(c) PROVE TypeOK'
  <2>1. tx' \in [Clients -> Transaction \cup {None}] /\ tx'[c] # None
    BY <1>8, BeginSaveMakes, NoneAssumption
  <2>2. \A d \in Clients : tx[d] # None => tx'[d] # None
    BY <1>8, <2>1, BeginSaveMakes
  <2>3. saves' \in 0 .. MaxSaves
    BY <1>8, MaxSavesAssumption DEF BeginSave
  <2> QED
    BY <1>8, <2>1, <2>2, <2>3 DEF BeginSave, saved
<1>9. ASSUME NEW c \in Clients, ActivateJob(c) PROVE TypeOK'
  <2>1. page[c] \in Row
    BY <1>9 DEF ActivateJob, IsNew, NewPage
  <2>2. row' \in Row
    BY <1>9, <2>1, WithStatus DEF ActivateJob
  <2> QED
    BY <1>9, <2>2 DEF ActivateJob, saved
<1>10. ASSUME NEW a \in Agents, AgentStep(a) PROVE TypeOK'
  <2>1. CASE GetJobSchedules(a)
    <3>1. row \in Row
      BY <2>1 DEF GetJobSchedules
    <3> QED
      BY <2>1, <3>1 DEF GetJobSchedules, NoRun, saved
  <2>2. CASE StartJob(a)
    <3>1. run[a].job \in Row
      BY <2>2 DEF StartJob
    <3>2. CASE row.JobStatus <= Waiting
      <4>1. [run[a].job EXCEPT !.JobStatus = Running] \in Row
        BY <3>1, WithStatus
      <4>2. run'[a] = [pc |-> "Started", job |-> [run[a].job EXCEPT !.JobStatus = Running],
                       inputs |-> run[a].inputs, sql |-> run[a].sql]
        BY <2>2, <3>2 DEF StartJob, RunsAreRecords
      <4>3. DOMAIN run' = Agents /\ \A b \in Agents : b # a => run'[b] = run[b]
        BY <2>2, <3>2 DEF StartJob
      <4>4. row' \in Row /\ UNCHANGED <<inputs, lock, page, tx, committed, saves>>
        BY <2>2, <3>2, <4>1 DEF StartJob, saved
      <4>5. run'[a].pc = "Started" /\ run'[a].job \in Row /\ run'[a].inputs = run[a].inputs
        BY <4>1, <4>2
      <4> QED
        BY <4>3, <4>4, <4>5
    <3>3. CASE ~(row.JobStatus <= Waiting)
      BY <2>2, <3>3 DEF StartJob, NoRun, saved
    <3> QED
      BY <3>2, <3>3
  <2>3. CASE GetJobInputs(a)
    BY <2>3 DEF GetJobInputs, saved
  <2>4. CASE FinishJob(a)
    <3>1. run[a].job \in Row
      BY <2>4 DEF FinishJob
    <3>2. row' \in Row
      BY <2>4, <3>1, WithStatus DEF FinishJob
    <3> QED
      BY <2>4, <3>2 DEF FinishJob, NoRun, saved
  <2> QED
    BY <1>10, <2>1, <2>2, <2>3, <2>4 DEF AgentStep
<1>11. CASE UNCHANGED vars
  BY <1>11 DEF vars, saved
<1> QED
  BY <1>1, <1>2, <1>3, <1>4, <1>5, <1>6, <1>7, <1>8, <1>9, <1>10, <1>11
     DEF Next, SaveStep, PageStep

(***************************************************************************)
(* The transactions.                                                       *)
(***************************************************************************)
PagesOrAgentsStep ==
  \/ \E c \in Clients : NewSchedule(c) \/ Index(c) \/ ActivateJob(c)
  \/ \E a \in Agents : AgentStep(a)
  \/ UNCHANGED vars

LEMMA StepKinds ==
  ASSUME [Next]_vars
  PROVE  \/ \E c \in Clients : SaveRow(c) \/ DeleteInputs(c) \/ BulkCopyInputs(c)
                               \/ CommitSave(c) \/ Rollback(c) \/ BeginSave(c)
         \/ PagesOrAgentsStep
BY DEF Next, SaveStep, PageStep, PagesOrAgentsStep

LEMMA PagesOrAgentsLeave ==
  ASSUME PagesOrAgentsStep PROVE UNCHANGED <<inputs, lock, tx, committed, posted, saves>>
BY DEF PagesOrAgentsStep, NewSchedule, Index, ActivateJob, AgentStep, GetJobSchedules, StartJob,
       GetJobInputs, FinishJob, vars, saved

LEMMA LockHolderAlone ==
  ASSUME TypeOK, \A c \in Clients : TransactionKept(c),
         NEW c \in Clients, tx[c] # None, tx[c].at >= 2
  PROVE  /\ lock = c
         /\ \A d \in Clients : d # c /\ tx[d] # None =>
              tx[d].at = 1 /\ tx[d].deleted = {} /\ tx[d].inserted = {}
<1>1. lock = c
  BY DEF TransactionKept
<1>2. \A d \in Clients : tx[d] # None => tx[d].at \in 1 .. 4
  BY StatementIs
<1> QED
  BY <1>1, <1>2 DEF TransactionKept

LEMMA TransactionsKept ==
  TypeOK /\ (\A c \in Clients : TransactionKept(c)) /\ [Next]_vars
    => (\A c \in Clients : TransactionKept(c))'
<1> SUFFICES ASSUME TypeOK, \A c \in Clients : TransactionKept(c), [Next]_vars,
                    NEW d \in Clients
             PROVE  TransactionKept(d)'
  OBVIOUS
<1>0. TransactionKept(d) /\ d # None /\ (tx[d] # None => tx[d].at \in 1 .. 4)
  BY StatementIs, NoneAssumption
<1>1. ASSUME NEW c \in Clients, SaveRow(c) PROVE TransactionKept(d)'
  <2>1. tx[c] # None /\ tx[c].at = 1 /\ Advanced(c, tx[c].deleted, tx[c].inserted)
    BY <1>1, SaveRowMakes DEF SaveRow
  <2>2. lock = None /\ lock' = c /\ inputs' = inputs
    BY <1>1 DEF SaveRow
  <2>3. CASE d = c
    BY <2>1, <2>2, <2>3, <1>0 DEF TransactionKept, Advanced
  <2>4. CASE d # c
    <3>1. tx'[d] = tx[d]
      BY <2>1, <2>4 DEF Advanced
    <3> QED
      BY <2>2, <2>4, <3>1, <1>0 DEF TransactionKept
  <2> QED
    BY <2>3, <2>4
<1>2. ASSUME NEW c \in Clients, DeleteInputs(c) PROVE TransactionKept(d)'
  <2>1. tx[c] # None /\ tx[c].at = 2 /\ Advanced(c, inputs, tx[c].inserted)
    BY <1>2, DeleteInputsMakes DEF DeleteInputs
  <2>2. lock' = lock /\ inputs' = inputs
    BY <1>2 DEF DeleteInputs
  <2>3. CASE d = c
    BY <2>1, <2>2, <2>3, <1>0 DEF TransactionKept, Advanced
  <2>4. CASE d # c
    <3>1. tx'[d] = tx[d]
      BY <2>1, <2>4 DEF Advanced
    <3> QED
      BY <2>2, <3>1, <1>0 DEF TransactionKept
  <2> QED
    BY <2>3, <2>4
<1>3. ASSUME NEW c \in Clients, BulkCopyInputs(c) PROVE TransactionKept(d)'
  <2>1. tx[c] # None /\ tx[c].at = 3 /\ Advanced(c, tx[c].deleted, tx[c].posted)
    BY <1>3, BulkCopyInputsMakes DEF BulkCopyInputs
  <2>2. lock' = lock /\ inputs' = inputs
    BY <1>3 DEF BulkCopyInputs
  <2>3. CASE d = c
    BY <2>1, <2>2, <2>3, <1>0 DEF TransactionKept, Advanced
  <2>4. CASE d # c
    <3>1. tx'[d] = tx[d]
      BY <2>1, <2>4 DEF Advanced
    <3> QED
      BY <2>2, <3>1, <1>0 DEF TransactionKept
  <2> QED
    BY <2>3, <2>4
<1>4. ASSUME NEW c \in Clients, CommitSave(c) \/ Rollback(c) PROVE TransactionKept(d)'
  <2>1. /\ tx[c] # None /\ tx'[c] = None
        /\ d # c => tx'[d] = tx[d]
        /\ lock' = IF lock = c THEN None ELSE lock
    BY <1>4 DEF CommitSave, Rollback, EndTransaction, TypeOK
  <2>2. CASE d = c \/ tx[d] = None
    BY <2>1, <2>2 DEF TransactionKept
  <2>3. CASE d # c /\ tx[d] # None /\ CommitSave(c)
    <3>1. lock = c /\ tx[d].at = 1 /\ tx[d].deleted = {} /\ tx[d].inserted = {}
      BY <2>3, StatementIs, LockHolderAlone DEF CommitSave
    <3> QED
      BY <2>1, <2>3, <3>1, <1>0 DEF TransactionKept
  <2>4. CASE d # c /\ tx[d] # None /\ Rollback(c)
    BY <2>1, <2>4, <1>0 DEF TransactionKept, Rollback
  <2> QED
    BY <1>4, <2>2, <2>3, <2>4
<1>5. ASSUME NEW c \in Clients, BeginSave(c) PROVE TransactionKept(d)'
  <2>1. lock' = lock /\ inputs' = inputs /\ tx[c] = None /\ lock # c
    BY <1>5, NoneAssumption DEF BeginSave, TypeOK
  <2>2. CASE d = c
    <3>1. /\ tx'[d].at = 1 /\ tx'[d].deleted = {} /\ tx'[d].inserted = {}
          /\ \A i \in tx'[d].posted : i.save = tx'[d].row.save
      BY <1>5, <2>2, BeginSaveMakes
    <3> QED
      BY <2>1, <2>2, <3>1 DEF TransactionKept
  <2>3. CASE d # c
    <3>1. tx'[d] = tx[d]
      BY <1>5, <2>3, BeginSaveMakes
    <3> QED
      BY <2>1, <3>1, <1>0 DEF TransactionKept
  <2> QED
    BY <2>2, <2>3
<1>6. CASE PagesOrAgentsStep
  BY <1>0, <1>6, PagesOrAgentsLeave DEF TransactionKept
<1> QED
  BY <1>1, <1>2, <1>3, <1>4, <1>5, <1>6, StepKinds

(***************************************************************************)
(* A commit replaces the inputs by its own, whole.                         *)
(***************************************************************************)
LEMMA CommitReplaces ==
  ASSUME InputsInv, NEW c \in Clients, CommitSave(c)
  PROVE  /\ tx[c] \in Transaction /\ row' = tx[c].row
         /\ inputs' = tx[c].posted /\ posted' = tx[c].posted
         /\ committed' = Append(committed, tx[c].row.save)
         /\ \A i \in inputs' : i.save = tx[c].row.save
<1>1. tx[c] # None /\ tx[c].at = 4 /\ tx[c] \in Transaction /\ TransactionKept(c)
  BY StatementIs DEF CommitSave, InputsInv
<1>2. /\ tx[c].deleted = inputs /\ tx[c].inserted = tx[c].posted
      /\ \A i \in tx[c].posted : i.save = tx[c].row.save
  BY <1>1 DEF TransactionKept
<1>3. inputs' = (inputs \ tx[c].deleted) \cup tx[c].inserted
  BY DEF CommitSave
<1> QED
  BY <1>1, <1>2, <1>3 DEF CommitSave

LEMMA OnlyCommitsStore ==
  ASSUME [Next]_vars, ~\E c \in Clients : CommitSave(c)
  PROVE  UNCHANGED <<inputs, committed, posted>>
BY StepKinds, PagesOrAgentsLeave
   DEF SaveRow, DeleteInputs, BulkCopyInputs, Rollback, BeginSave, saved

LEMMA StoredKept == InputsInv /\ [Next]_vars => StoredInputsOfLastSave'
<1> SUFFICES ASSUME InputsInv, [Next]_vars PROVE StoredInputsOfLastSave'
  OBVIOUS
<1>1. ASSUME NEW c \in Clients, CommitSave(c) PROVE StoredInputsOfLastSave'
  BY <1>1, CommitReplaces DEF StoredInputsOfLastSave
<1>2. CASE ~\E c \in Clients : CommitSave(c)
  BY <1>2, OnlyCommitsStore DEF InputsInv, StoredInputsOfLastSave
<1> QED
  BY <1>1, <1>2

(***************************************************************************)
(* The sequence of committed saves only grows.                             *)
(***************************************************************************)
LEMMA CommitAppends ==
  ASSUME InputsInv, NEW c \in Clients, CommitSave(c)
  PROVE  /\ DOMAIN committed \subseteq DOMAIN committed'
         /\ \A n \in DOMAIN committed : committed'[n] = committed[n]
         /\ Len(committed') = Len(committed) + 1 /\ Len(committed') \in DOMAIN committed'
         /\ committed'[Len(committed')] = tx[c].row.save
<1>1. committed' = Append(committed, tx[c].row.save) /\ committed \in Seq(Save) /\ tx[c].row.save \in Save
  BY CommitReplaces DEF InputsInv, TypeOK, Transaction, Row
<1> QED
  BY <1>1

LEMMA StaysCommitted ==
  ASSUME InputsInv, [Next]_vars
  PROVE  ToSet(committed) \subseteq ToSet(committed')
<1>1. CASE \E c \in Clients : CommitSave(c)
  <2>1. PICK c \in Clients : CommitSave(c)
    BY <1>1
  <2>2. /\ DOMAIN committed \subseteq DOMAIN committed'
        /\ \A n \in DOMAIN committed : committed'[n] = committed[n]
    BY <2>1, CommitAppends
  <2> QED
    BY <2>2 DEF ToSet
<1>2. CASE ~\E c \in Clients : CommitSave(c)
  BY <1>2, OnlyCommitsStore
<1> QED
  BY <1>1, <1>2

LEMMA InputsStayCommitted == InputsInv /\ [Next]_vars => InputsAreCommitted'
<1> SUFFICES ASSUME InputsInv, [Next]_vars PROVE InputsAreCommitted'
  OBVIOUS
<1>1. ASSUME NEW c \in Clients, CommitSave(c) PROVE InputsAreCommitted'
  <2>1. Len(committed) \in Nat
    BY DEF InputsInv, TypeOK
  <2> QED
    BY <1>1, <2>1, CommitReplaces, CommitAppends DEF InputsAreCommitted
<1>2. CASE ~\E c \in Clients : CommitSave(c)
  BY <1>2, OnlyCommitsStore DEF InputsInv, InputsAreCommitted
<1> QED
  BY <1>1, <1>2

(***************************************************************************)
(* Copies of the row: pages, agents and the row itself hold each other's.  *)
(***************************************************************************)
LEMMA CopiesStayCommitted == InputsInv /\ [Next]_vars => CopiesAreCommitted'
<1> SUFFICES ASSUME InputsInv, [Next]_vars PROVE CopiesAreCommitted'
  OBVIOUS
<1> USE DEF InputsInv
<1>0. NewPage # None => NewPage \notin Row
  BY NewPageHasNoSave
<1>1. row' # None => row'.save \in ToSet(committed')
  <2>1. CASE row' = row
    BY <2>1, StaysCommitted DEF CopiesAreCommitted
  <2>2. ASSUME NEW c \in Clients, CommitSave(c) PROVE row'.save \in ToSet(committed')
    <3>1. row'.save = committed'[Len(committed')] /\ Len(committed') \in DOMAIN committed'
      BY <2>2, CommitReplaces, CommitAppends
    <3> QED
      BY <3>1 DEF ToSet
  <2>3. ASSUME NEW c \in Clients, ActivateJob(c) PROVE row'.save \in ToSet(committed')
    <3>1. page[c] \in Row
      BY <2>3 DEF ActivateJob, IsNew, NewPage, TypeOK
    <3>2. row'.save = page[c].save
      BY <2>3, <3>1, WithStatus DEF ActivateJob
    <3> QED
      BY <3>1, <3>2, StaysCommitted DEF CopiesAreCommitted
  <2>4. ASSUME NEW a \in Agents, StartJob(a), row' # row PROVE row'.save \in ToSet(committed')
    <3>1. run[a].job \in Row /\ run[a].pc # "Idle"
      BY <2>4 DEF StartJob, TypeOK
    <3>2. row'.save = run[a].job.save
      BY <2>4, <3>1, WithStatus DEF StartJob
    <3> QED
      BY <3>1, <3>2, StaysCommitted DEF CopiesAreCommitted
  <2>5. ASSUME NEW a \in Agents, FinishJob(a) PROVE row'.save \in ToSet(committed')
    <3>1. run[a].job \in Row /\ run[a].pc # "Idle"
      BY <2>5 DEF FinishJob, TypeOK
    <3>2. row'.save = run[a].job.save
      BY <2>5, <3>1, WithStatus DEF FinishJob
    <3> QED
      BY <3>1, <3>2, StaysCommitted DEF CopiesAreCommitted
  <2> QED
    BY <2>1, <2>2, <2>3, <2>4, <2>5
       DEF Next, SaveStep, PageStep, AgentStep, SaveRow, DeleteInputs, BulkCopyInputs, Rollback,
           NewSchedule, Index, BeginSave, GetJobSchedules, GetJobInputs, vars
<1>2. ASSUME NEW c \in Clients, page'[c] \in Row PROVE page'[c].save \in ToSet(committed')
  <2>1. CASE page'[c] = page[c]
    BY <1>2, <2>1, StaysCommitted DEF CopiesAreCommitted
  <2>2. CASE page'[c] # page[c]
    <3>1. page'[c] = row /\ row # None
      BY <1>2, <2>2, NewPageHasNoSave
         DEF Next, SaveStep, PageStep, AgentStep, SaveRow, DeleteInputs, BulkCopyInputs,
             CommitSave, Rollback, NewSchedule, Index, BeginSave, ActivateJob, GetJobSchedules,
             StartJob, GetJobInputs, FinishJob, vars, TypeOK
    <3> QED
      BY <3>1, StaysCommitted DEF CopiesAreCommitted
  <2> QED
    BY <2>1, <2>2
<1>3. ASSUME NEW a \in Agents, run'[a].pc # "Idle" PROVE run'[a].job.save \in ToSet(committed')
  <2>1. CASE run'[a] = run[a]
    BY <1>3, <2>1, StaysCommitted DEF CopiesAreCommitted
  <2>2. CASE GetJobSchedules(a)
    <3>1. run'[a].job = row /\ row # None
      BY <2>2 DEF GetJobSchedules, NoRun, TypeOK
    <3> QED
      BY <3>1, StaysCommitted DEF CopiesAreCommitted
  <2>3. CASE StartJob(a)
    <3>1. run'[a].job = [run[a].job EXCEPT !.JobStatus = Running] /\ run[a].job \in Row
      BY <1>3, <2>3 DEF StartJob, NoRun, RunsAreRecords, TypeOK
    <3>2. run'[a].job.save = run[a].job.save /\ run[a].pc # "Idle"
      BY <2>3, <3>1, WithStatus DEF StartJob
    <3> QED
      BY <3>2, StaysCommitted DEF CopiesAreCommitted
  <2>4. CASE GetJobInputs(a)
    <3>1. run'[a].job = run[a].job /\ run[a].pc # "Idle"
      BY <2>4 DEF GetJobInputs, RunsAreRecords, TypeOK
    <3> QED
      BY <3>1, StaysCommitted DEF CopiesAreCommitted
  <2>5. CASE FinishJob(a)
    BY <1>3, <2>5 DEF FinishJob, NoRun, TypeOK
  <2> QED
    <3>1. CASE \E b \in Agents : b # a /\ AgentStep(b)
      BY <3>1, <2>1 DEF AgentStep, GetJobSchedules, StartJob, GetJobInputs, FinishJob, TypeOK
    <3>2. CASE AgentStep(a)
      BY <3>2, <2>2, <2>3, <2>4, <2>5 DEF AgentStep
    <3>3. CASE run' = run
      BY <3>3, <2>1
    <3> QED
      BY <3>1, <3>2, <3>3
         DEF Next, SaveStep, PageStep, SaveRow, DeleteInputs, BulkCopyInputs,
             CommitSave, Rollback, NewSchedule, Index, BeginSave, ActivateJob, vars
<1> QED
  BY <1>1, <1>2, <1>3 DEF CopiesAreCommitted

(***************************************************************************)
(* Runs.                                                                   *)
(***************************************************************************)
RunNotOlder(a) ==
  run[a].pc = "Execute" =>
    \E n, m \in DOMAIN committed :
      /\ n <= m
      /\ run[a].job.save = committed[n]
      /\ \A i \in run[a].inputs : i.save = committed[m]

LEMMA RunsStayNotOlder == InputsInv /\ [Next]_vars => RunInputsNotOlder'
<1> SUFFICES ASSUME InputsInv, [Next]_vars, NEW a \in Agents PROVE RunNotOlder(a)'
  BY DEF RunInputsNotOlder, RunNotOlder
<1>1. CASE run'[a] = run[a]
  <2>1. CASE \E c \in Clients : CommitSave(c)
    <3>1. PICK c \in Clients : CommitSave(c)
      BY <2>1
    <3>2. /\ DOMAIN committed \subseteq DOMAIN committed'
          /\ \A n \in DOMAIN committed : committed'[n] = committed[n]
      BY <3>1, CommitAppends
    <3> QED
      BY <1>1, <3>2 DEF RunNotOlder, RunInputsNotOlder, InputsInv
  <2>2. CASE ~\E c \in Clients : CommitSave(c)
    BY <1>1, <2>2, OnlyCommitsStore DEF RunNotOlder, RunInputsNotOlder, InputsInv
  <2> QED
    BY <2>1, <2>2
<1>2. CASE GetJobInputs(a)
  <2>1. /\ run'[a].job = run[a].job /\ run'[a].inputs = inputs /\ run[a].pc # "Idle"
        /\ committed' = committed
    BY <1>2 DEF GetJobInputs, RunsAreRecords, TypeOK, InputsInv, saved
  <2>2. PICK n \in DOMAIN committed : run[a].job.save = committed[n]
    BY <2>1 DEF InputsInv, CopiesAreCommitted, ToSet
  <2>3. n \in 1 .. Len(committed) /\ Len(committed) \in DOMAIN committed /\ n <= Len(committed)
    BY <2>2 DEF InputsInv, TypeOK
  <2>4. \A i \in inputs : i.save = committed[Len(committed)]
    BY DEF InputsInv, InputsAreCommitted
  <2> QED
    BY <2>1, <2>2, <2>3, <2>4 DEF RunNotOlder
<1>3. CASE GetJobSchedules(a) \/ StartJob(a) \/ FinishJob(a)
  <2>1. DOMAIN run = Agents /\ "pc" \in DOMAIN run[a]
    BY DEF InputsInv, TypeOK, RunsAreRecords
  <2>2. GetJobSchedules(a) => run'[a].pc = "Listed"
    BY <2>1 DEF GetJobSchedules, NoRun
  <2>3. StartJob(a) => run'[a].pc \in {"Started", "Idle"}
    BY <2>1 DEF StartJob, NoRun
  <2>4. FinishJob(a) => run'[a].pc = "Idle"
    BY <2>1 DEF FinishJob, NoRun
  <2> QED
    BY <1>3, <2>2, <2>3, <2>4 DEF RunNotOlder
<1>4. CASE \E b \in Agents : b # a /\ AgentStep(b)
  BY <1>1, <1>4
     DEF AgentStep, GetJobSchedules, StartJob, GetJobInputs, FinishJob, TypeOK, InputsInv
<1>5. CASE run' = run
  BY <1>1, <1>5
<1> QED
  BY <1>2, <1>3, <1>4, <1>5
     DEF Next, SaveStep, PageStep, AgentStep, SaveRow, DeleteInputs, BulkCopyInputs, CommitSave,
         Rollback, NewSchedule, Index, BeginSave, ActivateJob, vars

(***************************************************************************)
(* The SQL of a run is that of its inputs, which have one row for each.    *)
(***************************************************************************)
LEMMA InputsStayOnce == InputsInv /\ [Next]_vars => InputsAreOnce'
<1> SUFFICES ASSUME InputsInv, [Next]_vars PROVE InputsAreOnce'
  OBVIOUS
<1> USE DEF InputsInv
<1>1. ASSUME NEW c \in Clients, CommitSave(c) PROVE OneRowPerInput(posted')
  <2>1. tx[c] # None /\ posted' = tx[c].posted
    BY <1>1 DEF CommitSave
  <2> QED
    BY <2>1 DEF InputsAreOnce
<1>2. OneRowPerInput(posted')
  BY <1>1, OnlyCommitsStore DEF InputsAreOnce
<1>3. ASSUME NEW d \in Clients, tx'[d] # None PROVE OneRowPerInput(tx'[d].posted)
  <2>1. ASSUME NEW c \in Clients, SaveRow(c) PROVE OneRowPerInput(tx'[d].posted)
    BY <1>3, <2>1, SaveRowMakes DEF SaveRow, Advanced, InputsAreOnce
  <2>2. ASSUME NEW c \in Clients, DeleteInputs(c) PROVE OneRowPerInput(tx'[d].posted)
    BY <1>3, <2>2, DeleteInputsMakes DEF DeleteInputs, Advanced, InputsAreOnce
  <2>3. ASSUME NEW c \in Clients, BulkCopyInputs(c) PROVE OneRowPerInput(tx'[d].posted)
    BY <1>3, <2>3, BulkCopyInputsMakes DEF BulkCopyInputs, Advanced, InputsAreOnce
  <2>4. ASSUME NEW c \in Clients, CommitSave(c) \/ Rollback(c) PROVE OneRowPerInput(tx'[d].posted)
    BY <1>3, <2>4 DEF CommitSave, Rollback, EndTransaction, TypeOK, InputsAreOnce
  <2>5. ASSUME NEW c \in Clients, BeginSave(c) PROVE OneRowPerInput(tx'[d].posted)
    BY <1>3, <2>5, BeginSaveMakes DEF InputsAreOnce
  <2>6. CASE PagesOrAgentsStep
    BY <1>3, <2>6, PagesOrAgentsLeave DEF InputsAreOnce
  <2> QED
    BY <2>1, <2>2, <2>3, <2>4, <2>5, <2>6, StepKinds
<1> QED
  BY <1>2, <1>3 DEF InputsAreOnce

LEMMA SqlStaysOfInputs == InputsInv /\ [Next]_vars => SqlIsOfInputs'
<1> SUFFICES ASSUME InputsInv, [Next]_vars, NEW a \in Agents, run'[a].pc = "Execute"
             PROVE  /\ OneRowPerInput(run'[a].inputs)
                    /\ run'[a].sql = DirectSql(run'[a].inputs)
  BY DEF SqlIsOfInputs
<1>0. DOMAIN run = Agents /\ run[a] = [pc |-> run[a].pc, job |-> run[a].job,
                                      inputs |-> run[a].inputs, sql |-> run[a].sql]
  BY DEF InputsInv, TypeOK, RunsAreRecords
<1>1. CASE run'[a] = run[a]
  BY <1>1 DEF InputsInv, SqlIsOfInputs
<1>2. CASE GetJobInputs(a)
  <2>1. run'[a].inputs = inputs /\ run'[a].sql = DirectSql(inputs)
    BY <1>0, <1>2 DEF GetJobInputs
  <2> QED
    BY <2>1 DEF InputsInv, InputsAreOnce, StoredInputsOfLastSave
<1>3. CASE GetJobSchedules(a) \/ StartJob(a) \/ FinishJob(a)
  <2>1. GetJobSchedules(a) => run'[a].pc = "Listed"
    BY <1>0 DEF GetJobSchedules, NoRun
  <2>2. StartJob(a) => run'[a].pc \in {"Started", "Idle"}
    BY <1>0 DEF StartJob, NoRun
  <2>3. FinishJob(a) => run'[a].pc = "Idle"
    BY <1>0 DEF FinishJob, NoRun
  <2> QED
    BY <1>3, <2>1, <2>2, <2>3
<1>4. CASE \E b \in Agents : b # a /\ AgentStep(b)
  BY <1>0, <1>1, <1>4
     DEF AgentStep, GetJobSchedules, StartJob, GetJobInputs, FinishJob
<1>5. CASE run' = run
  BY <1>1, <1>5
<1> QED
  BY <1>2, <1>3, <1>4, <1>5
     DEF Next, SaveStep, PageStep, AgentStep, SaveRow, DeleteInputs, BulkCopyInputs, CommitSave,
         Rollback, NewSchedule, Index, BeginSave, ActivateJob, vars

(***************************************************************************)
(* The row is there as soon as a save was committed or an agent has it.    *)
(***************************************************************************)
LEMMA RowStaysStored == InputsInv /\ [Next]_vars => RowIsStored'
<1> SUFFICES ASSUME InputsInv, [Next]_vars PROVE RowIsStored'
  OBVIOUS
<1>1. row' \in Row \cup {None} /\ None \notin Row
  BY TypeKept, NoneAssumption DEF InputsInv, TypeOK
<1>2. row # None => row' # None
  <2>1. CASE row' = row
    BY <2>1
  <2>2. ASSUME NEW c \in Clients, CommitSave(c) PROVE row' # None
    <3>1. row' = tx[c].row /\ tx[c] \in Transaction
      BY <2>2, CommitReplaces
    <3> QED
      BY <1>1, <3>1 DEF Transaction
  <2>3. ASSUME NEW c \in Clients, ActivateJob(c) PROVE row' # None
    <3>1. page[c] \in Row
      BY <2>3 DEF ActivateJob, IsNew, NewPage, InputsInv, TypeOK
    <3> QED
      BY <1>1, <2>3, <3>1, WithStatus DEF ActivateJob
  <2>4. ASSUME NEW a \in Agents, StartJob(a) \/ FinishJob(a), row' # row PROVE row' # None
    <3>1. run[a].job \in Row
      BY <2>4 DEF StartJob, FinishJob, InputsInv, TypeOK
    <3> QED
      BY <1>1, <2>4, <3>1, WithStatus DEF StartJob, FinishJob
  <2> QED
    BY <2>1, <2>2, <2>3, <2>4
       DEF Next, SaveStep, PageStep, AgentStep, SaveRow, DeleteInputs, BulkCopyInputs, Rollback,
           NewSchedule, Index, BeginSave, GetJobSchedules, GetJobInputs, vars
<1>3. committed' # <<>> => row' # None
  <2>1. ASSUME NEW c \in Clients, CommitSave(c) PROVE row' # None
    <3>1. row' = tx[c].row /\ tx[c] \in Transaction
      BY <2>1, CommitReplaces
    <3> QED
      BY <1>1, <3>1 DEF Transaction
  <2> QED
    BY <1>2, <2>1, OnlyCommitsStore DEF InputsInv, RowIsStored
<1>4. ASSUME NEW a \in Agents, run'[a].pc # "Idle" PROVE row # None
  <2>1. run[a].pc # "Idle" => row # None
    BY DEF InputsInv, RowIsStored
  <2>2. CASE GetJobSchedules(a)
    BY <2>2 DEF GetJobSchedules
  <2>3. CASE run'[a].pc = run[a].pc \/ run[a].pc # "Idle"
    BY <1>4, <2>1, <2>3
  <2> QED
    <3>1. CASE \E b \in Agents : b # a /\ AgentStep(b)
      BY <3>1, <2>3
         DEF AgentStep, GetJobSchedules, StartJob, GetJobInputs, FinishJob, InputsInv, TypeOK
    <3>2. CASE StartJob(a) \/ GetJobInputs(a) \/ FinishJob(a)
      BY <3>2, <2>3 DEF StartJob, GetJobInputs, FinishJob
    <3>3. CASE run' = run
      BY <3>3, <2>3
    <3> QED
      BY <2>2, <3>1, <3>2, <3>3
         DEF Next, SaveStep, PageStep, AgentStep, SaveRow, DeleteInputs, BulkCopyInputs,
             CommitSave, Rollback, NewSchedule, Index, BeginSave, ActivateJob, vars
<1> QED
  BY <1>2, <1>3, <1>4 DEF RowIsStored

-----------------------------------------------------------------------------
LEMMA InputsInvariant == Spec => []InputsInv
<1>1. Init => InputsInv
  BY InitInputsInv
<1>2. InputsInv /\ [Next]_vars => InputsInv'
  BY TypeKept, RunsStayRecords, TransactionsKept, StoredKept, InputsStayCommitted,
     CopiesStayCommitted, RunsStayNotOlder, InputsStayOnce, SqlStaysOfInputs, RowStaysStored
     DEF InputsInv
<1> QED
  BY <1>1, <1>2, PTL DEF Spec

(***************************************************************************)
(* TypeOK, of every reachable state.                                       *)
(***************************************************************************)
THEOREM InputsTypeCorrect == Spec => []TypeOK
<1>1. InputsInv => TypeOK
  BY DEF InputsInv
<1> QED
  BY <1>1, InputsInvariant, PTL

(***************************************************************************)
(* SaveJobSchedule: the stored inputs are always those of the save that    *)
(* was committed last, all of them and no other, however the statements of *)
(* any number of pages' saves come between each other and are rolled back. *)
(***************************************************************************)
THEOREM SavesDoNotMix == Spec => []StoredInputsOfLastSave
<1>1. InputsInv => StoredInputsOfLastSave
  BY DEF InputsInv
<1> QED
  BY <1>1, InputsInvariant, PTL

(***************************************************************************)
(* GetJobInputs: a run has the inputs of one save, which is not older than *)
(* the one whose row it was started from.                                  *)
(***************************************************************************)
THEOREM RunsHaveOneSavesInputs == Spec => []RunInputsNotOlder
<1>1. InputsInv => RunInputsNotOlder
  BY DEF InputsInv
<1> QED
  BY <1>1, InputsInvariant, PTL

(***************************************************************************)
(* IRelativityScriptProcessor: for every script and whatever inputs were   *)
(* saved when, the SQL a run executes is the script with each token        *)
(* replaced by its own value, as long as no value holds a token or one of  *)
(* the patterns of Regex.Replace.  The induction over the loops of the     *)
(* processor is DirectSqlIs; that the inputs have one row for each is the  *)
(* invariant's.                                                            *)
(***************************************************************************)
THEOREM SqlIsTheScriptsOwn == Spec => []SqlIsScriptWithInputs
<1>1. InputsInv => SqlIsScriptWithInputs
  <2> SUFFICES ASSUME InputsInv, NEW a \in Agents, run[a].pc = "Execute",
                      \A i \in run[a].inputs : i.holds = Verbatim
               PROVE  run[a].sql = FlattenSeq([n \in DOMAIN ScriptSql |-> Expected(ScriptSql[n], run[a].inputs)])
    BY DEF SqlIsScriptWithInputs
  <2>1. Plain(run[a].inputs)
    BY DEF InputsInv, TypeOK, SqlIsOfInputs, Plain, Values
  <2>2. run[a].sql = DirectSql(run[a].inputs)
    BY DEF InputsInv, SqlIsOfInputs
  <2> QED
    BY <2>1, <2>2, DirectSqlIs
<1> QED
  BY <1>1, InputsInvariant, PTL

-----------------------------------------------------------------------------
(***************************************************************************)
(* The refinement.  A save is pending from the moment it is posted; the    *)
(* commit stores it, with whatever its statements have done until then,    *)
(* and a rollback drops it.                                                *)
(***************************************************************************)
LEMMA PendingIs ==
  ASSUME TypeOK, NEW c \in Clients
  PROVE  /\ tx[c] = None => Pending[c] = None
         /\ tx[c] # None =>
              /\ Pending[c] = [row |-> tx[c].row, inputs |-> tx[c].posted]
              /\ Pending[c] \in [row : Row, inputs : SUBSET JobScriptInput(Save)]
              /\ Pending[c] # None
<1>1. tx[c] # None => tx[c].row \in Row /\ tx[c].posted \in SUBSET JobScriptInput(Save)
  BY DEF TypeOK, Transaction
<1>2. tx[c] # None => Pending[c] = [row |-> tx[c].row, inputs |-> tx[c].posted]
  BY DEF Pending
<1>3. tx[c] = None => Pending[c] = None
  BY DEF Pending
<1> QED
  BY <1>1, <1>2, <1>3, NoneAssumption

(* A step of one client leaves what the others have posted. *)
LEMMA OthersPending ==
  ASSUME NEW c \in Clients, \A d \in Clients : d # c => tx'[d] = tx[d]
  PROVE  Pending' = [Pending EXCEPT ![c] = Pending'[c]]
BY DEF Pending

LEMMA OthersGiven ==
  ASSUME NEW a \in Agents, \A b \in Agents : b # a => run'[b] = run[b]
  PROVE  Given' = [Given EXCEPT ![a] = Given'[a]]
BY DEF Given

(* What the statements before the commit do is not seen. *)
LEMMA AdvancedIsPending ==
  ASSUME TypeOK, NEW c \in Clients, NEW deleted, NEW inserted, tx[c] # None,
         Advanced(c, deleted, inserted)
  PROVE  Pending' = Pending
<1>1. tx'[c] # None /\ tx'[c].row = tx[c].row /\ tx'[c].posted = tx[c].posted
  BY NoneAssumption DEF Advanced
<1>2. \A d \in Clients : d # c => tx'[d] = tx[d]
  BY DEF Advanced
<1> QED
  BY <1>1, <1>2 DEF Pending

LEMMA StoredWith ==
  ASSUME NEW S, NEW s \in Seq(S), NEW x \in S
  PROVE  ToSet(Append(s, x)) = ToSet(s) \cup {x}
<1>1. /\ DOMAIN Append(s, x) = DOMAIN s \cup {Len(s) + 1}
      /\ Append(s, x)[Len(s) + 1] = x
      /\ \A n \in DOMAIN s : Append(s, x)[n] = s[n]
  OBVIOUS
<1> QED
  BY <1>1 DEF ToSet

LEMMA BeginSaveIsPost ==
  ASSUME InputsInv, NEW c \in Clients, BeginSave(c)
  PROVE  Serial!Post(c)
<1>1. tx[c] = None /\ tx'[c] \in Transaction /\ \A d \in Clients : d # c => tx'[d] = tx[d]
  BY BeginSaveMakes DEF InputsInv, BeginSave
<1>2. Pending[c] = None
  BY <1>1, PendingIs DEF InputsInv
<1>3. Pending'[c] \in [row : Row, inputs : SUBSET JobScriptInput(Save)]
  <2>1. Pending'[c] = [row |-> tx'[c].row, inputs |-> tx'[c].posted]
    BY <1>1, NoneAssumption DEF Pending
  <2> QED
    BY <1>1, <2>1 DEF Transaction
<1>4. Pending' = [Pending EXCEPT ![c] = Pending'[c]]
  BY <1>1, OthersPending
<1>5. UNCHANGED <<row, inputs, ToSet(committed), Given>>
  BY DEF BeginSave, saved, Given
<1> QED
  BY <1>2, <1>3, <1>4, <1>5 DEF Serial!Post

LEMMA TransactionEnds ==
  ASSUME InputsInv, NEW c \in Clients, tx[c] # None, EndTransaction(c), run' = run
  PROVE  Serial!End(c)
<1>1. tx'[c] = None /\ \A d \in Clients : d # c => tx'[d] = tx[d]
  BY DEF EndTransaction, InputsInv, TypeOK
<1>2. Pending[c] # None
  BY PendingIs DEF InputsInv
<1>3. Pending'[c] = None
  BY <1>1 DEF Pending
<1>4. Pending' = [Pending EXCEPT ![c] = Pending'[c]]
  BY <1>1, OthersPending
<1>5. UNCHANGED Given
  BY DEF Given
<1> QED
  BY <1>2, <1>3, <1>4, <1>5 DEF Serial!End

LEMMA CommitIsStore ==
  ASSUME InputsInv, NEW c \in Clients, CommitSave(c)
  PROVE  Serial!Store(c)
<1>1. tx[c] # None /\ Serial!End(c)
  BY TransactionEnds DEF CommitSave
<1>2. Pending[c] = [row |-> tx[c].row, inputs |-> tx[c].posted]
  BY <1>1, PendingIs DEF InputsInv
<1>3. row' = Pending[c].row /\ inputs' = Pending[c].inputs
  BY <1>2, CommitReplaces
<1>4. ToSet(committed)' = ToSet(committed) \cup {Pending[c].row.save}
  <2>1. committed' = Append(committed, tx[c].row.save) /\ tx[c].row.save \in Save
    BY CommitReplaces DEF Transaction, Row
  <2>2. ToSet(committed') = ToSet(committed) \cup {tx[c].row.save}
    BY <2>1, StoredWith DEF InputsInv, TypeOK
  <2> QED
    BY <1>2, <2>2
<1> QED
  BY <1>1, <1>3, <1>4 DEF Serial!Store

LEMMA RollbackIsDrop ==
  ASSUME InputsInv, NEW c \in Clients, Rollback(c)
  PROVE  Serial!Drop(c)
<1>1. Serial!End(c)
  BY TransactionEnds DEF Rollback
<1>2. UNCHANGED <<row, inputs, ToSet(committed)>>
  BY DEF Rollback, saved
<1> QED
  BY <1>1, <1>2 DEF Serial!Drop

(* Whoever writes a copy of the row writes one of a committed save. *)
LEMMA CopyIsWritten ==
  ASSUME InputsInv, NEW r \in Row, r.save \in ToSet(committed), NEW s \in {Idle, Waiting, Running},
         row # None, row' = [r EXCEPT !.JobStatus = s],
         UNCHANGED <<inputs, tx, committed>>
  PROVE  Serial!WriteRow
<1>1. row' \in Row /\ row'.save = r.save
  BY WithStatus
<1>2. UNCHANGED <<inputs, Pending, ToSet(committed)>>
  BY DEF Pending
<1> QED
  BY <1>1, <1>2 DEF Serial!WriteRow

LEMMA ActivateJobIsChange ==
  ASSUME InputsInv, NEW c \in Clients, ActivateJob(c)
  PROVE  Serial!Change
<1>1. page[c] \in Row
  BY DEF ActivateJob, IsNew, NewPage, InputsInv, TypeOK
<1>2. page[c].save \in ToSet(committed)
  BY <1>1 DEF InputsInv, CopiesAreCommitted
<1>3. /\ row # None /\ row' = [page[c] EXCEPT !.JobStatus = Waiting]
      /\ UNCHANGED <<inputs, tx, committed>> /\ UNCHANGED Given
  BY DEF ActivateJob, saved, Given
<1>4. Serial!WriteRow
  BY <1>1, <1>2, <1>3, CopyIsWritten
<1> QED
  BY <1>3, <1>4 DEF Serial!Change

LEMMA AgentHasRow ==
  ASSUME InputsInv, NEW a \in Agents, run[a].pc # "Idle"
  PROVE  /\ run[a].job \in Row /\ run[a].job.save \in ToSet(committed) /\ row # None
         /\ run[a] = [pc |-> run[a].pc, job |-> run[a].job, inputs |-> run[a].inputs, sql |-> run[a].sql]
         /\ DOMAIN run = Agents
BY DEF InputsInv, TypeOK, CopiesAreCommitted, RowIsStored, RunsAreRecords

(* A run is given its inputs by GetJobInputs alone. *)
LEMMA NothingGiven ==
  ASSUME NEW a \in Agents, \A b \in Agents : b # a => run'[b] = run[b],
         run[a].pc # "Execute", run'[a].pc # "Execute"
  PROVE  Given' = Given
BY DEF Given

LEMMA StartJobIsChange ==
  ASSUME InputsInv, NEW a \in Agents, StartJob(a)
  PROVE  Serial!Change \/ UNCHANGED <<row, inputs, Pending, ToSet(committed), Given>>
<1>1. run[a].pc = "Listed"
  BY DEF StartJob
<1>2. /\ run[a].job \in Row /\ run[a].job.save \in ToSet(committed) /\ row # None
      /\ run[a] = [pc |-> run[a].pc, job |-> run[a].job, inputs |-> run[a].inputs, sql |-> run[a].sql]
      /\ DOMAIN run = Agents
  BY <1>1, AgentHasRow
<1>3. \A b \in Agents : b # a => run'[b] = run[b]
  BY <1>2 DEF StartJob
<1>4. run'[a].pc \in {"Started", "Idle"}
  BY <1>2 DEF StartJob, NoRun
<1>5. Given' = Given
  BY <1>1, <1>3, <1>4, NothingGiven
<1>6. UNCHANGED <<inputs, tx, committed>>
  BY DEF StartJob, saved
<1>7. CASE row' = [run[a].job EXCEPT !.JobStatus = Running]
  <2>1. Serial!WriteRow
    BY <1>2, <1>6, <1>7, CopyIsWritten
  <2> QED
    BY <1>5, <2>1 DEF Serial!Change
<1>8. CASE row' = row
  BY <1>5, <1>6, <1>8 DEF Pending
<1> QED
  BY <1>7, <1>8 DEF StartJob

LEMMA GetJobInputsGives ==
  ASSUME InputsInv, NEW a \in Agents, GetJobInputs(a)
  PROVE  Serial!GiveInputs(a)
<1>1. run[a].pc # "Idle"
  BY DEF GetJobInputs
<1>2. /\ row # None /\ DOMAIN run = Agents
      /\ run[a] = [pc |-> run[a].pc, job |-> run[a].job, inputs |-> run[a].inputs, sql |-> run[a].sql]
  BY <1>1, AgentHasRow
<1>3. run'[a].pc = "Execute" /\ run'[a].inputs = inputs /\ \A b \in Agents : b # a => run'[b] = run[b]
  BY <1>2 DEF GetJobInputs
<1>4. Given'[a] = inputs
  BY <1>3 DEF Given
<1>5. Given' = [Given EXCEPT ![a] = Given'[a]]
  BY <1>3, OthersGiven
<1>6. UNCHANGED <<row, inputs, Pending, ToSet(committed)>>
  BY DEF GetJobInputs, saved, Pending
<1> QED
  BY <1>2, <1>4, <1>5, <1>6 DEF Serial!GiveInputs

LEMMA FinishJobIsFinish ==
  ASSUME InputsInv, NEW a \in Agents, FinishJob(a)
  PROVE  Serial!Finish(a)
<1>1. run[a].pc # "Idle"
  BY DEF FinishJob
<1>2. run[a].job \in Row /\ run[a].job.save \in ToSet(committed) /\ row # None /\ DOMAIN run = Agents
  BY <1>1, AgentHasRow
<1>3. run'[a] = NoRun /\ \A b \in Agents : b # a => run'[b] = run[b]
  BY <1>2 DEF FinishJob
<1>4. Given'[a] = {}
  BY <1>3 DEF Given, NoRun
<1>5. Given' = [Given EXCEPT ![a] = Given'[a]]
  BY <1>3, OthersGiven
<1>6. row' = [run[a].job EXCEPT !.JobStatus = Idle] /\ UNCHANGED <<inputs, tx, committed>>
  BY DEF FinishJob, saved
<1>7. Serial!WriteRow
  BY <1>2, <1>6, CopyIsWritten
<1> QED
  BY <1>4, <1>5, <1>7 DEF Serial!Finish

LEMMA GetJobSchedulesIsUnseen ==
  ASSUME InputsInv, NEW a \in Agents, GetJobSchedules(a)
  PROVE  UNCHANGED <<row, inputs, Pending, ToSet(committed), Given>>
<1>1. DOMAIN run = Agents
  BY DEF InputsInv, TypeOK
<1>2. /\ run[a].pc = "Idle" /\ run'[a].pc = "Listed"
      /\ \A b \in Agents : b # a => run'[b] = run[b]
  BY <1>1 DEF GetJobSchedules, NoRun
<1>3. Given' = Given
  BY <1>2, NothingGiven
<1> QED
  BY <1>3 DEF GetJobSchedules, saved, Pending

LEMMA StepsAreSerial == InputsInv /\ [Next]_vars => [Serial!SerialNext]_(Serial!serialVars)
<1> SUFFICES ASSUME InputsInv, [Next]_vars
             PROVE  Serial!SerialNext \/ UNCHANGED Serial!serialVars
  OBVIOUS
<1> DEFINE Unseen == UNCHANGED <<row, inputs, Pending, ToSet(committed), Given>>
<1>1. ASSUME NEW c \in Clients, SaveRow(c) \/ DeleteInputs(c) \/ BulkCopyInputs(c) PROVE Unseen
  <2>1. tx[c] # None
    BY <1>1 DEF SaveRow, DeleteInputs, BulkCopyInputs
  <2>2. Pending' = Pending
    BY <1>1, <2>1, SaveRowMakes, DeleteInputsMakes, BulkCopyInputsMakes, AdvancedIsPending
       DEF InputsInv
  <2> QED
    BY <1>1, <2>2 DEF SaveRow, DeleteInputs, BulkCopyInputs, saved, Given
<1>2. ASSUME NEW c \in Clients, CommitSave(c) \/ Rollback(c) \/ BeginSave(c) PROVE Serial!SerialNext
  BY <1>2, CommitIsStore, RollbackIsDrop, BeginSaveIsPost DEF Serial!SerialNext
<1>3. ASSUME NEW c \in Clients, NewSchedule(c) \/ Index(c) PROVE Unseen
  BY <1>3 DEF NewSchedule, Index, saved, Pending, Given
<1>4. ASSUME NEW c \in Clients, ActivateJob(c) PROVE Serial!SerialNext
  BY <1>4, ActivateJobIsChange DEF Serial!SerialNext
<1>5. ASSUME NEW a \in Agents, GetJobInputs(a) \/ FinishJob(a) PROVE Serial!SerialNext
  BY <1>5, GetJobInputsGives, FinishJobIsFinish DEF Serial!SerialNext
<1>6. ASSUME NEW a \in Agents, StartJob(a) PROVE Serial!SerialNext \/ Unseen
  BY <1>6, StartJobIsChange DEF Serial!SerialNext
<1>7. ASSUME NEW a \in Agents, GetJobSchedules(a) PROVE Unseen
  BY <1>7, GetJobSchedulesIsUnseen
<1>8. ASSUME UNCHANGED vars PROVE Unseen
  BY <1>8 DEF vars, saved, Pending, Given
<1>9. Serial!SerialNext \/ Unseen
  <2> HIDE DEF Unseen
  <2> QED
    BY <1>1, <1>2, <1>3, <1>4, <1>5, <1>6, <1>7, <1>8
       DEF Next, SaveStep, PageStep, AgentStep
<1> QED
  BY <1>9 DEF Serial!serialVars

(***************************************************************************)
(* SaveJobSchedule: with its lock, its transaction and a page's and an     *)
(* agent's copies of the row in between, a Save is one that takes a single *)
(* step or none: the row and its inputs are stored together, what the      *)
(* others write back is of a save that was stored, and a run is given the  *)
(* inputs of one moment.                                                   *)
(***************************************************************************)
THEOREM SavesImplementOneStep == Spec => SavesAreOneStep
<1>1. Init => Serial!SerialInit
  <2> SUFFICES ASSUME Init PROVE Serial!SerialInit
    OBVIOUS
  <2>1. Pending = [c \in Clients |-> None] /\ Given = [a \in Agents |-> {}]
    BY DEF Init, Pending, Given, NoRun
  <2>2. ToSet(committed) = {}
    BY DEF Init, ToSet
  <2> QED
    BY <2>1, <2>2 DEF Init, Serial!SerialInit
<1>2. InputsInv /\ [Next]_vars => [Serial!SerialNext]_(Serial!serialVars)
  BY StepsAreSerial
<1> QED
  BY <1>1, <1>2, InputsInvariant, PTL DEF Spec, SavesAreOneStep, Serial!SerialSpec
=============================================================================
