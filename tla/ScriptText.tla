----------------------------- MODULE ScriptText -----------------------------
(***************************************************************************)
(* RelativityScriptProcessor: the SQL of a script with the inputs of a job *)
(* put in place of its tokens.                                             *)
(*                                                                         *)
(* A text is a sequence of items: the token of an input, what stands for   *)
(* the value of a stored input, and the rest, which no rule looks at.      *)
(* Tokens are replaced one input after the other, so that a token that     *)
(* comes in with a value may be replaced in its turn; and a value replaces *)
(* its token as a pattern of Regex.Replace, in which $ has a meaning.      *)
(***************************************************************************)
EXTENDS SequencesExt

CONSTANTS
  Inputs,      \* InputId: the inputs of the script
  Details,     \* RelativityScriptInputDetails: the inputs in the script's order
  Kind,        \* what becomes of an input's value
  ScriptSql,   \* the <action> of the script
  Verbatim     \* of a value that holds neither a token nor a $

Kinds == {"Direct", "Text", "TimeZone", "SavedSearch"}

(* The workspace's id and the prefix of the master database. *)
GlobalVariables == {"CaseArtifactID", "MasterDatabasePrepend"}

ASSUME DetailsAssumption == Details \in Seq(Inputs) /\ IsInjective(Details)
ASSUME KindAssumption == Kind \in [Inputs -> Kinds]

(* What $& (or $0), $$ and $_ in a replacement stand for: the token, one   *)
(* dollar sign, and the whole text.  Those that stand for a part of the    *)
(* text, $` and $', are not told apart from the last; any other $ is only  *)
(* itself.                                                                 *)
Patterns == {"$&", "$$", "$_"}

ASSUME HoldsAssumption == Inputs \cap Patterns = {} /\ Verbatim \notin Inputs \cup Patterns
ASSUME ScriptSqlAssumption ==
  ScriptSql \in Seq([token : Inputs \cup GlobalVariables] \cup [literal : STRING])

(* The token of t, in upper or lower case, which Regex.Replace ignores: no *)
(* two inputs of a script have ids that differ in case alone.              *)
Token(t) == [token |-> t]
Pattern(p) == [pattern |-> p]
Literal(l) == [literal |-> l]

(* A stored input: its value is some text, told apart by the save that     *)
(* stored it, which may hold the token of an input or a pattern.           *)
JobScriptInput(Saves) ==
  [InputId : Inputs, save : Saves, holds : Inputs \cup Patterns \cup {Verbatim}]

InputValue(i) ==
  <<[value |-> i]>> \o (IF i.holds = Verbatim THEN <<>>
                        ELSE IF i.holds \in Patterns THEN <<Pattern(i.holds)>>
                        ELSE <<Token(i.holds)>>)

(* What an item of a replacement puts in the place of a token of sql. *)
PutInPlace(item, sql, token) ==
  CASE item = Pattern("$&") -> <<Token(token)>>
    [] item = Pattern("$$") -> <<Literal("$")>>
    [] item = Pattern("$_") -> sql
    [] OTHER -> <<item>>

Replacement(by, sql, token) == FlattenSeq([n \in DOMAIN by |-> PutInPlace(by[n], sql, token)])

(* Regex.Replace of every occurrence. *)
Replace(sql, token, by) ==
  FlattenSeq([n \in DOMAIN sql |->
    IF sql[n] = Token(token) THEN Replacement(by, sql, token) ELSE <<sql[n]>>])

SubstituteGlobalVariables(sql) ==
  Replace(Replace(sql, "CaseArtifactID", <<Literal("CaseArtifactID")>>),
          "MasterDatabasePrepend", <<Literal("MasterDatabasePrepend")>>)

Populated(d, populatedInputs) == {i \in populatedInputs : i.InputId = d}

(* What replaces the token of input d: NULL if it has no value, and the    *)
(* token itself for a saved search, whose table is not made yet.           *)
ReplaceString(d, populatedInputs) ==
  IF Populated(d, populatedInputs) = {}
    THEN <<Literal("NULL")>>
    ELSE LET i == CHOOSE i \in Populated(d, populatedInputs) : TRUE
         IN CASE Kind[d] = "Direct" -> InputValue(i)
              [] Kind[d] = "Text" -> <<Literal("'")>> \o InputValue(i) \o <<Literal("'")>>
              [] Kind[d] = "TimeZone" -> <<[offset |-> i]>>
              [] Kind[d] = "SavedSearch" -> <<Token(d)>>

SubstituteSuppliedInputs(populatedInputs, sql) ==
  FoldLeft(LAMBDA text, d : Replace(text, d, ReplaceString(d, populatedInputs)), sql,
           SelectSeq(Details, LAMBDA d : Populated(d, populatedInputs) # {}))

SubstituteScriptInputs(populatedInputs, sql) ==
  FoldLeft(LAMBDA text, d : Replace(text, d, ReplaceString(d, populatedInputs)), sql, Details)

(* The stored inputs that name a search, in no particular order: each has  *)
(* a token of its own and the tables' text holds none.                     *)
SavedSearches(populatedInputs) ==
  {i \in populatedInputs : i.InputId \in ToSet(Details) /\ Kind[i.InputId] = "SavedSearch"}

FromTable(i) == <<Literal("FROM"), [table |-> i], Literal("WHERE"), [table |-> i]>>

SubstituteSavedSearchTables(populatedInputs, sql) ==
  FoldFunction(LAMBDA i, text : Replace(text, i.InputId, FromTable(i)), sql,
               [i \in SavedSearches(populatedInputs) |-> i])

(* ExecuteDirectSqlJob, from the script's text to the SQL it executes. *)
DirectSql(populatedInputs) ==
  SubstituteSavedSearchTables(populatedInputs,
    SubstituteScriptInputs(populatedInputs, SubstituteGlobalVariables(ScriptSql)))
=============================================================================
