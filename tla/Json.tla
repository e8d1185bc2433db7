-------------------------------- MODULE Json --------------------------------
(***************************************************************************)
(* How a request is taken apart: jsmn (json/jsmn.h, without parent links   *)
(* and not strict) and tok_find_key (json/json_builder.h), which every     *)
(* handler reads its parameters with.                                      *)
(*                                                                         *)
(* The text is fed lexeme by lexeme: brackets, colons, commas, strings and *)
(* primitives, with white space in between.  What is inside a string or a  *)
(* primitive matters only when it is broken, and to tell two keys apart.   *)
(*                                                                         *)
(* Beside the parser runs the grammar: the input is either a JSON object   *)
(* that may break off anywhere, or any lexemes in any order.  jsmn keeps   *)
(* no stack and no parents: it finds them again in the token array, and    *)
(* the properties compare what it finds with what the grammar knows.       *)
(***************************************************************************)
EXTENDS Integers, Sequences, SequencesExt, FiniteSets, FiniteSetsExt

CONSTANTS
    Keys,             \* the texts that strings have
    MAX_JSON_TOKENS,  \* the size of the token array
    Lengths           \* bounds on the number of lexemes, by kind of input

ASSUME TokensAssumption == MAX_JSON_TOKENS \in Nat \ {0}
ASSUME LengthsAssumption == /\ Lengths.json \in Nat /\ Lengths.any \in Nat
                            /\ Keys \cap {"{", "}", "[", "]", ":", ",", "primitive"} = {}

(* An unterminated string ends the text; a bad escape, or a byte outside   *)
(* the printable range in a primitive, is invalid.                         *)
Broken == {"unterminated", "invalid"}
Lexemes == Keys \cup {"{", "}", "[", "]", ":", ",", "primitive"} \cup Broken
Types == {"object", "array", "string", "primitive"}
NoText == "none"

VARIABLES
    input,    \* "json" or "any"
    n,        \* lexemes so far
    tokens,   \* the token array up to toknext
    toksuper, \* 0 for -1
    result,   \* "parsing", an error, or "ok"
    parents,  \* the grammar's parent of each token
    stack,    \* the open containers, as tokens, innermost last
    expect,   \* what the grammar allows next
    matched   \* every closing bracket met its opening one

grammar == <<parents, stack, expect, matched>>
vars == <<input, n, tokens, toksuper, result, grammar>>

Init ==
    /\ input \in {"json", "any"}
    /\ n = 0
    /\ tokens = <<>> /\ toksuper = 0 /\ result = "parsing"
    /\ parents = <<>> /\ stack = <<>> /\ expect = "document" /\ matched = TRUE

-----------------------------------------------------------------------------
(* jsmn_parse                                                              *)

IsOpen(i) == tokens[i].type \in {"object", "array"} /\ tokens[i].open

(* jsmn_alloc_token                                                        *)
HasRoom == Len(tokens) < MAX_JSON_TOKENS

(* The token array with one child more for toksuper and one token more.    *)
WithToken(tok) ==
    Append(IF toksuper = 0 THEN tokens
           ELSE [tokens EXCEPT ![toksuper].size = @ + 1], tok)

Token(type, text) == [type |-> type, open |-> type \in {"object", "array"}, size |-> 0,
                      text |-> text]

Fail(error) == result' = error /\ UNCHANGED <<tokens, toksuper>>

ParseOpen(type) ==
    IF HasRoom
    THEN /\ tokens' = WithToken(Token(type, NoText))
         /\ toksuper' = Len(tokens) + 1
         /\ UNCHANGED result
    ELSE Fail("NOMEM")

(* jsmn_parse_string and jsmn_parse_primitive, of a whole lexeme.          *)
ParseScalar(type, text) ==
    IF HasRoom
    THEN tokens' = WithToken(Token(type, text)) /\ UNCHANGED <<toksuper, result>>
    ELSE Fail("NOMEM")

(* Fault: any closing bracket closes.                                      *)
Closes_Any(type, i) == TRUE

Closes(type, i) == tokens[i].type = type

(* Fault: the enclosing container is not looked for.                       *)
SuperAfterClose_None(i) == 0

(* The innermost container still open below token i.                       *)
SuperAfterClose(i) ==
    LET below == {j \in 1 .. i - 1 : IsOpen(j)}
    IN  IF below = {} THEN 0 ELSE Max(below)

ParseClose(type) ==
    LET open == {i \in DOMAIN tokens : IsOpen(i)}
    IN  IF open = {} \/ ~Closes(type, Max(open)) THEN Fail("INVAL")
        ELSE /\ tokens' = [tokens EXCEPT ![Max(open)].open = FALSE]
             /\ toksuper' = SuperAfterClose(Max(open))
             /\ UNCHANGED result

(* The token before the colon is the parent of what follows.               *)
ParseColon == toksuper' = Len(tokens) /\ UNCHANGED <<tokens, result>>

(* A comma ends a member: back from its key to the container.              *)
SuperAfterComma ==
    LET open == {i \in DOMAIN tokens : IsOpen(i)}
    IN  IF toksuper # 0 /\ tokens[toksuper].type \notin {"object", "array"} /\ open # {}
        THEN Max(open) ELSE toksuper

ParseComma == toksuper' = SuperAfterComma /\ UNCHANGED <<tokens, result>>

Parse(x) ==
    CASE x = "{" -> ParseOpen("object")
      [] x = "[" -> ParseOpen("array")
      [] x = "}" -> ParseClose("object")
      [] x = "]" -> ParseClose("array")
      [] x = ":" -> ParseColon
      [] x = "," -> ParseComma
      [] x = "primitive" -> ParseScalar("primitive", NoText)
      [] x = "unterminated" -> Fail("PART")
      [] x = "invalid" -> Fail("INVAL")
      [] x \in Keys -> ParseScalar("string", x)

(* The end of the text.                                                    *)
AtEnd == IF \E i \in DOMAIN tokens : IsOpen(i) THEN "PART" ELSE "ok"

-----------------------------------------------------------------------------
(* The grammar                                                             *)

InObject == stack # <<>> /\ tokens[Last(stack)].type = "object"

(* A value belongs to the key before it, or to its array.                  *)
ValueParent == IF stack = <<>> THEN 0 ELSE IF InObject THEN Len(tokens) ELSE Last(stack)

AfterValue(s) == IF s = <<>> THEN "end" ELSE "comma or close"

Allowed(x) ==
    CASE expect = "document" -> x = "{"
      [] expect = "key or close" -> x \in Keys \cup {"}"}
      [] expect = "key" -> x \in Keys
      [] expect = "colon" -> x = ":"
      [] expect = "value" -> x \in Keys \cup {"primitive", "{", "["}
      [] expect = "value or close" -> x \in Keys \cup {"primitive", "{", "[", "]"}
      [] expect = "comma or close" -> x \in {",", IF InObject THEN "}" ELSE "]"}
      [] expect = "end" -> FALSE

Grow(parent) == parents' = Append(parents, parent)

FollowJson(x) ==
    /\ Allowed(x)
    /\ UNCHANGED matched
    /\ \/ /\ x \in {"{", "["}
          /\ Grow(ValueParent)
          /\ stack' = Append(stack, Len(tokens) + 1)
          /\ expect' = IF x = "{" THEN "key or close" ELSE "value or close"
       \/ /\ x \in {"}", "]"}
          /\ stack' = Front(stack)
          /\ expect' = AfterValue(Front(stack))
          /\ UNCHANGED parents
       \/ /\ x \in Keys /\ expect \in {"key", "key or close"}
          /\ Grow(Last(stack))
          /\ expect' = "colon"
          /\ UNCHANGED stack
       \/ /\ x \in Keys \cup {"primitive"} /\ expect \in {"value", "value or close"}
          /\ Grow(ValueParent)
          /\ expect' = AfterValue(stack)
          /\ UNCHANGED stack
       \/ /\ x = ":"
          /\ expect' = "value"
          /\ UNCHANGED <<parents, stack>>
       \/ /\ x = ","
          /\ expect' = IF InObject THEN "key" ELSE "value"
          /\ UNCHANGED <<parents, stack>>

(* Any lexeme: only the brackets are followed.                             *)
FollowAny(x) ==
    /\ stack' = IF x \in {"{", "["} THEN Append(stack, x)
                ELSE IF x \in {"}", "]"} /\ stack # <<>> THEN Front(stack)
                ELSE stack
    /\ matched' = /\ matched
                  /\ x = "}" => stack # <<>> /\ Last(stack) = "{"
                  /\ x = "]" => stack # <<>> /\ Last(stack) = "["
    /\ UNCHANGED <<parents, expect>>

Feed ==
    /\ result = "parsing"
    /\ n < Lengths[input]
    /\ n' = n + 1
    /\ \E x \in Lexemes :
          /\ Parse(x)
          /\ IF input = "json" THEN FollowJson(x) ELSE FollowAny(x)
    /\ UNCHANGED input

Finish ==
    /\ result = "parsing" /\ n > 0
    /\ result' = AtEnd
    /\ UNCHANGED <<input, n, tokens, toksuper, grammar>>

Next == Feed \/ Finish

Spec == Init /\ [][Next]_vars

-----------------------------------------------------------------------------
(* tok_find_key                                                            *)

(* The token after the subtrees still to skip.                             *)
RECURSIVE SkipSubtrees(_, _)
SkipSubtrees(i, skip) ==
    IF skip = 0 THEN i ELSE SkipSubtrees(i + 1, skip + tokens[i].size - 1)

(* Fault: a value is taken for one token.                                  *)
AfterMember_Flat(i) == i + 2

(* The key after the one at i: its value's subtree is skipped.             *)
AfterMember(i) == SkipSubtrees(i + 1, 1)

RECURSIVE FindFrom(_, _, _)
FindFrom(i, k, key) ==
    IF k = 0 THEN 0
    ELSE IF tokens[i].text = key THEN i + 1
    ELSE FindFrom(AfterMember(i), k - 1, key)

(* 0 for -1.                                                               *)
tok_find_key(obj, key) == FindFrom(obj + 1, tokens[obj].size, key)

(* The same from the grammar: the value of the first such key.             *)
MemberValue(obj, key) ==
    LET found == {i \in DOMAIN tokens : parents[i] = obj /\ tokens[i].text = key}
    IN  IF found = {} THEN 0
        ELSE CHOOSE v \in DOMAIN tokens : parents[v] = Min(found)

-----------------------------------------------------------------------------
(* Properties                                                              *)

Children(i) == Cardinality({j \in DOMAIN parents : parents[j] = i})
Fits == Len(parents) <= MAX_JSON_TOKENS

(* Type invariant: jsmn never writes past the token array.                 *)
TypeOK ==
    /\ input \in {"json", "any"} /\ n \in 0 .. Lengths[input]
    /\ tokens \in Seq([type : Types, open : BOOLEAN, size : Nat, text : Keys \cup {NoText}])
    /\ Len(tokens) <= MAX_JSON_TOKENS
    /\ toksuper \in 0 .. Len(tokens)
    /\ result \in {"parsing", "ok", "INVAL", "NOMEM", "PART"}

(* As long as the text is JSON and fits, toksuper is what the next token   *)
(* belongs to, found again without a stack after every bracket and comma,  *)
(* and every token's size is the number of its children.                   *)
TreeRecovered ==
    input = "json" /\ result = "parsing" =>
        /\ \A i \in DOMAIN tokens : tokens[i].size = Children(i)
        /\ expect = "value" /\ InObject => toksuper = Len(tokens)
        /\ expect \in {"key", "key or close", "value or close"} => toksuper = Last(stack)
        /\ expect = "value" /\ ~InObject => toksuper = Last(stack)

(* A request that is a JSON object is taken when it is whole and fits, and *)
(* refused as partial, or for want of tokens, when it is not.              *)
WholeIsTaken ==
    input = "json" =>
        /\ result = "ok" => expect = "end"
        /\ result = "NOMEM" => ~Fits
        /\ result = "PART" => expect # "end"
        /\ result # "INVAL"

(* Whatever the text, what is taken has matching brackets.                 *)
TakenIsMatched == input = "any" /\ result = "ok" => matched /\ stack = <<>>

(* A text is taken exactly when it should be.                              *)
TakenIsWhole == WholeIsTaken /\ TakenIsMatched

(* tok_find_key returns the value of the first member of that name, of     *)
(* this object and of none inside or around it.                            *)
FindsItsMember ==
    input = "json" /\ result = "ok" =>
        \A obj \in DOMAIN tokens : tokens[obj].type = "object" =>
            \A key \in Keys : tok_find_key(obj, key) = MemberValue(obj, key)
=============================================================================
