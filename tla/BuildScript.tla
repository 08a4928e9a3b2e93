---------------------------- MODULE BuildScript -----------------------------
(***************************************************************************)
(* What Freeline reads from a build script without a project description:  *)
(* the projects compiled in a "dependencies" block, found by counting      *)
(* braces from each place where such a block begins.                       *)
(*                                                                         *)
(* A script is a sequence of tokens: "dependencies {", "{", "}", a line    *)
(* "compile project(...)" and any other text, its comments removed.        *)
(***************************************************************************)
EXTENDS Naturals, Sequences, FiniteSets

CONSTANTS
  MaxTokens \* bound on the tokens of a script

\* What the constants may be.
ScriptAssumption == MaxTokens \in Nat

VARIABLES
  script  \* the tokens

Tokens == {"dependencies {", "{", "}", "compile project", "text"}
Opening == {"dependencies {", "{"}
Closing == {"}"}

\* balanced_braces: the text between the first brace and the one that closes it,
\* as positions; nothing if it stays open.
BalancedBraces(s, from) ==
  LET n[k \in from..Len(s)] ==
        IF k = from THEN 1
        ELSE IF n[k - 1] = 0 THEN 0
        ELSE IF s[k] \in Opening THEN n[k - 1] + 1
        ELSE IF s[k] \in Closing THEN n[k - 1] - 1 ELSE n[k - 1]
  IN IF n[Len(s)] # 0 THEN {} ELSE {k \in (from + 1)..Len(s) : n[k] > 0}

\* get_local_dependency: the positions of the projects it finds.
GetLocalDependency(s) ==
  {k \in UNION {BalancedBraces(s, b) : b \in {b \in DOMAIN s : s[b] = "dependencies {"}} :
     s[k] = "compile project"}

Init == script = <<>>

Count(s, kind) == Cardinality({k \in DOMAIN s : s[k] \in kind})

\* Someone writes a script; a brace closes one that is open.
Type ==
  /\ Len(script) < MaxTokens
  /\ \E t \in Tokens :
       /\ t \in Closing => Count(script, Closing) < Count(script, Opening)
       /\ script' = Append(script, t)

Spec == Init /\ [][Type]_script

-----------------------------------------------------------------------------
\* gradle_tools.py:1181-1213 - the projects found are those that stand, at any
\* depth, between the brace of a "dependencies" block and the brace that matches
\* it, be the block inside another one, beside it or never closed.
Encloses(s, b, k) ==
  \E e \in (k + 1)..Len(s) :
    LET upTo(x) == SubSeq(s, b, x)
    IN /\ Count(upTo(e), Opening) = Count(upTo(e), Closing)
       /\ \A x \in b..k : Count(upTo(x), Opening) > Count(upTo(x), Closing)

BlocksAreRead ==
  GetLocalDependency(script) =
    {k \in DOMAIN script : script[k] = "compile project" /\
       \E b \in 1..(k - 1) : script[b] = "dependencies {" /\ Encloses(script, b, k)}
=============================================================================
