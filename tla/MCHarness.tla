------------------------------ MODULE MCHarness ------------------------------
\* A small instance of Harness for TLC.
EXTENDS Harness, TLC

Row(content, score) == [content |-> content, score |-> score, status |-> "ACTIVE"]

\* The second was stored while the name recogniser was not installed.
MCSeeds == {<<Row("a", -2), Row("a name", -1)>>}

Step(key, error) == [key |-> key, error |-> error]
Fine == <<Step("open", ""), Step("fill", ""), Step("submit", "")>>
Stuck == <<Step("open", ""), Step("solve", "captcha_wall"), Step("solve", "captcha_wall"),
           Step("solve", "other")>>

MCEndings == {[steps |-> Fine, raised |-> ""], [steps |-> Stuck, raised |-> "rate_limited"]}

Symmetry == Permutations(Run)
==============================================================================
