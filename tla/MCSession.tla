------------------------------ MODULE MCSession ------------------------------
(***************************************************************************)
(* A plain and a tunnelled turn, every command line and terminal, and five *)
(* agents of the registry: two that share a variable, two that read it,    *)
(* one with more variables and another default.  The environments are the  *)
(* user's own, and those of one or two msc around this one.                *)
(***************************************************************************)
EXTENDS Session, TLC

CONSTANTS
    t1, t2, agy, aider, claude, codex, qwen,
    ANTHROPIC_BASE_URL, OPENAI_BASE_URL, OPENAI_API_BASE, CODE_ASSIST_ENDPOINT,
    GOOGLE_GEMINI_BASE_URL, GEMINI_API_KEY,
    anthropic, openai, dashscope, cloudcode, gemini, custom, outer, inner

MCAgents == <<agy, aider, claude, codex, qwen>>
MCEnvKey == agy :> CODE_ASSIST_ENDPOINT @@ aider :> OPENAI_API_BASE @@ claude :> ANTHROPIC_BASE_URL
            @@ codex :> OPENAI_BASE_URL @@ qwen :> OPENAI_BASE_URL
MCExtraKeys == [a \in ToSet(MCAgents) |-> IF a = agy THEN {GOOGLE_GEMINI_BASE_URL} ELSE {}]
MCDetectEnv == agy :> <<CODE_ASSIST_ENDPOINT, GOOGLE_GEMINI_BASE_URL>>
               @@ aider :> <<OPENAI_API_BASE, OPENAI_BASE_URL>> @@ claude :> <<ANTHROPIC_BASE_URL>>
               @@ codex :> <<OPENAI_BASE_URL, OPENAI_API_BASE>> @@ qwen :> <<OPENAI_BASE_URL>>
MCDefaultURL == agy :> cloudcode @@ aider :> openai @@ claude :> anthropic @@ codex :> openai @@ qwen :> dashscope
MCAltCond == [a \in ToSet(MCAgents) |-> IF a = agy THEN GEMINI_API_KEY ELSE Unset]
MCAltURL == [a \in ToSet(MCAgents) |-> IF a = agy THEN gemini ELSE Unset]

\* The user may have set some of the variables.
Own == {[k \in Keys |-> IF k \in mine THEN custom ELSE Unset] :
          mine \in SUBSET {OPENAI_BASE_URL, OPENAI_API_BASE, GOOGLE_GEMINI_BASE_URL, GEMINI_API_KEY}}
WithinOne == Nested(Own, outer)
WithinTwo == Nested(WithinOne, inner)
MCEnvironments == Own \cup WithinOne \cup WithinTwo

MCSettings == [dryRun : BOOLEAN, force : BOOLEAN, mitm : BOOLEAN]
Terminal(proc, group, foreground) == [proc |-> proc, group |-> group, foreground |-> foreground]
\* In the foreground together, msc alone, the child alone, no terminal; and a
\* system without /proc.
MCTerminals == {Terminal(TRUE, "msc", "msc"), Terminal(TRUE, "child", "msc"), Terminal(TRUE, "child", "child"),
                Terminal(TRUE, "msc", "none"), Terminal(FALSE, "msc", "msc")}
=============================================================================
