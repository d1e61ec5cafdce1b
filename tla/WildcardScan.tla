---------------------------- MODULE WildcardScan ----------------------------
(***************************************************************************)
(* isProtectedProcessPattern: the pattern of a Windows rule is matched     *)
(* with the protected names, one after another.  wildcardMatches scans a   *)
(* name once; it remembers the last star and starts again behind it, one   *)
(* character further on in the name, when the rest does not match.         *)
(*                                                                         *)
(* A pattern or a name is a sequence of characters in lower case.  Indices *)
(* are the lengths of what was consumed, and starIndex = 0 means that no   *)
(* star was seen.                                                          *)
(***************************************************************************)
EXTENDS Naturals, Sequences

CONSTANTS
  Char,
  Patterns,   \* the patterns of requests
  NameSets    \* sets of protected names

ASSUME ScanAssumption ==
  /\ Patterns \subseteq Seq(Char)
  /\ \A names \in NameSets : names \subseteq Seq(Char \ {"*"})

VARIABLES
  pattern, names,
  left,                        \* names that were not looked at yet
  value,                       \* the name that is being matched
  patternIndex, valueIndex,
  starIndex, starValueIndex,   \* the last star, and where it began to match
  verdict                      \* "next", "scan", "trail", "protected" or "free"

matchVars == <<pattern, names, left, value, patternIndex, valueIndex, starIndex,
              starValueIndex, verdict>>
inputs == <<pattern, names, left, value>>

ScanInit ==
  /\ pattern \in Patterns /\ names \in NameSets /\ left = names
  /\ value = <<>> /\ verdict = "next"
  /\ patternIndex = 0 /\ valueIndex = 0 /\ starIndex = 0 /\ starValueIndex = 0

\* The loop of isProtectedProcessPattern (a map has no order); names has the name
\* of the installer too, which the code looks at last.
NextName ==
  /\ verdict = "next" /\ left # {}
  /\ value' \in left /\ left' = left \ {value'} /\ verdict' = "scan"
  /\ patternIndex' = 0 /\ valueIndex' = 0 /\ starIndex' = 0 /\ starValueIndex' = 0
  /\ UNCHANGED <<pattern, names>>

NoMoreNames ==
  /\ verdict = "next" /\ left = {} /\ verdict' = "free"
  /\ UNCHANGED <<inputs, patternIndex, valueIndex, starIndex, starValueIndex>>

InName == verdict = "scan" /\ valueIndex < Len(value)
InPattern == patternIndex < Len(pattern)
Same == InPattern /\ pattern[patternIndex + 1] = value[valueIndex + 1]
AtStar == InPattern /\ pattern[patternIndex + 1] = "*"

CompareEqual ==
  /\ InName /\ Same
  /\ patternIndex' = patternIndex + 1 /\ valueIndex' = valueIndex + 1
  /\ UNCHANGED <<inputs, starIndex, starValueIndex, verdict>>

TakeStar ==
  /\ InName /\ ~Same /\ AtStar
  /\ starIndex' = patternIndex + 1 /\ starValueIndex' = valueIndex
  /\ patternIndex' = patternIndex + 1
  /\ UNCHANGED <<inputs, valueIndex, verdict>>

\* Mutant: the scan goes on where it failed.
BacktrackForward ==
  /\ InName /\ ~Same /\ ~AtStar /\ starIndex # 0
  /\ patternIndex' = starIndex /\ starValueIndex' = valueIndex + 1
  /\ valueIndex' = valueIndex + 1
  /\ UNCHANGED <<inputs, starIndex, verdict>>

Backtrack ==
  /\ InName /\ ~Same /\ ~AtStar /\ starIndex # 0
  /\ patternIndex' = starIndex /\ starValueIndex' = starValueIndex + 1
  /\ valueIndex' = starValueIndex + 1
  /\ UNCHANGED <<inputs, starIndex, verdict>>

Mismatch ==
  /\ InName /\ ~Same /\ ~AtStar /\ starIndex = 0 /\ verdict' = "next"
  /\ UNCHANGED <<inputs, patternIndex, valueIndex, starIndex, starValueIndex>>

\* The name is used up: the second loop skips the stars that follow.
NameUsedUp ==
  /\ verdict = "scan" /\ valueIndex = Len(value) /\ verdict' = "trail"
  /\ UNCHANGED <<inputs, patternIndex, valueIndex, starIndex, starValueIndex>>

SkipStar ==
  /\ verdict = "trail" /\ AtStar /\ patternIndex' = patternIndex + 1
  /\ UNCHANGED <<inputs, valueIndex, starIndex, starValueIndex, verdict>>

Answer ==
  /\ verdict = "trail" /\ ~AtStar
  /\ verdict' = IF patternIndex = Len(pattern) THEN "protected" ELSE "next"
  /\ UNCHANGED <<inputs, patternIndex, valueIndex, starIndex, starValueIndex>>

ScanNext ==
  \/ NextName \/ NoMoreNames \/ CompareEqual \/ TakeStar \/ Backtrack \/ Mismatch
  \/ NameUsedUp \/ SkipStar \/ Answer

ScanSpec == ScanInit /\ [][ScanNext]_matchVars

-----------------------------------------------------------------------------
\* What matching means.  The first p characters of a pattern match the first v
\* of a name if some f says how much of the name each of them has used up: a
\* star stands for any run of characters, another character for itself.
Fits(pat, name, f, p) ==
  /\ f[0] = 0
  /\ \A i \in 1..p : IF pat[i] = "*" THEN f[i] >= f[i - 1]
                     ELSE f[i] = f[i - 1] + 1 /\ name[f[i]] = pat[i]
Aligned(pat, name, p, v) == \E f \in [0..p -> 0..v] : Fits(pat, name, f, p) /\ f[p] = v
Matches(pat, name) == Aligned(pat, name, Len(pat), Len(name))

\* A pattern is refused if it matches a protected name, and only then, although
\* a name is scanned only once (isProtectedProcessPattern, wildcardMatches).  The
\* protected names are those that the pattern is compared with: of the installer
\* that is one version, while isProtectedProcess (which nothing calls) has all.
ProtectedDecided ==
  /\ verdict = "protected" => \E name \in names : Matches(pattern, name)
  /\ verdict = "free" => \A name \in names : ~Matches(pattern, name)
=============================================================================
