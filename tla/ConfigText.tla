----------------------------- MODULE ConfigText -----------------------------
(***************************************************************************)
(* A captured configuration as text: what is compared between captures and  *)
(* what is refused.  netauditor/backup.py:35-88, netauditor/connect.py:82-117.*)
(*                                                                          *)
(* A text is the sequence of its lines, whatever their terminators are (the *)
(* code folds CRLF and CR into LF before it looks at a line); a line is its *)
(* text up to the white space it ends with, and whether there is any.       *)
(***************************************************************************)
EXTENDS Lists

\* The lines that VOLATILE_LINE_PATTERNS match, one of each of two sorts.
VolatileTexts == {"! Time: 09:00", "! Time: 10:00", "Building configuration..."}

MIN_CONFIG_LINES == 5

Line(text, spaces) == [text |-> text, spaces |-> spaces]

\* Mutant: a pattern of VOLATILE_LINE_PATTERNS that matches too much.
is_volatile_Greedy(line) == line.text \in VolatileTexts \cup {"ntp server a"}

is_volatile(line) == line.text \in VolatileTexts

\* Mutant: white space at the end is kept.
rstrip_Not(line) == line

rstrip(line) == [line EXCEPT !.spaces = FALSE]

\* `not line` of a stripped line, or of line.strip().
Blank(line) == line.text = "" /\ ~line.spaces

\* The lines kept, less the blank ones at both ends.
normalize(config) ==
    LET kept   == {n \in DOMAIN config : ~is_volatile(config[n])}
        filled == {n \in kept : ~Blank(rstrip(config[n]))}
    IN  Sublist([n \in DOMAIN config |-> rstrip(config[n])],
                {n \in kept : \E i, j \in filled : i <= n /\ n <= j})

\* The config is empty, or has too few meaningful lines to be one.
config_problem(config) ==
    LET lines == normalize(config)
    IN  Cardinality({n \in DOMAIN lines : ~Blank(rstrip(lines[n]))}) < MIN_CONFIG_LINES

-----------------------------------------------------------------------------
(* The reply to a command, before it is taken for a configuration.           *)

\* A line that begins with "%", and one that holds a marker.
Rejections == {"% Invalid input", "error: syntax error"}

MAX_ERROR_REPLY_LINES == 5

Filled(reply) == {n \in DOMAIN reply : ~Blank(rstrip(reply[n]))}

\* Mutant: a marker on the last line counts.
output_problem_Last(reply) ==
    \/ Filled(reply) = {}
    \/ \E last \in Filled(reply) :
          /\ \A n \in Filled(reply) : n <= last /\ last - n < MAX_ERROR_REPLY_LINES
          /\ reply[last].text \in Rejections

\* Nothing, or a rejection: a short reply with a marker on its first line.
output_problem(reply) ==
    \/ Filled(reply) = {}
    \/ \E first \in Filled(reply) :
          /\ \A n \in Filled(reply) : first <= n /\ n - first < MAX_ERROR_REPLY_LINES
          /\ reply[first].text \in Rejections
=============================================================================
