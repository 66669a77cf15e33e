---------------------------- MODULE MCFlashSession ----------------------------
(***************************************************************************)
(* Scripts of main for FlashSession: the three fixed commands at the       *)
(* start, any of the optional ones, and power at the end.                  *)
(***************************************************************************)
EXTENDS FlashSession

Run(mid) == <<"emmc", "configure", "reconfigure">> \o mid \o <<"power">>

\* format, raw program, no patch file; no format, patches
SomeScripts ==
  {Run(<<"erase", "erase", "program">>),
   Run(<<"erase", "program", "patch">>),
   Run(<<"program", "program", "patch">>),
   Run(<<"erase", "patch">>),
   Run(<<>>)}

HealthyScripts ==
  {Run(<<"erase", "erase", "program", "program", "patch", "patch">>),
   Run(<<"program">>), Run(<<"patch">>)}

\* Two turns of the loop read one message or two before it gives up; a healthy
\* run gets one turn more than the messages of any answer need.
SomeRuns ==
  [script : SomeScripts, healthy : {FALSE}, limit : {2}]
    \cup [script : HealthyScripts, healthy : {TRUE}, limit : {4}]
===============================================================================
