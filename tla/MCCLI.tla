------------------------------- MODULE MCCLI -------------------------------
(***************************************************************************)
(* CLI with every command, and with lines that stop short or go astray.    *)
(***************************************************************************)
EXTENDS CLI

Line(words) == <<"mbctl">> \o words

\* All words behind a first word, with the path where there is one.
MCCommandLines ==
  {Line(w) : w \in {<<>>, <<"help">>, <<"start">>, <<"chip", "flash", "fw">>, <<"chip", "flash">>,
                    <<"help", "chip">>, <<"chip", "start", "now">>, <<"mb", "status">>}}
  \cup {Line(<<g>>) : g \in {"chip", "daemon", "debug"}}
  \cup {Line(<<g, c>>) : g \in {"chip", "daemon", "debug"},
                         c \in {"start", "stop", "status", "kill", "logs", "throw", "block",
                                "connect", "disconnect"}}
=============================================================================
