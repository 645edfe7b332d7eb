------------------------ MODULE MCBootloaderScripts ------------------------
(***************************************************************************)
(* BootloaderScripts with small pages and a few arrangements of the ports: *)
(* the devices behind the first, second and third path.                    *)
(***************************************************************************)
EXTENDS BootloaderScripts

MCPaths == <<"ttyACM0", "ttyACM1", "ttyACM2">>

MCArrangements ==
  {<<>>, <<"mb">>, <<"other", "mb">>, <<"mb", "other">>, <<"bc", "mb">>, <<"mb", "other", "bc">>}

MCPortLists ==
  {[i \in DOMAIN devices |-> [path |-> MCPaths[i], device |-> devices[i]]] :
     devices \in MCArrangements}
=============================================================================
