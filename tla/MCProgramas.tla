---------------------------- MODULE MCProgramas ----------------------------
(* Instances of Programas for TLC: after a beginning that gives it two     *)
(* pages, a size and an address, one process executes any instruction and  *)
(* then one that looks at registers or memory, next to another process     *)
(* that asks for a page and for text; or it grows again after it shrank,   *)
(* with a page that it had looked at.                                      *)
EXTENDS Programas

OrdenMC == <<"AX", "EAX", "SI", "DI">>
TamRegMC == [r \in {"AX", "EAX", "SI", "DI"} |-> IF r = "AX" THEN 1 ELSE 2]

Inicio == << <<"RESIZE", 4>>, <<"SET", "EAX", 3>>, <<"SET", "SI", 1>> >>
Cuerpo == {
  <<"SUM", "AX", "SI">>, <<"SUB", "DI", "SI">>, <<"JNZ", "AX", 4>>, <<"SUM", "AX", "PC">>,
  <<"SET", "PC", 5>>, <<"MOV_IN", "EAX", "SI">>, <<"MOV_IN", "AX", "SI">>, <<"MOV_OUT", "SI", "EAX">>,
  <<"MOV_OUT", "DI", "SI">>, <<"COPY_STRING", 3>>, <<"RESIZE", 2>>, <<"RESIZE", 5>>, <<"WAIT", "REC1">>, <<"SIGNAL", "REC1">>,
  <<"IO_STDIN_READ", "STDIN", "SI", "EAX">>, <<"IO_STDOUT_WRITE", "STDOUT", "SI", "EAX">> }

Observar == {
  <<"JNZ", "AX", 4>>, <<"MOV_IN", "EAX", "SI">>, <<"MOV_IN", "AX", "SI">>, <<"COPY_STRING", 3>>, <<"RESIZE", 5>>,
  <<"IO_STDIN_READ", "STDIN", "SI", "EAX">>, <<"IO_STDOUT_WRITE", "STDOUT", "SI", "EAX">> }

Crece == << <<"RESIZE", 4>>, <<"SET", "SI", 2>>, <<"MOV_IN", "AX", "SI">>, <<"RESIZE", 2>>, <<"RESIZE", 4>>,
            <<"MOV_IN", "AX", "SI">>, <<"EXIT">> >>

Otro == << <<"RESIZE", 2>>, <<"SET", "SI", 2>>, <<"IO_STDIN_READ", "STDIN", "DI", "SI">>,
           <<"IO_STDOUT_WRITE", "STDOUT", "DI", "SI">>, <<"EXIT">> >>

ProgramasMC ==
  <<{Inicio \o <<x, y, <<"EXIT">>>> : x \in Cuerpo, y \in Observar} \cup {Crece}, {Otro}>>
=============================================================================
