------------------------------- MODULE Archivos -------------------------------
(***************************************************************************)
(* What DialFS promises the processes: files with contents, that are        *)
(* created empty, grow, are written within their size and are removed.     *)
(* There are no blocks in a place here, only how many a file takes: an     *)
(* order is refused for lack of space only when the whole disk has not     *)
(* got it, wherever the free blocks may be.                                *)
(***************************************************************************)
EXTENDS Integers, FiniteSets

CONSTANTS Archivo, CantBloques, TamBloque, Tamanios, Punteros, Largos, Dato, Cero

VARIABLES contenido,  \* of each file that exists, its bytes: a function on 0 .. size - 1
          respuesta   \* the last order and whether it was done

vars == <<contenido, respuesta>>

Tam(f) == Cardinality(DOMAIN contenido[f])
BloquesDe(tam) == IF tam = 0 THEN 1 ELSE (tam + TamBloque - 1) \div TamBloque
Tomados == Cardinality(UNION {{f} \X (1 .. BloquesDe(Tam(f))) : f \in DOMAIN contenido})

Contestar(tipo, f, tam, hecho) ==
  respuesta' = [tipo |-> tipo, archivo |-> f, tam |-> tam, hecho |-> hecho]

Init == /\ contenido = [f \in {} |-> <<>>]
        /\ respuesta = [tipo |-> "nada"]

Crear(f) ==
  \/ /\ f \notin DOMAIN contenido
     /\ contenido' = [g \in DOMAIN contenido \cup {f} |->
                        IF g = f THEN [k \in {} |-> Cero] ELSE contenido[g]]
     /\ Tomados' <= CantBloques
     /\ Contestar("crear", f, 0, TRUE)
  \/ /\ f \in DOMAIN contenido \/ Tomados = CantBloques
     /\ Contestar("crear", f, 0, FALSE)
     /\ UNCHANGED contenido

Borrar(f) ==
  /\ f \in DOMAIN contenido
  /\ contenido' = [g \in DOMAIN contenido \ {f} |-> contenido[g]]
  /\ Contestar("borrar", f, 0, TRUE)

\* The old bytes stay; what the new ones hold is not promised.
Agrandar(f) ==
  /\ f \in DOMAIN contenido
  /\ DOMAIN contenido' = DOMAIN contenido
  /\ \A g \in DOMAIN contenido \ {f} : contenido'[g] = contenido[g]
  /\ \A k \in DOMAIN contenido[f] : k \in DOMAIN contenido'[f] /\ contenido'[f][k] = contenido[f][k]
  /\ LET tam == Cardinality(DOMAIN contenido'[f])
     IN /\ tam > Tam(f)
        /\ Tomados' <= CantBloques
        /\ Contestar("agrandar", f, tam, TRUE)

NegarAgrandar(f, tam) ==
  /\ f \in DOMAIN contenido
  /\ Tomados - BloquesDe(Tam(f)) + BloquesDe(tam) > CantBloques
  /\ Contestar("agrandar", f, tam, FALSE)
  /\ UNCHANGED contenido

\* A stretch of the file: its first byte and its length.
Escribir(f, k, n, d) ==
  /\ f \in DOMAIN contenido
  /\ IF k + n <= Tam(f)
     THEN contenido' = [contenido EXCEPT ![f] =
                          [j \in DOMAIN @ |-> IF j \in k .. k + n - 1 THEN d ELSE @[j]]]
     ELSE UNCHANGED contenido
  /\ Contestar("escribir", f, n, k + n <= Tam(f))

Leer(f, k, n) ==
  /\ f \in DOMAIN contenido /\ k + n <= Tam(f)
  /\ Contestar("leer", f, n, TRUE)
  /\ UNCHANGED contenido

Next ==
  \E f \in Archivo :
    \/ Crear(f) \/ Borrar(f) \/ Agrandar(f)
    \/ \E tam \in Tamanios : NegarAgrandar(f, tam)
    \/ \E k \in Punteros, n \in Largos :
         Leer(f, k, n) \/ \E d \in Dato : Escribir(f, k, n, d)

Spec == Init /\ [][Next]_vars
=============================================================================
