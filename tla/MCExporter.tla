------------------------------ MODULE MCExporter ----------------------------
(* Exporter over two days of one month, after which nothing more happens in *)
(* the hotel; a day may get a second row of business after its first.       *)
EXTENDS Exporter

MCMonthOf == [d \in Day \cup {End} |-> IF d = End THEN 2 ELSE 1]
=============================================================================
