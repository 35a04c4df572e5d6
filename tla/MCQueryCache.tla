----------------------------- MODULE MCQueryCache -----------------------------
(* An instance of QueryCache: the two tables of MediaStoreProvider.        *)
EXTENDS QueryCache, TLC

\* The statements, in the order of their texts:
\* 1 INSERT INTO albums ...       2 SELECT * FROM albums
\* 3 SELECT * FROM songs          4 SELECT ... FROM songs WHERE ... 'albums' ...
\* 5 UPDATE songs ...
MCQuery == {2, 3, 4}
MCInsertion == {1}
MCChange == {5}
MCTableOf == <<"albums", "albums", "songs", "songs", "songs">>
MCMentions == <<{"albums"}, {"albums"}, {"songs"}, {"songs", "albums"},
                {"songs"}>>
MCContent == 0..2
RowSymmetry == Permutations(Row) \cup Permutations(Cursor)
=============================================================================
