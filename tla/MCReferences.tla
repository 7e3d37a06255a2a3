---------------------------- MODULE MCReferences ----------------------------
(***************************************************************************)
(* A small instance of References for TLC: an album of two photos, one of  *)
(* them with a caption, a photo without and one with a caption, and two    *)
(* texts; the model takes one reference, the bucket holds one token.       *)
(***************************************************************************)
EXTENDS References

CONSTANTS first, second, plain, titled, text, otherText, album

AlbumAndTwo == {first, second, plain, titled}
TwoTexts == {text, otherText}
SomeTitled == {second, titled}
OneAlbum == {album}
InAlbum == [p \in AlbumAndTwo |-> IF p \in {first, second} THEN album ELSE None]

NoGapKinds == MishapKinds \ {"gap"}
=============================================================================
