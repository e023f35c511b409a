--------------------------- MODULE MCDownsampler ---------------------------
(* An instance of Downsampler: the kinds of books that matter.             *)
EXTENDS Downsampler, TLC

CONSTANTS btc, eth

MCSymbols == {btc, eth}
MCSymmetry == Permutations(MCSymbols)

Book(bids, asks) == [bids |-> bids, asks |-> asks]

MCMessages ==
    { Book(<< <<2, 1>>, <<1, 2>> >>, << <<4, 1>> >>),                \* proper
      Book(<< <<3, 3>> >>, << <<5, 1>>, <<7, 2>>, <<8, 1>> >>),      \* deeper than Depth
      Book(<< <<1, 1>>, <<2, 3>> >>, << <<4, 2>> >>),                \* not in price order
      Book(<< <<2, 0>>, <<1, 1>> >>, << <<4, 1>> >>),                \* a level removed
      Book(<< <<5, 1>>, <<1, 1>> >>, << <<3, 2>> >>),                \* crossed
      Book(<< <<2, 1>>, <<1, 1>>, <<3, 2>> >>, << <<4, 1>> >>),      \* best beyond Depth
      Book(<<>>, << <<4, 1>> >>) }                                   \* one side
=============================================================================
