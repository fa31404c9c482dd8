-------------------------------- MODULE Errors ------------------------------
(***************************************************************************)
(* What an instruction returns.  The program's errors (program/src/        *)
(* error.rs) and the token program's (external) travel as bare numbers,    *)
(* ProgramError::Custom(code), where the code is the place of the error in *)
(* its own list: two errors of the two lists may be the same number.       *)
(***************************************************************************)
EXTENDS Integers, Sequences

SwapError == <<
  "AlreadyInUse", "InvalidProgramAddress", "InvalidOwner", "InvalidOutputOwner", "ExpectedMint",
  "ExpectedAccount", "EmptySupply", "InvalidSupply", "InvalidDelegate", "InvalidInput",
  "IncorrectSwapAccount", "IncorrectPoolMint", "InvalidOutput", "CalculationFailure",
  "InvalidInstruction",
  "RepeatedMint", "ExceededSlippage", "InvalidCloseAuthority", "InvalidFreezeAuthority",
  "IncorrectFeeAccount",
  "ZeroTradingTokens", "FeeCalculationFailure", "ConversionFailure", "InvalidFee",
  "IncorrectTokenProgramId",
  "UnsupportedCurveType", "InvalidCurve", "UnsupportedCurveOperation", "InvalidFeeAccount",
  "MissingTimestamp",
  "InvalidRho", "InvalidSsr", "InvalidChi", "InvalidPermissionAddress", "InvalidUpdatePermission",
  "InvalidRay", "UnsupportedTokenExtension", "MismatchedMintDecimals", "InvalidAccountMint" >>

TokenError == <<
  "NotRentExempt", "InsufficientFunds", "InvalidMint", "MintMismatch", "OwnerMismatch",
  "FixedSupply", "AlreadyInUse", "InvalidNumberOfProvidedSigners",
  "InvalidNumberOfRequiredSigners", "UninitializedState",
  "NativeNotSupported", "NonNativeHasBalance", "InvalidInstruction", "InvalidState", "Overflow" >>

\* The number an error of a list is returned as; counting starts at 0.
Custom(list, error) == (CHOOSE i \in DOMAIN list : list[i] = error) - 1

SwapCode(error)  == Custom(SwapError, error)
TokenCode(error) == Custom(TokenError, error)

\* The two ends of an instruction that are no error of a list.
Ok       == -1
Panicked == -2

Codes == -2 .. Len(SwapError) - 1
=============================================================================
