------------------------------ MODULE RpcApis ------------------------------
(***************************************************************************)
(* What each asynchronous method of TKClient and TKUnauthenticatedClient    *)
(* does between its invocation and its callback, as a program of two kinds  *)
(* of step: a signature asked of the crypto engine, and a gRPC call whose   *)
(* completion handler runs the rest.  An authenticated call is a Low (or a  *)
(* given) signature followed by the call, because TKRpc signs the request   *)
(* before it dispatches it.  Methods with the same program share a set.     *)
(***************************************************************************)
EXTENDS Sequences

Levels == {"Privileged", "Standard", "Low"}

\* What the completion handler makes of a response: nothing, a status it only
\* tells success from failure by, a RequestStatus, or a TransferTokenStatus.
ReplyKinds == {"plain", "status", "request", "transfer"}

SignSteps == [do : {"sign"}, key : Levels]
CallSteps == [do : {"call"}, auth : BOOLEAN, reply : ReplyKinds]
Steps == SignSteps \cup CallSteps

Sign(k) == [do |-> "sign", key |-> k]
OpenCall(reply) == [do |-> "call", auth |-> FALSE, reply |-> reply]
AuthCall(reply) == [do |-> "call", auth |-> TRUE, reply |-> reply]

-----------------------------------------------------------------------------
(* TKUnauthenticatedClient *)

MemberLookups == {"newMemberId", "getMemberId", "getTokenMember", "getMember"}
BankLookups == {"getBanks", "getBanksCountries"}
OpenNotifications == {"notifyAddKey", "notifyCreateAndEndorseToken",
                      "invalidateNotification", "openTokenRequestResult"}
RecoveryRequests == {"beginRecovery", "createRecoveryAuthorization"}
RecoveryAuthorizations == {"getRecoveryAuthorization"}
OpenUpdates == {"openUpdateMember"}

(* TKClient, in the order of the file *)

MemberCreations == {"createMemberId"}
AliasVerifications == {"verifyAlias"}
AliasCalls == {"getAliases", "resendAliasVerification"}
DeleteMember == {"deleteMember"}
ChainUpdates == {"updateMember"}
SubscriberCalls == {"subscribeToNotifications", "getSubscribers", "getSubscriber",
                    "getNotifications"}
NotificationCalls == {"getNotification", "updateNotificationStatus",
                      "unsubscribeFromNotifications", "notifyPaymentRequest",
                      "linkAccounts"}
OauthLinkings == {"linkAccountsOauth"}
AccountCalls == {"unlinkAccounts", "getAccounts", "getAccount",
                 "getDefaultAccount", "setDefaultAccount"}
TokenCreations == {"prepareToken", "createToken"}
TransferTokenCreations == {"createTransferToken"}
AccessTokenCreations == {"createAccessToken"}
TokenReads == {"getToken", "getActiveAccessToken", "getTokensOfType"}
Endorsements == {"endorseToken"}
Cancellations == {"cancelToken"}
Replacements == {"replaceToken"}
Redemptions == {"redeemToken"}
TransferCalls == {"createStandingOrder", "getTransfer", "getTransfersOffset"}
BalanceReads == {"getBalance", "getBalances"}
TransactionReads == {"getTransaction", "getTransactionsOffset"}
StandingOrderReads == {"getStandingOrder", "getStandingOrdersOffset"}
SubmissionCalls == {"getStandingOrderSubmission",
                    "getStandingOrderSubmissionsOffset", "getBulkTransfer",
                    "createBulkTransfer", "createBlob"}
BlobReads == {"getBlob", "getTokenBlob"}
AddressAdditions == {"addAddress"}
AddressCalls == {"getAddressById", "getAddresses", "deleteAddressById",
                 "confirmFunds", "getBankInfo", "createTestBankAccount"}
ProfileCalls == {"getProfile", "setProfile", "getProfilePicture",
                 "setProfilePicture"}
StepUpNotifications == {"getPairedDevices", "triggerStepUpNotification",
                        "triggerBalanceStepUpNotification",
                        "triggerTransactionStepUpNotification"}
ScaCalls == {"ApplySca"}
TokenRequestCalls == {"signTokenRequestState", "storeTokenRequest",
                      "getTokenRequestResult", "updateTokenRequest",
                      "setReceiptContact", "getReceiptContact"}
BeneficiaryUpdates == {"addTrustedBeneficiary", "removeTrustedBeneficiary"}
SettingCalls == {"getTrustedBeneficiaries", "setAppCallbackUrl",
                 "resolveTransferDestinations"}
\* TKMember createToken:tokenRequestId:keyLevel:, a payload signature first.
SignedTokenCreations == {"createTokenWithKey"}

-----------------------------------------------------------------------------

\* The methods of TKUnauthenticatedClient.
OpenApis == UNION {MemberLookups, BankLookups, OpenNotifications,
                   RecoveryRequests, RecoveryAuthorizations, OpenUpdates}

\* The methods of TKClient that sign nothing but the request, with a Low key,
\* and take any response for success.
PlainApis ==
  UNION {MemberCreations, AliasVerifications, AliasCalls, SubscriberCalls,
         NotificationCalls, AccountCalls,
         TokenCreations, AccessTokenCreations, TokenReads, TransferCalls,
         SubmissionCalls, BlobReads, AddressCalls, ProfileCalls,
         StepUpNotifications, TokenRequestCalls, SettingCalls}

\* TKMember wraps the error callback of these so as to ask again with a
\* Standard key when the bank wants more signatures than a Low key gives.
StepUpApis == BalanceReads \cup TransactionReads \cup StandingOrderReads

\* Methods whose caller chooses the key level.
KeyedApis == StepUpApis \cup Endorsements \cup SignedTokenCreations

AllApis ==
  UNION {OpenApis, PlainApis, KeyedApis, DeleteMember, ChainUpdates, OauthLinkings,
         TransferTokenCreations, Cancellations, Replacements, Redemptions,
         AddressAdditions, ScaCalls, BeneficiaryUpdates}

-----------------------------------------------------------------------------
(* The steps of method a, called with key level k where it takes one *)

\* The member is read first, for the hash its update has to follow.
ReadFirst(a) == IF a \in ChainUpdates THEN <<OpenCall("plain")>> ELSE <<>>

\* The signature of what the request carries, if it carries one.
PayloadSignature(a, k) ==
  IF a \in ChainUpdates \cup OpenUpdates THEN <<Sign("Privileged")>>
  ELSE IF a \in BeneficiaryUpdates THEN <<Sign("Standard")>>
  ELSE IF a \in UNION {Cancellations, Replacements, Redemptions, AddressAdditions}
    THEN <<Sign("Low")>>
  ELSE IF a \in Endorsements \cup SignedTokenCreations THEN <<Sign(k)>>
  ELSE <<>>

\* The key that authenticates the request.
RequestKey(a, k) ==
  IF a \in DeleteMember THEN "Privileged"
  ELSE IF a \in ScaCalls THEN "Standard"
  ELSE IF a \in StepUpApis THEN k
  ELSE "Low"

ReplyKind(a) ==
  IF a \in UNION {RecoveryAuthorizations, OauthLinkings, Redemptions} THEN "status"
  ELSE IF a \in StepUpApis THEN "request"
  ELSE IF a \in TransferTokenCreations THEN "transfer"
  ELSE "plain"

\* Without authentication, TKRpc execute:request:; with it, the request is
\* signed before it is dispatched.
FinalCall(a, k) ==
  IF a \in OpenApis THEN <<OpenCall(ReplyKind(a))>>
  ELSE <<Sign(RequestKey(a, k)), AuthCall(ReplyKind(a))>>

Program(a, k) == ReadFirst(a) \o PayloadSignature(a, k) \o FinalCall(a, k)
=============================================================================
